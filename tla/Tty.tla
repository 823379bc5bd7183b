--------------------------------- MODULE Tty ---------------------------------
(***************************************************************************)
(* The terminal: kernel/console.c and kernel/uart.c.  Characters typed go  *)
(* through uartintr() and consoleintr() into the ring cons.buf, where      *)
(* consoleread() finds whole lines; consolewrite() puts bytes into the     *)
(* ring uart_tx_buf, from which uartstart() feeds the device.              *)
(*                                                                         *)
(* cons    r, w, e and buf of struct cons                                  *)
(* tx      r, w and buf of the transmit ring, a byte is its writer         *)
(* lock    holders of cons.lock and of uart_tx_lock                        *)
(* dev     the device: bytes in its transmit FIFO, whether a character was *)
(*         received and not yet read, and whether it requests an interrupt *)
(* h       the interrupt handler: where it is, and bytes left to echo      *)
(* th[p]   the read() or write() of process p, killed[p] its flag          *)
(*                                                                         *)
(* A cell of a ring that is read or erased is forgotten.  The three bytes  *)
(* that echo a BACKSPACE wait for the device one after the other, and are  *)
(* modelled as one.  A killed process ends, and another takes its place.   *)
(***************************************************************************)
EXTENDS Integers, FiniteSets

CONSTANTS Readers, Writers,   \* processes that call read(), and write()
          INPUT_BUF,          \* size of cons.buf
          TX_BUF,             \* UART_TX_BUF_SIZE
          UINT,               \* indices of cons.buf count modulo UINT
          UINT64,             \* indices of uart_tx_buf count modulo UINT64
          MaxCount,           \* bound: a read() asks for 1..MaxCount bytes
          None

ASSUME SizeAssumption ==
  /\ {INPUT_BUF, TX_BUF, UINT, UINT64, MaxCount} \subseteq Nat \ {0}
  /\ UINT % INPUT_BUF = 0 /\ UINT64 % TX_BUF = 0
  /\ UINT > INPUT_BUF /\ UINT64 > TX_BUF
  /\ Readers \cap Writers = {}
\* A process is neither the interrupt handler nor nobody.
ASSUME ProcsAssumption == None # "intr" /\ {None, "intr"} \cap (Readers \cup Writers) = {}

VARIABLES cons, tx, lock, dev, h, th, killed

vars == <<cons, tx, lock, dev, h, th, killed>>

Procs == Readers \cup Writers
\* A printing character, newline, ^D, ^U and backspace.
Keys == {"x", "nl", "eof", "kill", "erase"}
Idle == [pc |-> "idle", n |-> 0, target |-> 0]

Init ==
  /\ cons = [r |-> 0, w |-> 0, e |-> 0, buf |-> [i \in 0..(INPUT_BUF - 1) |-> "x"]]
  /\ tx = [r |-> 0, w |-> 0, buf |-> [i \in 0..(TX_BUF - 1) |-> None]]
  /\ lock = [cons |-> None, uart |-> None]
  /\ dev = [thr |-> 0, rx |-> FALSE, irq |-> FALSE]
  /\ h = [pc |-> "idle", echo |-> 0]
  /\ th = [p \in Procs |-> Idle]
  /\ killed = [p \in Readers |-> FALSE]

Plus(x, n) == (x + n) % UINT
Dist(from, to) == (to - from) % UINT
TxCount == (tx.w - tx.r) % UINT64
At(p, l) == th[p].pc = l
Goto(p, l) == th' = [th EXCEPT ![p].pc = l]

------------------------------------------------------------------------------
\* The device (external).

\* It sends a byte; an empty FIFO asks for an interrupt.
dev_send ==
  /\ dev.thr > 0
  /\ dev' = [dev EXCEPT !.thr = @ - 1, !.irq = @ \/ dev.thr = 1]
  /\ UNCHANGED <<cons, tx, lock, h, th, killed>>

\* Somebody types.
dev_receive ==
  /\ ~dev.rx
  /\ dev' = [dev EXCEPT !.rx = TRUE, !.irq = TRUE]
  /\ UNCHANGED <<cons, tx, lock, h, th, killed>>

------------------------------------------------------------------------------
\* consoleintr().

Woken == [p \in Procs |-> IF At(p, "read_sleep") THEN [th[p] EXCEPT !.pc = "read_lock"] ELSE th[p]]

\* How many characters ^U removes: those after the last newline, up to w.
ToErase ==
  LET Line(k) == \A j \in 1..k : cons.buf[Plus(cons.e, -j) % INPUT_BUF] # "nl"
      ks == {k \in 0..Dist(cons.w, cons.e) : Line(k)}
  IN CHOOSE k \in ks : \A x \in ks : x <= k

erase(n) ==
  /\ cons' = [cons EXCEPT !.e = Plus(@, -n),
                !.buf = [i \in 0..(INPUT_BUF - 1) |->
                  IF \E j \in 1..n : i = Plus(cons.e, -j) % INPUT_BUF THEN "x" ELSE @[i]]]
  /\ h' = [pc |-> "echo", echo |-> n]
  /\ UNCHANGED th

\* Faulty insert: a full buffer does not count as a line.
insert_lines(c) ==
  LET e == Plus(cons.e, 1)
      line == c \in {"nl", "eof"}
  IN
  /\ cons' = [cons EXCEPT !.buf[cons.e % INPUT_BUF] = c, !.e = e, !.w = IF line THEN e ELSE @]
  /\ th' = IF line THEN Woken ELSE th
  /\ h' = [pc |-> "echo", echo |-> 1]

insert(c) ==
  LET e == Plus(cons.e, 1)
      line == c \in {"nl", "eof"} \/ Dist(cons.r, e) = INPUT_BUF
  IN
  /\ cons' = [cons EXCEPT !.buf[cons.e % INPUT_BUF] = c, !.e = e, !.w = IF line THEN e ELSE @]
  /\ th' = IF line THEN Woken ELSE th
  /\ h' = [pc |-> "echo", echo |-> 1]

HasRoom == Dist(cons.r, cons.e) < INPUT_BUF

\* uartgetc() and consoleintr(), which runs under cons.lock, the echo included.
consoleintr(c) ==
  /\ h.pc = "rx" /\ dev.rx /\ lock.cons = None
  /\ lock' = [lock EXCEPT !.cons = "intr"]
  /\ dev' = [dev EXCEPT !.rx = FALSE]
  /\ CASE c = "kill"  -> erase(ToErase)
       [] c = "erase" -> erase(IF cons.e = cons.w THEN 0 ELSE 1)
       [] OTHER       -> IF HasRoom THEN insert(c)
                         ELSE h' = [pc |-> "echo", echo |-> 0] /\ UNCHANGED <<cons, th>>
  /\ UNCHANGED <<tx, killed>>

\* uartputc_sync(): LSR says that the FIFO is empty ...
echo_ready ==
  /\ h.pc = "echo" /\ h.echo > 0 /\ dev.thr = 0
  /\ h' = [h EXCEPT !.pc = "echo_send"]
  /\ UNCHANGED <<cons, tx, lock, dev, th, killed>>

\* ... and the byte is written, whatever happened in between.
echo_send ==
  /\ h.pc = "echo_send"
  /\ dev' = [dev EXCEPT !.thr = @ + 1]
  /\ h' = [pc |-> "echo", echo |-> h.echo - 1]
  /\ UNCHANGED <<cons, tx, lock, th, killed>>

echo_done ==
  /\ h.pc = "echo" /\ h.echo = 0
  /\ lock' = [lock EXCEPT !.cons = None]
  /\ h' = [h EXCEPT !.pc = "rx"]
  /\ UNCHANGED <<cons, tx, dev, th, killed>>

------------------------------------------------------------------------------
\* uartintr() and uartstart().

uartintr ==
  /\ h.pc = "idle" /\ dev.irq
  /\ dev' = [dev EXCEPT !.irq = FALSE]
  /\ h' = [h EXCEPT !.pc = "rx"]
  /\ UNCHANGED <<cons, tx, lock, th, killed>>

\* Faulty uartintr_tx: only input is handled.
uartintr_tx_none ==
  /\ h.pc = "rx" /\ ~dev.rx
  /\ h' = [h EXCEPT !.pc = "idle"]
  /\ UNCHANGED <<cons, tx, lock, dev, th, killed>>

\* No more input: send buffered characters.
uartintr_tx ==
  /\ h.pc = "rx" /\ ~dev.rx /\ lock.uart = None
  /\ lock' = [lock EXCEPT !.uart = "intr"]
  /\ h' = [h EXCEPT !.pc = "start"]
  /\ UNCHANGED <<cons, tx, dev, th, killed>>

\* uartstart() in the handler: nothing to send, or the device is busy.
intr_stop ==
  /\ h.pc = "start" /\ (tx.w = tx.r \/ dev.thr > 0)
  /\ lock' = [lock EXCEPT !.uart = None]
  /\ h' = [h EXCEPT !.pc = "idle"]
  /\ UNCHANGED <<cons, tx, dev, th, killed>>

intr_ready ==
  /\ h.pc = "start" /\ tx.w # tx.r /\ dev.thr = 0
  /\ h' = [h EXCEPT !.pc = "send"]
  /\ UNCHANGED <<cons, tx, lock, dev, th, killed>>

\* Take a byte, wake the writers, write THR; t is th with the caller moved on.
send(t) ==
  /\ tx' = [tx EXCEPT !.buf[tx.r % TX_BUF] = None, !.r = (@ + 1) % UINT64]
  /\ dev' = [dev EXCEPT !.thr = @ + 1]
  /\ th' = [p \in Procs |-> IF t[p].pc = "putc_sleep" THEN [t[p] EXCEPT !.pc = "putc"] ELSE t[p]]

intr_send ==
  /\ h.pc = "send"
  /\ h' = [h EXCEPT !.pc = "start"]
  /\ send(th)
  /\ UNCHANGED <<cons, lock, killed>>

------------------------------------------------------------------------------
\* consolewrite() and uartputc().

\* The loop of consolewrite(): it may end after any byte, when all are written or
\* copyin() fails.
consolewrite(p) ==
  /\ At(p, "idle")
  /\ Goto(p, "putc")
  /\ UNCHANGED <<cons, tx, lock, dev, h, killed>>

consolewrite_return(p) ==
  /\ At(p, "putc")
  /\ th' = [th EXCEPT ![p] = Idle]
  /\ UNCHANGED <<cons, tx, lock, dev, h, killed>>

\* Faulty Full: room for one byte more.
Full_one == TxCount = TX_BUF + 1

Full == TxCount = TX_BUF

uartputc_sleep(p) ==
  /\ At(p, "putc") /\ lock.uart = None /\ Full
  /\ Goto(p, "putc_sleep")
  /\ UNCHANGED <<cons, tx, lock, dev, h, killed>>

uartputc(p) ==
  /\ At(p, "putc") /\ lock.uart = None /\ ~Full
  /\ lock' = [lock EXCEPT !.uart = p]
  /\ tx' = [tx EXCEPT !.buf[tx.w % TX_BUF] = p, !.w = (@ + 1) % UINT64]
  /\ Goto(p, "start")
  /\ UNCHANGED <<cons, dev, h, killed>>

\* uartstart() in uartputc().
putc_stop(p) ==
  /\ At(p, "start") /\ (tx.w = tx.r \/ dev.thr > 0)
  /\ lock' = [lock EXCEPT !.uart = None]
  /\ Goto(p, "putc")
  /\ UNCHANGED <<cons, tx, dev, h, killed>>

putc_ready(p) ==
  /\ At(p, "start") /\ tx.w # tx.r /\ dev.thr = 0
  /\ Goto(p, "send")
  /\ UNCHANGED <<cons, tx, lock, dev, h, killed>>

putc_send(p) ==
  /\ At(p, "send")
  /\ send([th EXCEPT ![p].pc = "start"])
  /\ UNCHANGED <<cons, lock, h, killed>>

------------------------------------------------------------------------------
\* consoleread().

consoleread(p, n) ==
  /\ At(p, "idle")
  /\ th' = [th EXCEPT ![p] = [pc |-> "read_lock", n |-> n, target |-> n]]
  /\ UNCHANGED <<cons, tx, lock, dev, h, killed>>

read_lock(p) ==
  /\ At(p, "read_lock") /\ lock.cons = None
  /\ lock' = [lock EXCEPT !.cons = p]
  /\ Goto(p, "read")
  /\ UNCHANGED <<cons, tx, dev, h, killed>>

\* Leave consoleread() and release the lock.
Leave(p, t) ==
  /\ lock' = [lock EXCEPT !.cons = None]
  /\ th' = [th EXCEPT ![p] = t]
  /\ killed' = [killed EXCEPT ![p] = @ /\ t # Idle]

read_sleep(p) ==
  /\ At(p, "read") /\ th[p].n > 0 /\ cons.r = cons.w
  /\ Leave(p, IF killed[p] THEN Idle ELSE [th[p] EXCEPT !.pc = "read_sleep"])
  /\ UNCHANGED <<cons, tx, dev, h>>

Consumed == [cons EXCEPT !.buf[cons.r % INPUT_BUF] = "x", !.r = Plus(@, 1)]

\* ^D ends the read; it is kept for the next one if this one has bytes.
read_eof(p) ==
  /\ At(p, "read") /\ th[p].n > 0 /\ cons.r # cons.w /\ cons.buf[cons.r % INPUT_BUF] = "eof"
  /\ cons' = IF th[p].n < th[p].target THEN cons ELSE Consumed
  /\ Leave(p, Idle)
  /\ UNCHANGED <<tx, dev, h>>

\* One byte; the read ends when copyout() fails or the line does.
read_byte(p, copied) ==
  LET c == cons.buf[cons.r % INPUT_BUF] IN
  /\ At(p, "read") /\ th[p].n > 0 /\ cons.r # cons.w /\ c # "eof"
  /\ cons' = Consumed
  /\ IF copied /\ c # "nl" THEN th' = [th EXCEPT ![p].n = @ - 1] /\ UNCHANGED <<lock, killed>>
     ELSE Leave(p, Idle)
  /\ UNCHANGED <<tx, dev, h>>

read_done(p) ==
  /\ At(p, "read") /\ th[p].n = 0
  /\ Leave(p, Idle)
  /\ UNCHANGED <<cons, tx, dev, h>>

\* kill() of a reader.  A writer does not look at the flag.
kill(p) ==
  /\ ~killed[p] /\ ~At(p, "idle")
  /\ killed' = [killed EXCEPT ![p] = TRUE]
  /\ th' = [th EXCEPT ![p].pc = IF @ = "read_sleep" THEN "read_lock" ELSE @]
  /\ UNCHANGED <<cons, tx, lock, dev, h>>

------------------------------------------------------------------------------
Reader(p) == read_lock(p) \/ read_sleep(p) \/ read_eof(p) \/ read_done(p)
             \/ \E copied \in BOOLEAN : read_byte(p, copied)
Writer(p) == consolewrite_return(p) \/ uartputc_sleep(p) \/ uartputc(p)
             \/ putc_stop(p) \/ putc_ready(p) \/ putc_send(p)
Handler == uartintr \/ (\E c \in Keys : consoleintr(c)) \/ echo_ready \/ echo_send \/ echo_done
           \/ uartintr_tx \/ intr_stop \/ intr_ready \/ intr_send

Next ==
  \/ Handler \/ dev_send \/ dev_receive
  \/ \E p \in Readers : Reader(p) \/ kill(p)
  \/ \E p \in Writers : Writer(p) \/ consolewrite(p)
  \/ \E p \in Readers, n \in 1..MaxCount : consoleread(p, n)

Spec == Init /\ [][Next]_vars

------------------------------------------------------------------------------
\* Properties.

\* A full input buffer can be read: otherwise readers would wait for a newline
\* that there is no room for (console.c:167).
FullIsReadable == Dist(cons.r, cons.e) = INPUT_BUF => cons.w = cons.e

\* Output does not get stuck: if bytes are buffered, somebody is in uartstart(),
\* or an interrupt will come that leads there (uart.c:143-147).
OutputMoves == tx.r # tx.w =>
  \/ dev.thr > 0 \/ dev.irq \/ h.pc # "idle"
  \/ \E p \in Writers : th[p].pc \in {"start", "send"}

\* Input that is committed, and output that is buffered, is not overwritten before
\* it is read or sent: what a step leaves between r and w is what was there.
Kept(ring, next, size, mod) == \A i \in 0..(size - 1) :
  i < (ring.w - next.r) % mod =>
    next.buf[(next.r + i) % size] = ring.buf[(next.r + i) % size]
NotOverwritten == [][Kept(cons, cons', INPUT_BUF, UINT) /\ Kept(tx, tx', TX_BUF, UINT64)]_vars
==============================================================================
