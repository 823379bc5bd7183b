-------------------------------- MODULE Fifo ---------------------------------
(***************************************************************************)
(* What a pipe promises to the processes at its two ends: a bounded queue  *)
(* of bytes.  "out" is the byte that was read last.                        *)
(***************************************************************************)
EXTENDS Naturals, Sequences

CONSTANTS Bytes, NoByte, Capacity

VARIABLES q, out, readopen, writeopen

vars == <<q, out, readopen, writeopen>>

Init == q = <<>> /\ out = NoByte /\ readopen = TRUE /\ writeopen = TRUE

Put(b) ==
  /\ readopen /\ writeopen /\ Len(q) < Capacity
  /\ q' = Append(q, b)
  /\ UNCHANGED <<out, readopen, writeopen>>

Get ==
  /\ readopen /\ q # <<>>
  /\ out' = Head(q)
  /\ q' = Tail(q)
  /\ UNCHANGED <<readopen, writeopen>>

CloseRead ==
  readopen /\ readopen' = FALSE /\ UNCHANGED <<q, out, writeopen>>

CloseWrite ==
  writeopen /\ writeopen' = FALSE /\ UNCHANGED <<q, out, readopen>>

Next == (\E b \in Bytes : Put(b)) \/ Get \/ CloseRead \/ CloseWrite

Spec == Init /\ [][Next]_vars
==============================================================================
