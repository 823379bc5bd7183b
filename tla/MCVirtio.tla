------------------------------- MODULE MCVirtio ------------------------------
(* Instances of Virtio for TLC. *)
EXTENDS Virtio, TLC

CONSTANTS p1, p2, p3

\* Each process has a buffer of its own; one of them reads and writes.
MCRequests == (p1 :> ({p1} \X BOOLEAN)) @@ (p2 :> {<<p2, TRUE>>}) @@ (p3 :> {<<p3, FALSE>>})
==============================================================================
