-------------------------------- MODULE MCTty --------------------------------
(* Instances of Tty for TLC. *)
EXTENDS Tty
CONSTANTS p1, p2
==============================================================================
