-------------------------------- MODULE MCLog --------------------------------
(* Instances of Log for TLC. *)
EXTENDS Log, TLC

\* The processes other than the one that recovers are interchangeable.
Symmetry == Permutations(Procs \ {InitProc}) \cup Permutations(Blocks)
==============================================================================
