------------------------------- MODULE MCBcache ------------------------------
(* Instances of Bcache for TLC. *)
EXTENDS Bcache, TLC

\* The processes are interchangeable.
Symmetry == Permutations(Procs)
==============================================================================
