-------------------------------- MODULE MCPipe -------------------------------
(* Instances of Pipe for TLC. *)
EXTENDS Pipe, TLC

\* The processes that did not make the pipe are interchangeable.
Symmetry == Permutations(Procs \ {Maker})
==============================================================================
