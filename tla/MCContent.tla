------------------------------ MODULE MCContent ------------------------------
(* Instances of Content for TLC. *)
EXTENDS Content

CONSTANTS p1, p2, f1, f2

\* f1 is a file that both processes write; f2 is another open of the same inode,
\* or of the other one.
MCOpens == {<<f1, 1, FALSE>>, <<f2, 1, TRUE>>, <<f2, 2, TRUE>>, <<f2, 2, FALSE>>}

\* A negative length reads to the end of the file.
MCReads == {<<p2, f2, 1>>, <<p1, f1, -1>>}

\* One byte, more than one transaction, and a length below 0.
MCWrites == {<<p1, f1, 3>>, <<p2, f1, 1>>, <<p2, f2, 3>>, <<p1, f1, -1>>}
==============================================================================
