------------------------------- MODULE MCNames -------------------------------
(* Instances of Names for TLC. *)
EXTENDS Names, TLC

CONSTANTS p1, p2

One(op, path) == <<op, path, <<>>>>

\* p1 makes, enters and removes the directory that p2 works in.  No path goes
\* through "..", see HeldIsAllocated.
MCCalls ==
  (p1 :> {One("mkdir", <<"a">>), One("unlink", <<"a">>), One("open", <<"a">>),
          One("chdir", <<"a">>), One("chdir", <<"/">>)})
  @@
  (p2 :> {One("create", <<"a">>), One("mkdir", <<"a", "a">>), One("unlink", <<"a", "a">>),
          One("mknod", <<"a", "a">>), One("mkdir", <<".">>), One("mkdir", <<>>),
          One("create", <<"a", "a">>),
          <<"link", <<"a">>, <<"b">>>>, One("unlink", <<"b">>)})
==============================================================================
