------------------------------- MODULE ShParse -------------------------------
(***************************************************************************)
(* The parser of the shell, user/sh.c, and the grammar it recognizes.      *)
(*                                                                         *)
(* A line is a sequence of the tokens that gettoken() finds: the symbols,  *)
(* and words.  A command is <<"EXEC", argv>>, <<"REDIR", cmd, file, fd>>,  *)
(* <<"PIPE", left, right>>, <<"LIST", left, right>> or <<"BACK", cmd>>.    *)
(* A parse function takes the line and the position it has reached; its    *)
(* result is <<cmd, position>>, or Panic.                                  *)
(***************************************************************************)
EXTENDS Integers, Sequences, FiniteSets

CONSTANTS MAXARGS

Symbols == {"|", "(", ")", ";", "&", "<", ">", ">>"}
Panic == <<>>

peek(s, i, toks) == i <= Len(s) /\ s[i] \in toks
IsWord(s, i) == i <= Len(s) /\ s[i] \notin Symbols

RedirFd(tok) == IF tok = "<" THEN 0 ELSE 1

\* Faulty parseredirs: a second redirection goes inside the first one.
RECURSIVE parseredirs_inner(_, _, _)
parseredirs_inner(cmd, s, i) ==
  IF ~peek(s, i, {"<", ">", ">>"}) THEN <<cmd, i>>
  ELSE IF ~IsWord(s, i + 1) THEN Panic
  ELSE LET fd == RedirFd(s[i]) IN
       parseredirs_inner(IF cmd[1] = "REDIR" THEN <<"REDIR", <<"REDIR", cmd[2], s[i + 1], fd>>, cmd[3], cmd[4]>>
                         ELSE <<"REDIR", cmd, s[i + 1], fd>>, s, i + 2)

RECURSIVE parseredirs(_, _, _)
parseredirs(cmd, s, i) ==
  IF ~peek(s, i, {"<", ">", ">>"}) THEN <<cmd, i>>
  ELSE IF ~IsWord(s, i + 1) THEN Panic
  ELSE parseredirs(<<"REDIR", cmd, s[i + 1], RedirFd(s[i])>>, s, i + 2)

\* The arguments are stored in the EXEC command below the redirections in ret.
RECURSIVE AddArg(_, _)
AddArg(cmd, q) ==
  IF cmd[1] = "EXEC" THEN <<"EXEC", Append(cmd[2], q)>> ELSE [cmd EXCEPT ![2] = AddArg(@, q)]

\* The loop of parseexec(), with argc arguments so far.
RECURSIVE parseargs(_, _, _)
parseargs(ret, s, argc) ==
  IF ret = Panic \/ peek(s, ret[2], {"|", ")", "&", ";"}) \/ ret[2] > Len(s) THEN ret
  ELSE IF ~IsWord(s, ret[2]) \/ argc + 1 >= MAXARGS THEN Panic
  ELSE parseargs(parseredirs(AddArg(ret[1], s[ret[2]]), s, ret[2] + 1), s, argc + 1)

RECURSIVE parseline(_, _)
RECURSIVE parsepipe(_, _)

parseblock(s, i) ==
  LET r == parseline(s, i + 1) IN
  IF r = Panic \/ ~peek(s, r[2], {")"}) THEN Panic ELSE parseredirs(r[1], s, r[2] + 1)

parseexec(s, i) ==
  IF peek(s, i, {"("}) THEN parseblock(s, i)
  ELSE parseargs(parseredirs(<<"EXEC", <<>>>>, s, i), s, 0)

\* What follows an operator becomes the right side of a command of type t.
Join(t, l, r) == IF r = Panic THEN Panic ELSE <<<<t, l, r[1]>>, r[2]>>

parsepipe(s, i) ==
  LET r == parseexec(s, i) IN
  IF r # Panic /\ peek(s, r[2], {"|"}) THEN Join("PIPE", r[1], parsepipe(s, r[2] + 1)) ELSE r

RECURSIVE parseback(_, _)
parseback(s, r) ==
  IF r # Panic /\ peek(s, r[2], {"&"}) THEN parseback(s, <<<<"BACK", r[1]>>, r[2] + 1>>) ELSE r

parseline(s, i) ==
  LET r == parseback(s, parsepipe(s, i)) IN
  IF r # Panic /\ peek(s, r[2], {";"}) THEN Join("LIST", r[1], parseline(s, r[2] + 1)) ELSE r

parsecmd(s) ==
  LET r == parseline(s, 1) IN IF r = Panic \/ r[2] <= Len(s) THEN Panic ELSE r[1]

------------------------------------------------------------------------------
\* The grammar, as the set of commands that a sequence of tokens stands for.

From(s, i) == SubSeq(s, i, Len(s))
To(s, i) == SubSeq(s, 1, i)

\* A command with redirections: each token of s is a redirection operator, its
\* file, or an argument.
Operators(s) == {i \in 1..Len(s) : s[i] \in {"<", ">", ">>"}}
IsSimple(s) ==
  /\ \A i \in 1..Len(s) : s[i] \in Symbols => i \in Operators(s)
  /\ \A i \in Operators(s) : i < Len(s) /\ s[i + 1] \notin Symbols
Arguments(s) ==
  LET Is == {i \in 1..Len(s) : s[i] \notin Symbols /\ (i - 1) \notin Operators(s)}
      At(k) == CHOOSE i \in Is : Cardinality({j \in Is : j <= i}) = k
  IN [k \in 1..Cardinality(Is) |-> s[At(k)]]

\* The last redirection is applied first, the others to what it applies to.
RECURSIVE Redirected(_, _)
Redirected(cmd, s) ==
  IF Operators(s) = {} THEN cmd
  ELSE LET i == CHOOSE i \in Operators(s) : \A j \in Operators(s) : j <= i
       IN <<"REDIR", Redirected(cmd, To(s, i - 1)), s[i + 1], RedirFd(s[i])>>

RECURSIVE Lines(_)
Commands(s) ==
  {Redirected(<<"EXEC", Arguments(s)>>, s) :
     x \in {y \in {1} : IsSimple(s) /\ Len(Arguments(s)) < MAXARGS}}
  \cup UNION {{Redirected(c, From(s, i + 1)) : c \in Lines(SubSeq(s, 2, i - 1))} :
     i \in {j \in 2..Len(s) : s[1] = "(" /\ s[j] = ")" /\ IsSimple(From(s, j + 1))
                              /\ Arguments(From(s, j + 1)) = <<>>}}

RECURSIVE Pipelines(_)
Pipelines(s) ==
  Commands(s) \cup UNION {{<<"PIPE", l, r>> : l \in Commands(To(s, i - 1)), r \in Pipelines(From(s, i + 1))} :
                            i \in {j \in 1..Len(s) : s[j] = "|"}}

RECURSIVE Jobs(_)
Jobs(s) == Pipelines(s) \cup
  IF s # <<>> /\ s[Len(s)] = "&" THEN {<<"BACK", c>> : c \in Jobs(To(s, Len(s) - 1))} ELSE {}

Lines(s) ==
  Jobs(s) \cup UNION {{<<"LIST", l, r>> : l \in Jobs(To(s, i - 1)), r \in Lines(From(s, i + 1))} :
                        i \in {j \in 1..Len(s) : s[j] = ";"}}
==============================================================================
