--------------------------------- MODULE MCSh ---------------------------------
(***************************************************************************)
(* Every line of at most three tokens, the lines of four tokens made of a  *)
(* word, blocks, '>' and '&', and some longer ones: pipelines of two and   *)
(* three commands, in blocks, in the background, with redirections, and    *)
(* more arguments than MAXARGS allows.                                     *)
(***************************************************************************)
EXTENDS Sh

Tokens == {"cat", "echo", "|", "(", ")", ";", "&", "<", ">", ">>"}

MCTyped ==
  UNION {[1..n -> Tokens] : n \in 0..3} \cup [1..4 -> {"echo", "(", ")", ">", "&"}] \cup
  {EndOfInput,
   <<"echo", "f", "|", "cat">>,
   <<"echo", "f", "|", "cat", "|", "cat">>,
   <<"(", "echo", "f", "|", "cat", "|", "cat", ")", ">", "f">>,
   <<"echo", "f", "|", "echo">>,
   <<"cat", "f", "f", "|", "cat">>,
   <<"cat", "f", ">", "f">>,
   <<"cat", "<", "f", "|", "cat", "&">>,
   <<"cat", "<", "f", ">", "f">>,
   <<">", "f", "cat", "<", "f">>,
   <<"(", "echo", "f", ";", "cat", ")", "|", "cat">>,
   <<"(", "echo", "&", ")", ">>", "f">>,
   <<"echo", "&", "&", ";", "f">>,
   <<"(", "cat", ")", "cat">>,
   <<"echo", "f", "f", "f">>,
   <<"echo", "|", "(", "cat", ";", "echo">>}
==============================================================================
