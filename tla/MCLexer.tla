------------------------------ MODULE MCLexer ------------------------------
(***************************************************************************)
(* Short texts for Lexer: a letter, the letter that ends a long number, a  *)
(* digit, and what the automaton treats in a way of its own.               *)
(***************************************************************************)
EXTENDS Lexer

Pieces ==
  {<<"a">>, <<"l">>, <<"1">>, <<".">>, <<"/">>, <<"/", "/">>, <<"newline">>, <<"quote">>,
   <<"=">>, <<";">>, <<"'">>}

Words == {<<"a", "a">>}
=============================================================================
