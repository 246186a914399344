------------------------------- MODULE MCLexer -------------------------------
(***************************************************************************)
(* The lexer for TLC: keywords that are prefixes of each other and of      *)
(* names, over the letters "f", "i" and "u", which are also suffixes of    *)
(* literals.                                                               *)
(***************************************************************************)
EXTENDS LexerProperties

OneKeyword == {<<"i", "f">>}
NestedKeywords == {<<"f">>, <<"i", "f">>, <<"i", "f", "f">>}
=============================================================================
