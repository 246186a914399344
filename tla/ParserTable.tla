---------------------------- MODULE ParserTable ----------------------------
(***************************************************************************)
(* The tables the Lethon parser is driven by: the kinds of token, the      *)
(* shift and reduce rows the constructor of Parser registers, the operator *)
(* priorities, and the binary operators the code can emit.                 *)
(*                                                                         *)
(* A token is known to the tables by its KEY only: every identifier has    *)
(* key "id", every literal key "digit", and keywords and punctuation are   *)
(* their own keys; the comma, the semicolon and the braces go by the names *)
(* enum Punchation gives them.  HashToken makes this distinction;          *)
(* TokenObjCmp takes identifiers and literals for equal, so the rows are   *)
(* told apart as long as the map compares hashes first, as libstdc++ and   *)
(* libc++ do.                                                              *)
(***************************************************************************)
EXTENDS Integers

Keyword == {"if", "else", "while", "switch", "case", "struct", "class", "mut",
            "let", "impl", "return", "break", "continue", "goto", "use",
            "extern", "try", "catch", "union", "as", "fn", "true", "false",
            "sizeof"}

AssignOp == {"=", "/=", "*=", "%=", "+=", "-=", "<<=", ">>=", "&=", "^=", "|="}

Punchation == AssignOp \cup
           {"COMMA", ":", "SEMICOLON", "(", ")", "[", "]", "LBRACES", "RBRACES",
            "+", "-", "*", "/", "<", ">", "&", "|", "^", "!", "~", ".", "?", "%", "==", "!=",
            "<<", ">>", "<=", ">=", "&&", "||", "::", "->"}

Key == Keyword \cup Punchation \cup {"id", "digit", "enter"}

\* The statuses that occur in the rows below; 0 is the empty stack.
Status == 0..5 \cup 7..12 \cup 14..25

\* Statuses in which a body or a condition may start a new operand.
Opening == {15, 16, 17, 19, 22, 23, 24}

(***************************************************************************)
(* <<status, key, next>>: the token is pushed with the status next.        *)
(***************************************************************************)
ShiftRows ==
       ({0} \X {"id", "digit"} \X {2})
  \cup {<<0, "let", 3>>, <<0, "fn", 8>>, <<15, "let", 3>>}
  \cup {<<4, "COMMA", 5>>, <<8, "id", 9>>, <<10, "id", 11>>, <<11, ":", 12>>,
        <<14, "->", 18>>, <<21, "LBRACES", 22>>}
  \cup ({7} \X ({"id", "digit"} \cup (Punchation \ {"("})) \X {2})
  \cup (Opening \X {"id"} \X {2})
  \cup ((Opening \ {15}) \X {"digit"} \X {2})
  \cup ({15, 19, 22} \X {"return"} \X {16})
  \cup ({16, 17, 23} \X {"RBRACES"} \X {1})
  \cup (Opening \X (Punchation \ {"RBRACES"}) \X {1})

(***************************************************************************)
(* <<status, key, handler>>: the named member of Parser is called.         *)
(***************************************************************************)
ReduceRows ==
       ({0, 2, 14, 15, 19, 20, 21, 22, 24, 25} \X {"enter"} \X {"skip"})
  \cup {<<10, "COMMA", "skip">>}
  \cup ({2} \X (Punchation \ {"(", ")", "LBRACES"}) \X {"check_priority"})
  \cup {<<2, ")", "reduce_rparenthese">>, <<2, "LBRACES", "reduce_condition_calculate">>}
  \cup ({2, 7} \X {"("} \X {"enter_parentheses"})
  \cup ({3, 5} \X {"*"} \X {"define_pointer"})
  \cup {<<3, "id", "define_variable">>, <<5, "id", "define_again">>,
        <<4, "SEMICOLON", "define_finished">>}
  \cup {<<9, "(", "get_function_name">>,
        <<10, ")", "wait_function_return_type">>,
        <<12, "id", "get_argument">>,
        <<14, "LBRACES", "function_body_define_strart">>,
        <<18, "id", "get_function_return_type">>,
        <<25, "LBRACES", "has_return_type_function_define">>,
        <<25, "SEMICOLON", "function_declear">>,
        <<15, "RBRACES", "function_body_define_finished">>}
  \cup ({15, 19, 22, 24} \X {"if"} \X {"start_if_condition"})
  \cup ({15, 19, 22, 24} \X {"while"} \X {"start_while_condition"})
  \cup {<<19, "RBRACES", "end_if_body1">>, <<22, "RBRACES", "end_if_body2">>,
        <<24, "RBRACES", "end_while_body">>}
  \cup ({20} \X (Key \ {"enter"}) \X {"check_if_body2"})

\* The rows as lookup tables: what find() returns for a status and a key.
NoEntry == "none"
ShiftTo == [s \in Status |-> [k \in Key |->
              IF \E n \in Status : <<s, k, n>> \in ShiftRows
              THEN CHOOSE n \in Status : <<s, k, n>> \in ShiftRows ELSE -1]]

Handlers == {row[3] : row \in ReduceRows}
Handler == [s \in Status |-> [k \in Key |->
              IF \E h \in Handlers : <<s, k, h>> \in ReduceRows
              THEN CHOOSE h \in Handlers : <<s, k, h>> \in ReduceRows ELSE NoEntry]]

(***************************************************************************)
(* priority_map: 1 binds tightest.  The initialiser repeats some keys; the *)
(* first entry of a key wins.  "&&", "!=", and the brackets of blocks and  *)
(* statements are as the map leaves them.                                  *)
(***************************************************************************)
PriorityRows ==
       ({"[", "]", "(", ")", "->", "."} \X {1})
  \cup ({"*", "&", "!", "~"} \X {2})
  \cup ({"/", "%"} \X {3})
  \cup ({"+", "-"} \X {4})
  \cup ({"<<", ">>"} \X {5})
  \cup ({">", ">=", "<", "<="} \X {6})
  \cup ({"==", "!="} \X {7})
  \cup {<<"^", 9>>, <<"|", 10>>, <<"||", 12>>, <<"?", 13>>, <<"COMMA", 15>>}
  \cup (AssignOp \X {14})

Prioritised == {row[1] : row \in PriorityRows}

Priority == [k \in Prioritised |-> CHOOSE p \in 1..15 : <<k, p>> \in PriorityRows]

\* The operators clear_process_stack has a case for; any other one throws.
Emitted == {"=", ">", "%", "/", "+", "-", "*", "==", "<"}
=============================================================================
