---------------------------- MODULE ParserProofs ----------------------------
(***************************************************************************)
(* Proofs about the stacks of the parser, the tree of scopes, the code     *)
(* that is skipped after a return and the priorities saved for             *)
(* parentheses, for every program text and every bound.                    *)
(***************************************************************************)
EXTENDS ParserProperties, SequenceTheorems, FiniteSetTheorems, WellFoundedInduction, TLAPS

-----------------------------------------------------------------------------
(* The tables. *)

\* A row that is found is a row that was registered.
LEMMA ShiftToRow ==
  ASSUME NEW s \in Status, NEW k \in Key, ShiftTo[s][k] # -1
  PROVE  ShiftTo[s][k] \in Status /\ <<s, k, ShiftTo[s][k]>> \in ShiftRows
  BY Zenon DEF ShiftTo

LEMMA HandlerRow ==
  ASSUME NEW s \in Status, NEW k \in Key, Handler[s][k] # NoEntry
  PROVE  <<s, k, Handler[s][k]>> \in ReduceRows
  BY Zenon DEF Handler

\* What the proofs need to know of the keys.
LEMMA Keys ==
  /\ "(" \in Punchation /\ ")" \in Punchation /\ "COMMA" \in Punchation
  /\ "LBRACES" \in Punchation /\ "RBRACES" \in Punchation /\ "=" \in Punchation
  /\ "id" \notin Punchation /\ "digit" \notin Punchation
  /\ "value" \notin Punchation /\ "cond" \notin Punchation
  /\ "enter" \notin Punchation /\ "return" \notin Punchation
  /\ "let" \notin Punchation /\ "fn" \notin Punchation
  BY DEF Punchation, AssignOp

\* A shifted token fits where the table shifts it.
LEMMA ShiftFits ==
  ASSUME NEW s \in Status, NEW k \in Key, NEW n \in Status, <<s, k, n>> \in ShiftRows
  PROVE  n # 0 /\ Fits(s, n, k)
<1> USE Keys DEF Fits, StandsBeside, StandsOn, OperandKey
<1>1. CASE <<s, k, n>> \in {0} \X {"id", "digit"} \X {2}
  BY <1>1
<1>2. CASE <<s, k, n>> \in {<<0, "let", 3>>, <<0, "fn", 8>>, <<15, "let", 3>>}
  BY <1>2
<1>3. CASE <<s, k, n>> \in {<<4, "COMMA", 5>>, <<8, "id", 9>>, <<10, "id", 11>>,
                            <<11, ":", 12>>, <<14, "->", 18>>, <<21, "LBRACES", 22>>}
  BY <1>3
<1>4. CASE <<s, k, n>> \in {7} \X ({"id", "digit"} \cup (Punchation \ {"("})) \X {2}
  BY <1>4
<1>5. CASE <<s, k, n>> \in Opening \X {"id"} \X {2}
  BY <1>5
<1>6. CASE <<s, k, n>> \in (Opening \ {15}) \X {"digit"} \X {2}
  BY <1>6
<1>7. CASE <<s, k, n>> \in {15, 19, 22} \X {"return"} \X {16}
  BY <1>7
<1>8. CASE <<s, k, n>> \in {16, 17, 23} \X {"RBRACES"} \X {1}
  BY <1>8 DEF Opening
<1>9. CASE <<s, k, n>> \in Opening \X (Punchation \ {"RBRACES"}) \X {1}
  BY <1>9
<1> QED BY <1>1, <1>2, <1>3, <1>4, <1>5, <1>6, <1>7, <1>8, <1>9, Zenon DEF ShiftRows

\* Where the handlers that change the stacks are registered.
LEMMA Registered ==
  ASSUME NEW s \in Status, NEW k \in Key, NEW h, h # NoEntry, Handler[s][k] = h
  PROVE  /\ h = "check_priority" => s = 2 /\ k \in Punchation \ {"("}
         /\ h = "reduce_rparenthese" => s = 2
         /\ h = "reduce_condition_calculate" => s = 2
         /\ h = "enter_parentheses" => s \in {2, 7} /\ k = "("
         /\ h = "define_variable" => s = 3
         /\ h = "define_again" => s = 5
         /\ h = "define_finished" => s = 4
         /\ h = "get_function_name" => s = 9 /\ k = "("
         /\ h = "wait_function_return_type" => s = 10
         /\ h = "get_argument" => s = 12
         /\ h = "get_function_return_type" => s = 18
         /\ h = "function_body_define_strart" => s = 14 /\ k = "LBRACES"
         /\ h = "has_return_type_function_define" => s = 25 /\ k = "LBRACES"
         /\ h = "function_body_define_finished" => s = 15
         /\ h = "start_if_condition" => s \in {15, 19, 22, 24}
         /\ h = "start_while_condition" => s \in {15, 19, 22, 24}
         /\ h = "end_if_body1" => s = 19
         /\ h = "end_if_body2" => s = 22
         /\ h = "end_while_body" => s = 24
         /\ h = "check_if_body2" => s = 20
<1>1. <<s, k, h>> \in ReduceRows
  BY HandlerRow
<1>2. \/ <<s, k, h>> \in {0, 2, 14, 15, 19, 20, 21, 22, 24, 25} \X {"enter"} \X {"skip"}
      \/ <<s, k, h>> \in {<<10, "COMMA", "skip">>}
      \/ <<s, k, h>> \in {2} \X (Punchation \ {"(", ")", "LBRACES"}) \X {"check_priority"}
      \/ <<s, k, h>> \in {<<2, ")", "reduce_rparenthese">>,
                          <<2, "LBRACES", "reduce_condition_calculate">>}
      \/ <<s, k, h>> \in {2, 7} \X {"("} \X {"enter_parentheses"}
      \/ <<s, k, h>> \in {3, 5} \X {"*"} \X {"define_pointer"}
      \/ <<s, k, h>> \in {<<3, "id", "define_variable">>, <<5, "id", "define_again">>,
                          <<4, "SEMICOLON", "define_finished">>}
      \/ <<s, k, h>> \in {<<9, "(", "get_function_name">>,
                          <<10, ")", "wait_function_return_type">>,
                          <<12, "id", "get_argument">>,
                          <<14, "LBRACES", "function_body_define_strart">>,
                          <<18, "id", "get_function_return_type">>,
                          <<25, "LBRACES", "has_return_type_function_define">>,
                          <<25, "SEMICOLON", "function_declear">>,
                          <<15, "RBRACES", "function_body_define_finished">>}
      \/ <<s, k, h>> \in {15, 19, 22, 24} \X {"if"} \X {"start_if_condition"}
      \/ <<s, k, h>> \in {15, 19, 22, 24} \X {"while"} \X {"start_while_condition"}
      \/ <<s, k, h>> \in {<<19, "RBRACES", "end_if_body1">>, <<22, "RBRACES", "end_if_body2">>,
                          <<24, "RBRACES", "end_while_body">>}
      \/ <<s, k, h>> \in {20} \X (Key \ {"enter"}) \X {"check_if_body2"}
  BY <1>1, Zenon DEF ReduceRows
<1> QED BY <1>2

-----------------------------------------------------------------------------
(* Cutting and pushing on both stacks at once. *)

\* The symbols whose condition is one of the first c.
Held(c) == {y \in Symbol : y.key = "cond" => y.cond \in 1 .. c}

WellStacked(c, statuses, symbols) ==
  /\ statuses \in Seq(Status \ {0})
  /\ symbols \in Seq(Held(c))
  /\ Matched(statuses, symbols)

Below(statuses, i) == IF i = 0 THEN 0 ELSE statuses[i]

LEMMA Cut ==
  ASSUME NEW c, NEW ss, NEW ys, WellStacked(c, ss, ys), NEW n \in 0 .. Len(ss)
  PROVE  /\ WellStacked(c, SubSeq(ss, 1, n), SubSeq(ys, 1, n))
         /\ Len(SubSeq(ss, 1, n)) = n
         /\ TopOf(SubSeq(ss, 1, n)) = Below(ss, n)
<1>1. /\ ss \in Seq(Status \ {0}) /\ ys \in Seq(Held(c)) /\ Len(ss) = Len(ys)
      /\ \A i \in 1 .. Len(ss) : Fits(IF i = 1 THEN 0 ELSE ss[i - 1], ss[i], ys[i].key)
  BY DEF WellStacked, Matched
<1> DEFINE s == SubSeq(ss, 1, n)
           y == SubSeq(ys, 1, n)
<1>2. /\ s \in Seq(Status \ {0}) /\ Len(s) = n /\ \A i \in 1 .. n : s[i] = ss[i]
      /\ y \in Seq(Held(c)) /\ Len(y) = n /\ \A i \in 1 .. n : y[i] = ys[i]
  BY <1>1
<1> HIDE DEF s, y
<1>3. Matched(s, y)
  <2> SUFFICES ASSUME NEW i \in 1 .. n
               PROVE  Fits(IF i = 1 THEN 0 ELSE s[i - 1], s[i], y[i].key)
    BY <1>2 DEF Matched
  <2>1. Fits(IF i = 1 THEN 0 ELSE ss[i - 1], ss[i], ys[i].key)
    BY <1>1
  <2>2. i # 1 => i - 1 \in 1 .. n
    OBVIOUS
  <2> QED BY <1>2, <2>1, <2>2
<1>4. TopOf(s) = Below(ss, n)
  BY <1>2 DEF TopOf, Below
<1> QED BY <1>2, <1>3, <1>4 DEF WellStacked, s, y

LEMMA Push ==
  ASSUME NEW c, NEW ss, NEW ys, WellStacked(c, ss, ys),
         NEW s \in Status \ {0}, NEW y \in Held(c), Fits(TopOf(ss), s, y.key)
  PROVE  /\ WellStacked(c, Append(ss, s), Append(ys, y))
<1>1. /\ ss \in Seq(Status \ {0}) /\ ys \in Seq(Held(c)) /\ Len(ss) = Len(ys)
      /\ \A i \in 1 .. Len(ss) : Fits(IF i = 1 THEN 0 ELSE ss[i - 1], ss[i], ys[i].key)
  BY DEF WellStacked, Matched
<1> DEFINE ss1 == Append(ss, s)
           ys1 == Append(ys, y)
<1>2. /\ ss1 \in Seq(Status \ {0}) /\ ys1 \in Seq(Held(c))
      /\ Len(ss1) = Len(ss) + 1 /\ Len(ys1) = Len(ss) + 1
      /\ \A i \in 1 .. Len(ss) : ss1[i] = ss[i] /\ ys1[i] = ys[i]
      /\ ss1[Len(ss) + 1] = s /\ ys1[Len(ss) + 1] = y
  BY <1>1
<1>3. TopOf(ss) = IF Len(ss) + 1 = 1 THEN 0 ELSE ss1[Len(ss)]
  BY <1>1, <1>2 DEF TopOf
<1> HIDE DEF ss1, ys1
<1>4. Matched(ss1, ys1)
  <2> SUFFICES ASSUME NEW i \in 1 .. Len(ss) + 1
               PROVE  Fits(IF i = 1 THEN 0 ELSE ss1[i - 1], ss1[i], ys1[i].key)
    BY <1>1, <1>2 DEF Matched
  <2>1. CASE i = Len(ss) + 1
    BY <2>1, <1>1, <1>2, <1>3
  <2>2. CASE i \in 1 .. Len(ss)
    BY <2>2, <1>1, <1>2
  <2> QED BY <2>1, <2>2, <1>1
<1> QED BY <1>2, <1>4 DEF WellStacked, ss1, ys1

\* Only the first n entries are kept, and one is pushed on them.
LEMMA CutPush ==
  ASSUME NEW c, NEW ss, NEW ys, WellStacked(c, ss, ys), NEW n \in 0 .. Len(ss),
         NEW s \in Status \ {0}, NEW y \in Held(c), Fits(Below(ss, n), s, y.key)
  PROVE  WellStacked(c, Append(SubSeq(ss, 1, n), s), Append(SubSeq(ys, 1, n), y))
  BY Cut, Push

LEMMA CutLast ==
  ASSUME NEW S, NEW s \in Seq(S), NEW n \in 1 .. Len(s)
  PROVE  Append(SubSeq(s, 1, n - 1), s[n]) = SubSeq(s, 1, n)
<1>1. /\ Append(SubSeq(s, 1, n - 1), s[n]) \in Seq(S) /\ SubSeq(s, 1, n) \in Seq(S)
      /\ Len(Append(SubSeq(s, 1, n - 1), s[n])) = n /\ Len(SubSeq(s, 1, n)) = n
      /\ \A i \in 1 .. n : Append(SubSeq(s, 1, n - 1), s[n])[i] = SubSeq(s, 1, n)[i]
  OBVIOUS
<1> QED BY <1>1, SeqEqual

\* The status of the top entry is replaced.
LEMMA Retop ==
  ASSUME NEW c, NEW ss, NEW ys, WellStacked(c, ss, ys), ss # <<>>,
         NEW s \in Status \ {0}, Fits(Below(ss, Len(ss) - 1), s, ys[Len(ys)].key)
  PROVE  WellStacked(c, Append(SubSeq(ss, 1, Len(ss) - 1), s), ys)
<1>1. /\ ss \in Seq(Status \ {0}) /\ ys \in Seq(Held(c)) /\ Len(ss) = Len(ys)
  BY DEF WellStacked, Matched
<1>2. Len(ss) \in Nat /\ Len(ss) - 1 \in 0 .. Len(ss) /\ Len(ys) \in 1 .. Len(ys)
  BY <1>1
<1>3. ys = Append(SubSeq(ys, 1, Len(ys) - 1), ys[Len(ys)])
  <2> DEFINE zs == Append(SubSeq(ys, 1, Len(ys) - 1), ys[Len(ys)])
  <2>1. /\ zs \in Seq(Held(c)) /\ Len(zs) = Len(ys)
        /\ \A i \in 1 .. Len(ys) : zs[i] = ys[i]
    BY <1>1, <1>2
  <2> QED BY <1>1, <2>1, SeqEqual
<1>4. ys[Len(ys)] \in Held(c)
  BY <1>1, <1>2
<1> QED BY <1>1, <1>2, <1>3, <1>4, CutPush

\* An entry of the stacks.
LEMMA Entry ==
  ASSUME NEW c, NEW ss, NEW ys, WellStacked(c, ss, ys), NEW i \in 1 .. Len(ss)
  PROVE  /\ Len(ss) \in Nat /\ Len(ys) = Len(ss)
         /\ ss[i] \in Status \ {0} /\ ys[i] \in Held(c)
         /\ Below(ss, i) = ss[i] /\ i - 1 \in 0 .. Len(ss)
         /\ Fits(Below(ss, i - 1), ss[i], ys[i].key)
<1>1. /\ ss \in Seq(Status \ {0}) /\ ys \in Seq(Held(c)) /\ Len(ss) = Len(ys)
      /\ Fits(IF i = 1 THEN 0 ELSE ss[i - 1], ss[i], ys[i].key)
  BY DEF WellStacked, Matched
<1>2. Below(ss, i - 1) = IF i = 1 THEN 0 ELSE ss[i - 1]
  BY DEF Below
<1>3. Below(ss, i) = ss[i]
  BY DEF Below
<1> QED BY <1>1, <1>2, <1>3

-----------------------------------------------------------------------------
(* What a step starts from. *)

\* The conditions on the symbol stack were allocated.
CondsExist ==
  \A i \in DOMAIN symbol_stack :
    symbol_stack[i].key = "cond" => symbol_stack[i].cond \in DOMAIN conds

IInv ==
  /\ TypeOfStacks
  /\ TypeOfCode
  /\ StacksMatch
  /\ CondsExist

LEMMA TokenIsSymbol ==
  ASSUME NEW t \in Token
  PROVE  t.key \in Key /\ t.name \in Name \cup {""} /\ Lexeme(t) \in Held(Len(conds)) /\ Lexeme(t).key = t.key
<1>1. t.key \in Key /\ t.name \in Name \cup {""}
  BY TokenAssumption DEF Token, Key
<1>2. "cond" \notin Key
  BY DEF Key, Keyword, Punchation, AssignOp
<1> QED BY <1>1, <1>2 DEF Lexeme, Symbol, Held

\* A finished "if" stands on a body, so that the status in which a token is
\* dispatched is that of a body whenever one was dropped.
LEMMA Dispatch ==
  ASSUME IInv, NEW t \in Token
  PROVE  /\ WellStacked(Len(conds), status_stack, symbol_stack)
         /\ WellStacked(Len(conds), Statuses(t), Symbols(t))
         /\ CurrentStatus(t) = TopOf(Statuses(t)) /\ CurrentStatus(t) \in Status
         /\ CurrentStatus(t) # 0 => /\ Len(Statuses(t)) \in 1 .. Len(Statuses(t))
                                    /\ Statuses(t)[Len(Statuses(t))] = CurrentStatus(t)
         /\ CurrentStatus(t) \notin {15, 19, 22, 24} =>
              Statuses(t) = status_stack /\ Symbols(t) = symbol_stack /\ Conds(t) = conds
<1>1. WellStacked(Len(conds), status_stack, symbol_stack)
  <2>1. symbol_stack \in Seq(Symbol)
    BY DEF IInv, TypeOfStacks
  <2>2. \A i \in 1 .. Len(symbol_stack) : symbol_stack[i] \in Held(Len(conds))
    BY <2>1 DEF IInv, TypeOfCode, CondsExist, Held
  <2>3. symbol_stack \in Seq(Held(Len(conds)))
    BY <2>1, <2>2
  <2> QED BY <2>3 DEF IInv, TypeOfStacks, StacksMatch, WellStacked
<1>2. status_stack \in Seq(Status \ {0})
  BY <1>1 DEF WellStacked
<1>3. CASE NoElse(t)
  <2> DEFINE n == Len(status_stack)
  <2>1. n \in 1 .. Len(status_stack) /\ status_stack[n] = 20
    BY <1>2, <1>3 DEF NoElse, Last
  <2>2. Len(symbol_stack) = n /\ n - 1 \in 0 .. n /\ Fits(Below(status_stack, n - 1), 20, symbol_stack[n].key)
    BY <1>1, <2>1, Entry
  <2>3. Below(status_stack, n - 1) \in {15, 19, 22, 24}
    BY <2>2 DEF Fits, StandsOn
  <2>4. n - 1 # 0
    BY <2>3 DEF Below
  <2>5. Statuses(t) = SubSeq(status_stack, 1, n - 1) /\ Symbols(t) = SubSeq(symbol_stack, 1, n - 1)
    BY <1>3, <2>2 DEF Statuses, Symbols, Front
  <2>6. /\ WellStacked(Len(conds), Statuses(t), Symbols(t)) /\ Len(Statuses(t)) = n - 1
        /\ TopOf(Statuses(t)) = Below(status_stack, n - 1)
    BY <1>1, <2>2, <2>5, Cut
  <2>7. Statuses(t) # <<>> /\ Statuses(t)[Len(Statuses(t))] = TopOf(Statuses(t))
    BY <2>3, <2>6 DEF TopOf
  <2>8. CurrentStatus(t) = TopOf(Statuses(t))
    BY <2>7 DEF CurrentStatus, Last
  <2> QED BY <1>1, <2>1, <2>3, <2>4, <2>6, <2>7, <2>8 DEF Status
<1>4. CASE ~NoElse(t)
  <2>1. Statuses(t) = status_stack /\ Symbols(t) = symbol_stack /\ Conds(t) = conds
    BY <1>4 DEF Statuses, Symbols, Conds
  <2>2. CurrentStatus(t) = TopOf(Statuses(t))
    BY <2>1 DEF CurrentStatus, Last, TopOf
  <2>3. CASE status_stack = <<>>
    BY <1>1, <2>1, <2>2, <2>3 DEF TopOf, Status
  <2>4. CASE status_stack # <<>>
    BY <1>1, <1>2, <2>1, <2>2, <2>4 DEF TopOf
  <2> QED BY <2>3, <2>4
<1> QED BY <1>3, <1>4

-----------------------------------------------------------------------------
(* Every step leaves the stacks matched. *)

\* What some statuses stand on and beside.
LEMMA Standing ==
  ASSUME NEW b, NEW s, NEW k, Fits(b, s, k)
  PROVE  /\ s \in {3, 4} => b \in {0, 15} /\ k = "let"
         /\ s = 8 => b = 0 /\ k = "fn"
         /\ s \in {9, 10} => b = 8
         /\ s = 12 => b = 11
         /\ s \in {15, 18, 25} => b = 14
         /\ s \in {18, 25} => k = "->"
         /\ s = 22 => b = 21
         /\ s \in {17, 19, 20, 21, 23, 24} => b \in {15, 19, 22, 24} /\ k = "cond"
<1>1. StandsOn(s, b) /\ StandsBeside(s, k)
  BY DEF Fits
<1> QED BY <1>1 DEF StandsOn, StandsBeside

\* An action that ends the parser leaves the stacks alone.
LEMMA EndStacks ==
  ASSUME WellStacked(Len(conds), status_stack, symbol_stack), NEW o, End(o)
  PROVE  WellStacked(Len(conds), status_stack', symbol_stack')
  BY DEF End, stacks

\* A handler that is called outside bodies finds its status on top.
LEMMA OnTop ==
  ASSUME IInv, NEW t \in Token, NEW s \in Status \ {0, 15, 19, 22, 24},
         CurrentStatus(t) = s, NEW n, n = Len(status_stack)
  PROVE  /\ n \in 1 .. n /\ Len(symbol_stack) = n /\ status_stack[n] = s
         /\ n - 1 \in 0 .. n /\ symbol_stack[n] \in Held(Len(conds))
         /\ Fits(Below(status_stack, n - 1), s, symbol_stack[n].key)
<1>1. WellStacked(Len(conds), status_stack, symbol_stack) /\ n \in 1 .. n /\ status_stack[n] = s
  BY Dispatch
<1> QED BY <1>1, Entry

LEMMA HeaderStacks ==
  ASSUME IInv, NEW t \in Token, Header(t)
  PROVE  WellStacked(Len(conds), status_stack', symbol_stack')
<1> DEFINE n == Len(status_stack)
<1>1. /\ WellStacked(Len(conds), status_stack, symbol_stack) /\ CurrentStatus(t) \in Status
      /\ t.key \in Key /\ Lexeme(t) \in Held(Len(conds)) /\ Lexeme(t).key = t.key
  BY Dispatch, TokenIsSymbol
<1>2. ASSUME get_function_name(t) PROVE WellStacked(Len(conds), status_stack', symbol_stack')
  <2>1. CurrentStatus(t) = 9 /\ t.key = "("
    BY <1>1, <1>2, Registered, SMTT(30) DEF get_function_name, On, NoEntry
  <2>2. n - 1 \in 0 .. n /\ n = Len(symbol_stack) /\ Below(status_stack, n - 1) = 8
    BY <2>1, OnTop, Standing DEF Status
  <2>3. Fits(8, 10, "(")
    BY DEF Fits, StandsBeside, StandsOn
  <2>4. /\ status_stack' = Append(SubSeq(status_stack, 1, n - 1), 10)
        /\ symbol_stack' = Append(SubSeq(symbol_stack, 1, n - 1), Lexeme(t))
    BY <1>2, <2>2 DEF get_function_name, Pop
  <2>5. WellStacked(Len(conds), Append(SubSeq(status_stack, 1, n - 1), 10),
                    Append(SubSeq(symbol_stack, 1, n - 1), Lexeme(t)))
    BY <1>1, <2>1, <2>2, <2>3, CutPush DEF Status
  <2> QED BY <2>4, <2>5
<1>3. ASSUME get_argument(t) PROVE WellStacked(Len(conds), status_stack', symbol_stack')
  <2>1. CurrentStatus(t) = 12
    BY <1>1, <1>3, Registered DEF get_argument, On, NoEntry
  <2>2. n - 1 \in 0 .. n /\ n = Len(symbol_stack) /\ Below(status_stack, n - 1) = 11
    BY <2>1, OnTop, Standing DEF Status
  <2>3. n - 2 \in 0 .. n
    BY <2>2 DEF Below
  <2>4. CASE Lookup(t.name) = Root
    BY <1>1, <1>3, <2>4, EndStacks DEF get_argument
  <2>5. CASE Lookup(t.name) # Root
    <3>1. /\ status_stack' = SubSeq(status_stack, 1, n - 2)
          /\ symbol_stack' = SubSeq(symbol_stack, 1, n - 2)
      BY <1>3, <2>2, <2>5 DEF get_argument, Pop
    <3> QED BY <1>1, <2>3, <3>1, Cut
  <2> QED BY <2>4, <2>5
<1>4. ASSUME wait_function_return_type(t) PROVE WellStacked(Len(conds), status_stack', symbol_stack')
  <2>1. CurrentStatus(t) = 10
    BY <1>1, <1>4, Registered DEF wait_function_return_type, On, NoEntry
  <2>2. n - 1 \in 0 .. n /\ n = Len(symbol_stack) /\ Below(status_stack, n - 1) = 8
    BY <2>1, OnTop, Standing DEF Status
  <2>3. n - 1 \in 1 .. n /\ status_stack[n - 1] = 8 /\ n - 2 \in 0 .. n
    BY <2>2 DEF Below
  <2>4. /\ symbol_stack[n - 1] \in Held(Len(conds))
        /\ Fits(Below(status_stack, n - 2), 8, symbol_stack[n - 1].key)
    <3>1. n - 1 - 1 = n - 2
      BY <2>2
    <3> QED BY <1>1, <2>3, <3>1, Entry
  <2>5. Below(status_stack, n - 2) = 0 /\ symbol_stack[n - 1].key = "fn"
    BY <2>4 DEF Fits, StandsBeside, StandsOn
  <2>6. Fits(0, 14, "fn")
    BY DEF Fits, StandsBeside, StandsOn
  <2>7. WellStacked(Len(conds), Append(SubSeq(status_stack, 1, n - 2), 14),
                    Append(SubSeq(symbol_stack, 1, n - 2), symbol_stack[n - 1]))
    BY <1>1, <2>3, <2>4, <2>6, <2>5, CutPush DEF Status
  <2>8. Append(SubSeq(symbol_stack, 1, n - 2), symbol_stack[n - 1]) = SubSeq(symbol_stack, 1, n - 1)
    BY <1>1, <2>2, <2>3, CutLast DEF WellStacked
  <2> QED BY <1>4, <2>2, <2>7, <2>8 DEF wait_function_return_type, Pop
<1>5. ASSUME get_function_return_type(t) PROVE WellStacked(Len(conds), status_stack', symbol_stack')
  <2>1. CurrentStatus(t) = 18
    BY <1>1, <1>5, Registered DEF get_function_return_type, On, NoEntry
  <2>2. /\ n \in 1 .. n /\ n = Len(symbol_stack) /\ Below(status_stack, n - 1) = 14
        /\ symbol_stack[n].key = "->"
    BY <2>1, OnTop, Standing DEF Status
  <2>3. Fits(14, 25, "->")
    BY DEF Fits, StandsBeside, StandsOn
  <2>4. WellStacked(Len(conds), Append(SubSeq(status_stack, 1, n - 1), 25), symbol_stack)
    BY <1>1, <2>2, <2>3, Retop DEF Status
  <2>5. CASE Lookup(t.name) = Root
    BY <1>1, <1>5, <2>5, EndStacks DEF get_function_return_type
  <2>6. CASE Lookup(t.name) # Root
    BY <1>5, <2>4, <2>6 DEF get_function_return_type, Pop
  <2> QED BY <2>5, <2>6
<1>6. ASSUME function_declear(t) PROVE WellStacked(Len(conds), status_stack', symbol_stack')
  BY <1>1, <1>6, EndStacks DEF function_declear
<1> QED BY <1>2, <1>3, <1>4, <1>5, <1>6 DEF Header

LEMMA BodyStacks ==
  ASSUME IInv, NEW t \in Token, Body(t)
  PROVE  WellStacked(Len(conds), status_stack', symbol_stack')
<1> DEFINE n == Len(status_stack)
<1>1. /\ WellStacked(Len(conds), status_stack, symbol_stack) /\ CurrentStatus(t) \in Status
      /\ t.key \in Key /\ Lexeme(t) \in Held(Len(conds)) /\ Lexeme(t).key = t.key
  BY Dispatch, TokenIsSymbol
<1>2. Fits(14, 15, "LBRACES")
  BY DEF Fits, StandsBeside, StandsOn
<1>3. ASSUME function_body_define_strart(t) PROVE WellStacked(Len(conds), status_stack', symbol_stack')
  <2>1. CurrentStatus(t) = 14 /\ t.key = "LBRACES"
    BY <1>1, <1>3, Registered DEF function_body_define_strart, On, NoEntry
  <2>2. TopOf(status_stack) = 14
    BY <2>1, Dispatch
  <2>3. CASE ~ArgumentsTyped
    BY <1>1, <1>3, <2>3, EndStacks DEF function_body_define_strart
  <2>4. CASE ArgumentsTyped
    <3>1. /\ status_stack' = Append(status_stack, 15)
          /\ symbol_stack' = Append(symbol_stack, Lexeme(t))
      BY <1>3, <2>4 DEF function_body_define_strart, StartBody
    <3> QED BY <1>1, <1>2, <2>1, <2>2, <3>1, Push DEF Status
  <2> QED BY <2>3, <2>4
<1>4. ASSUME has_return_type_function_define(t) PROVE WellStacked(Len(conds), status_stack', symbol_stack')
  <2>1. CurrentStatus(t) = 25 /\ t.key = "LBRACES"
    BY <1>1, <1>4, Registered DEF has_return_type_function_define, On, NoEntry
  <2>2. n - 1 \in 0 .. n /\ n = Len(symbol_stack) /\ Below(status_stack, n - 1) = 14
    BY <2>1, OnTop, Standing DEF Status
  <2>3. CASE ~ArgumentsTyped \/ func_param.return_type = "null"
    BY <1>1, <1>4, <2>3, EndStacks DEF has_return_type_function_define
  <2>4. CASE ~(~ArgumentsTyped \/ func_param.return_type = "null")
    <3>1. /\ status_stack' = Append(SubSeq(status_stack, 1, n - 1), 15)
          /\ symbol_stack' = Append(SubSeq(symbol_stack, 1, n - 1), Lexeme(t))
      BY <1>4, <2>2, <2>4 DEF has_return_type_function_define, StartBody, Pop
    <3>2. Fits(Below(status_stack, n - 1), 15, Lexeme(t).key)
      BY <1>1, <1>2, <2>1, <2>2
    <3>3. WellStacked(Len(conds), Append(SubSeq(status_stack, 1, n - 1), 15),
                                  Append(SubSeq(symbol_stack, 1, n - 1), Lexeme(t)))
      BY <1>1, <2>2, <3>2, CutPush DEF Status
    <3> QED BY <3>1, <3>3
  <2> QED BY <2>3, <2>4
<1>5. ASSUME function_body_define_finished(t) PROVE WellStacked(Len(conds), status_stack', symbol_stack')
  <2>1. CurrentStatus(t) = 15
    BY <1>1, <1>5, Registered DEF function_body_define_finished, On, NoEntry
  <2> DEFINE N == Len(Statuses(t))
  <2>2. WellStacked(Len(conds), Statuses(t), Symbols(t)) /\ N \in 1 .. N /\ Statuses(t)[N] = 15
    BY <2>1, Dispatch
  <2>3. N = Len(Symbols(t)) /\ Below(Statuses(t), N - 1) = 14
    <3>1. N = Len(Symbols(t)) /\ Fits(Below(Statuses(t), N - 1), 15, Symbols(t)[N].key)
      BY <2>2, Entry
    <3> QED BY <3>1 DEF Fits, StandsOn
  <2>4. N - 2 \in 0 .. N
    BY <2>2, <2>3 DEF Below
  <2>5. /\ status_stack' = SubSeq(Statuses(t), 1, N - 2)
        /\ symbol_stack' = SubSeq(Symbols(t), 1, N - 2)
    BY <1>5, <2>3 DEF function_body_define_finished, Pop
  <2> QED BY <2>2, <2>4, <2>5, Cut
<1> QED BY <1>3, <1>4, <1>5 DEF Body

LEMMA VariableStacks ==
  ASSUME IInv, NEW t \in Token, Variable(t)
  PROVE  WellStacked(Len(conds), status_stack', symbol_stack')
<1> DEFINE n == Len(status_stack)
           Known == Append(current_node, Id(t.name)) \in DOMAIN scopes
<1>1. WellStacked(Len(conds), status_stack, symbol_stack) /\ CurrentStatus(t) \in Status /\ t.key \in Key
  BY Dispatch, TokenIsSymbol
<1>2. ASSUME define_pointer(t) PROVE WellStacked(Len(conds), status_stack', symbol_stack')
  BY <1>1, <1>2 DEF define_pointer, stacks
<1>3. ASSUME define_variable(t) PROVE WellStacked(Len(conds), status_stack', symbol_stack')
  <2>1. CurrentStatus(t) = 3
    BY <1>1, <1>3, Registered DEF define_variable, On, NoEntry
  <2>2. /\ n \in 1 .. n /\ n = Len(symbol_stack) /\ Below(status_stack, n - 1) \in {0, 15}
        /\ symbol_stack[n].key = "let"
    <3>1. /\ n \in 1 .. n /\ n = Len(symbol_stack)
          /\ Fits(Below(status_stack, n - 1), 3, symbol_stack[n].key)
      BY <2>1, OnTop DEF Status
    <3> QED BY <3>1 DEF Fits, StandsOn, StandsBeside
  <2>3. Fits(0, 4, "let") /\ Fits(15, 4, "let")
    BY DEF Fits, StandsBeside, StandsOn
  <2>4. WellStacked(Len(conds), Append(SubSeq(status_stack, 1, n - 1), 4), symbol_stack)
    BY <1>1, <2>2, <2>3, Retop DEF Status
  <2>5. CASE Known
    BY <1>1, <1>3, <2>5, EndStacks DEF define_variable
  <2>6. CASE ~Known
    BY <1>3, <2>4, <2>6 DEF define_variable, Pop
  <2> QED BY <2>5, <2>6
<1>4. ASSUME define_again(t) PROVE WellStacked(Len(conds), status_stack', symbol_stack')
  <2>1. CurrentStatus(t) = 5
    BY <1>1, <1>4, Registered DEF define_again, On, NoEntry
  <2>2. n - 1 \in 0 .. n /\ n = Len(symbol_stack)
    BY <2>1, OnTop DEF Status
  <2>3. CASE Known
    BY <1>1, <1>4, <2>3, EndStacks DEF define_again
  <2>4. CASE ~Known
    <3>1. /\ status_stack' = SubSeq(status_stack, 1, n - 1)
          /\ symbol_stack' = SubSeq(symbol_stack, 1, n - 1)
      BY <1>4, <2>2, <2>4 DEF define_again, Pop
    <3> QED BY <1>1, <2>2, <3>1, Cut
  <2> QED BY <2>3, <2>4
<1>5. ASSUME define_finished(t) PROVE WellStacked(Len(conds), status_stack', symbol_stack')
  <2>1. CurrentStatus(t) = 4
    BY <1>1, <1>5, Registered DEF define_finished, On, NoEntry
  <2>2. n - 1 \in 0 .. n /\ n = Len(symbol_stack)
    BY <2>1, OnTop DEF Status
  <2> QED BY <1>1, <1>5, <2>2, Cut DEF define_finished, Pop
<1> QED BY <1>2, <1>3, <1>4, <1>5 DEF Variable

\* A symbol that was pushed earlier is still one when more conditions exist.
LEMMA Widen ==
  ASSUME NEW c \in Nat, NEW d \in Nat, c <= d, NEW ss, NEW ys, WellStacked(c, ss, ys)
  PROVE  WellStacked(d, ss, ys)
<1>1. Held(c) \subseteq Held(d)
  <2>1. 1 .. c \subseteq 1 .. d
    OBVIOUS
  <2> QED BY <2>1 DEF Held
<1> QED BY <1>1 DEF WellStacked

\* The two handlers that allocate a condition push it at once.
LEMMA StartingStacks ==
  ASSUME IInv, NEW t \in Token, start_while_condition(t) \/ start_if_condition(t)
  PROVE  WellStacked(Len(conds) + 1, status_stack', symbol_stack')
<1> DEFINE y == CondSymbol(Len(conds) + 1)
<1>1. Len(conds) \in Nat
  BY DEF IInv, TypeOfCode
<1>2. CurrentStatus(t) \in Status /\ t.key \in Key /\ CurrentStatus(t) = TopOf(Statuses(t))
  BY Dispatch, TokenIsSymbol
<1>3. WellStacked(Len(conds) + 1, Statuses(t), Symbols(t))
  <2>1. WellStacked(Len(conds), Statuses(t), Symbols(t))
    BY Dispatch
  <2>2. Len(conds) + 1 \in Nat /\ Len(conds) <= Len(conds) + 1
    BY <1>1
  <2> QED BY <1>1, <2>1, <2>2, Widen, Zenon
<1>4. y \in Held(Len(conds) + 1) /\ y.key = "cond"
  <2>1. Len(conds) + 1 \in Nat /\ Len(conds) + 1 \in 1 .. Len(conds) + 1
    BY <1>1
  <2> QED BY <2>1 DEF CondSymbol, Symbol, Held
<1>5. \A s \in {15, 19, 22, 24} : Fits(s, 17, "cond") /\ Fits(s, 23, "cond")
  BY DEF Fits, StandsBeside, StandsOn
<1>6. CurrentStatus(t) \in {15, 19, 22, 24}
  BY <1>2, Registered DEF start_while_condition, start_if_condition, On, NoEntry
<1>7. /\ symbol_stack' = Append(Symbols(t), y)
      /\ status_stack' \in {Append(Statuses(t), 17), Append(Statuses(t), 23)}
  BY DEF start_while_condition, start_if_condition
<1>8. /\ WellStacked(Len(conds) + 1, Append(Statuses(t), 17), Append(Symbols(t), y))
      /\ WellStacked(Len(conds) + 1, Append(Statuses(t), 23), Append(Symbols(t), y))
  BY <1>2, <1>3, <1>4, <1>5, <1>6, Push DEF Status
<1> QED BY <1>7, <1>8

LEMMA BranchingStacks ==
  ASSUME IInv, NEW t \in Token,
         end_while_body(t) \/ end_if_body1(t) \/ check_if_body2(t) \/ end_if_body2(t)
  PROVE  WellStacked(Len(conds), status_stack', symbol_stack')
<1> DEFINE n == Len(status_stack)
           N == Len(Statuses(t))
<1>1. /\ WellStacked(Len(conds), status_stack, symbol_stack) /\ CurrentStatus(t) \in Status /\ t.key \in Key
      /\ WellStacked(Len(conds), Statuses(t), Symbols(t)) /\ CurrentStatus(t) = TopOf(Statuses(t))
  BY Dispatch, TokenIsSymbol
<1>2. \A s \in {15, 19, 22, 24} : Fits(s, 20, "cond") /\ Fits(s, 21, "cond")
  BY DEF Fits, StandsBeside, StandsOn
<1>3. ASSUME end_while_body(t) PROVE WellStacked(Len(conds), status_stack', symbol_stack')
  <2>1. CurrentStatus(t) = 24
    BY <1>1, <1>3, Registered DEF end_while_body, On, NoEntry
  <2>2. N \in 1 .. N
    BY <2>1, Dispatch
  <2>3. N = Len(Symbols(t)) /\ N - 1 \in 0 .. N
    BY <1>1, <2>2, Entry
  <2> QED BY <1>1, <1>3, <2>3, Cut DEF end_while_body, Pop
<1>4. ASSUME end_if_body1(t) PROVE WellStacked(Len(conds), status_stack', symbol_stack')
  <2>1. CurrentStatus(t) = 19
    BY <1>1, <1>4, Registered DEF end_if_body1, On, NoEntry
  <2>2. N \in 1 .. N /\ Statuses(t)[N] = 19
    BY <2>1, Dispatch
  <2>3. /\ N = Len(Symbols(t)) /\ Below(Statuses(t), N - 1) \in {15, 19, 22, 24}
        /\ Symbols(t)[N].key = "cond"
    BY <1>1, <2>2, Entry, Standing
  <2> QED BY <1>1, <1>2, <1>4, <2>2, <2>3, Retop DEF end_if_body1, Pop, Status
<1>5. ASSUME check_if_body2(t) PROVE WellStacked(Len(conds), status_stack', symbol_stack')
  <2>1. CurrentStatus(t) = 20
    BY <1>1, <1>5, Registered DEF check_if_body2, On, NoEntry
  <2>2. /\ n \in 1 .. n /\ n = Len(symbol_stack)
        /\ Below(status_stack, n - 1) \in {15, 19, 22, 24} /\ symbol_stack[n].key = "cond"
    BY <2>1, OnTop, Standing DEF Status
  <2> QED BY <1>1, <1>2, <1>5, <2>2, Retop DEF check_if_body2, Pop, Status
<1>6. ASSUME end_if_body2(t) PROVE WellStacked(Len(conds), status_stack', symbol_stack')
  <2>1. CurrentStatus(t) = 22
    BY <1>1, <1>6, Registered DEF end_if_body2, On, NoEntry
  <2>2. N \in 1 .. N /\ Statuses(t)[N] = 22
    BY <2>1, Dispatch
  <2>3. N = Len(Symbols(t)) /\ Below(Statuses(t), N - 1) = 21
    <3>1. N = Len(Symbols(t)) /\ Fits(Below(Statuses(t), N - 1), 22, Symbols(t)[N].key)
      BY <1>1, <2>2, Entry
    <3> QED BY <3>1 DEF Fits, StandsOn
  <2>4. N - 2 \in 0 .. N
    BY <2>2, <2>3 DEF Below
  <2>5. CASE ~scopes[current_node].has_return
    BY <1>1, <1>6, <2>5, EndStacks DEF end_if_body2
  <2>6. CASE scopes[current_node].has_return
    <3>1. /\ status_stack' = SubSeq(Statuses(t), 1, N - 2)
          /\ symbol_stack' = SubSeq(Symbols(t), 1, N - 2)
      BY <1>6, <2>3, <2>6 DEF end_if_body2, Pop
    <3> QED BY <1>1, <2>4, <3>1, Cut
  <2> QED BY <2>5, <2>6
<1> QED BY <1>3, <1>4, <1>5, <1>6

\* Nothing stands on these statuses.
LEMMA Tops ==
  ASSUME NEW b, NEW s, NEW k, Fits(b, s, k)
  PROVE  /\ b \notin {1, 5, 12, 18, 25}
         /\ b = 10 => s = 11
         /\ b = 11 => s = 12
<1>1. StandsOn(s, b)
  BY DEF Fits
<1> QED BY <1>1 DEF StandsOn, Opening

\* The entries an operator or a bracket with something above it can have: it is
\* part of an expression, or the "(" behind the name of a function.
LEMMA Carries ==
  ASSUME NEW c, NEW ss, NEW ys, WellStacked(c, ss, ys), NEW i \in 1 .. Len(ss) - 1,
         ys[i].key \in Punchation, ys[i].key # "LBRACES"
  PROVE  ss[i] \in {2, 7} \/ (i = 2 /\ ss[i] = 10 /\ ss[i + 1] = 11)
<1>1. /\ i \in 1 .. Len(ss) /\ i + 1 \in 1 .. Len(ss) /\ i + 1 - 1 = i
      /\ Len(ss) \in Nat
  BY DEF WellStacked
<1>2. Fits(Below(ss, i - 1), ss[i], ys[i].key) /\ Below(ss, i) = ss[i]
  BY <1>1, Entry
<1>3. Fits(ss[i], ss[i + 1], ys[i + 1].key)
  BY <1>1, <1>2, Entry
<1>4. ss[i] \in {1, 2, 5, 7, 10, 12, 18, 25}
  BY <1>2, Keys DEF Fits, StandsBeside
<1>5. ss[i] \notin {1, 5, 12, 18, 25}
  BY <1>3, Tops
<1>6. ASSUME ss[i] = 10 PROVE i = 2 /\ ss[i + 1] = 11
  <2>1. ss[i + 1] = 11
    BY <1>3, <1>6, Tops
  <2>2. Below(ss, i - 1) = 8
    BY <1>2, <1>6 DEF Fits, StandsOn
  <2>3. i - 1 \in 1 .. Len(ss) /\ ss[i - 1] = 8
    BY <1>1, <2>2 DEF Below
  <2>4. Fits(Below(ss, i - 1 - 1), 8, ys[i - 1].key)
    BY <2>3, Entry
  <2>5. Below(ss, i - 1 - 1) = 0
    BY <2>4 DEF Fits, StandsOn
  <2>6. i - 1 # 1 => i - 1 - 1 \in 1 .. Len(ss) /\ ss[i - 1 - 1] = 0
    BY <2>3, <2>5 DEF Below
  <2>7. i - 1 - 1 \in 1 .. Len(ss) => ss[i - 1 - 1] # 0
    BY Entry
  <2> QED BY <1>1, <2>1, <2>6, <2>7
<1> QED BY <1>4, <1>5, <1>6

\* Below an operator that has been pushed is a part of the same expression.
LEMMA OnExpression ==
  ASSUME NEW b, NEW s \in {2, 7}, NEW k \in Punchation, Fits(b, s, k)
  PROVE  b \in {2, 7}
  BY DEF Fits, StandsOn

\* A value can be put where an operand or an operator of an expression was.
LEMMA ValueFits ==
  ASSUME NEW b, NEW s \in {2, 7}, NEW k, Fits(b, s, k)
  PROVE  Fits(b, 2, "value")
  BY Keys DEF Fits, StandsOn, StandsBeside, OperandKey

LEMMA ValueIsSymbol == Value.key = "value" /\ \A c : Value \in Held(c)
  BY DEF Value, Symbol, Held

\* The "(" in front of the operand on top was pushed by enter_parentheses.
LEMMA OpenParenthesis ==
  ASSUME NEW c, NEW ss, NEW ys, WellStacked(c, ss, ys), ss[Len(ss)] = 2,
         NEW q \in 1 .. Len(ss), ys[q].key = "("
  PROVE  q < Len(ss) /\ ss[q] = 7 /\ Below(ss, q - 1) \in {2, 7}
<1> DEFINE n == Len(ss)
<1>1. /\ n \in Nat /\ n \in 1 .. n /\ \A i \in 1 .. n : ss[i] \in Status \ {0}
  BY DEF WellStacked
<1>2. Fits(Below(ss, q - 1), ss[q], "(")
  BY Entry
<1>3. q # n
  BY <1>2, Keys DEF Fits
<1>4. q \in 1 .. n - 1
  BY <1>1, <1>3
<1>5. \/ ss[q] \in {2, 7}
      \/ q = 2 /\ ss[q] = 10 /\ ss[q + 1] = 11
  BY <1>4, Carries, Keys
<1>6. ss[q] # 10
  <2> SUFFICES ASSUME q = 2, ss[3] = 11 PROVE FALSE
    BY <1>4, <1>5
  <2>1. n # 3 /\ 4 \in 1 .. n /\ 4 - 1 = 3 /\ 3 \in 1 .. n
    BY <1>1, <1>4
  <2>2. Fits(ss[3], ss[4], ys[4].key)
    BY <2>1, Entry
  <2>3. ss[4] = 12
    BY <2>2, Tops
  <2>4. n # 4 /\ 5 \in 1 .. n /\ 5 - 1 = 4
    BY <1>1, <2>1, <2>3
  <2>5. Fits(ss[4], ss[5], ys[5].key)
    BY <2>1, <2>4, Entry
  <2> QED BY <2>3, <2>5, Tops
<1>7. ss[q] = 7
  BY <1>2, <1>5, <1>6, Keys DEF Fits
<1>8. Fits(Below(ss, q - 1), 7, "(") /\ "(" \in Punchation
  BY <1>2, <1>7, Keys
<1>9. Below(ss, q - 1) \in {2, 7}
  BY <1>8, OnExpression
<1> QED BY <1>1, <1>4, <1>7, <1>9

LEMMA ExpressionTop ==
  ASSUME IInv, NEW t \in Token, CurrentStatus(t) \in {2, 7}
  PROVE  /\ WellStacked(Len(conds), status_stack, symbol_stack)
         /\ Len(status_stack) \in 1 .. Len(status_stack)
         /\ Len(symbol_stack) = Len(status_stack)
         /\ status_stack[Len(status_stack)] = CurrentStatus(t)
         /\ TopOf(status_stack) = CurrentStatus(t)
<1>1. /\ WellStacked(Len(conds), status_stack, symbol_stack)
      /\ Len(status_stack) \in 1 .. Len(status_stack)
      /\ status_stack[Len(status_stack)] = CurrentStatus(t)
      /\ TopOf(status_stack) = CurrentStatus(t)
  BY Dispatch
<1> QED BY <1>1, Entry

\* What a solving step leaves: the suffix from m on becomes one value.
LEMMA ReducedStacks ==
  ASSUME NEW c, NEW ss, NEW ys, WellStacked(c, ss, ys), ss[Len(ss)] = 2,
         NEW m \in 2 .. Len(ss), NEW last, Reaches(ys, last, m)
  PROVE  /\ WellStacked(c, Reduced(ss, m, 2), Reduced(ys, m, Value))
         /\ TopOf(Reduced(ss, m, 2)) = 2
<1>1. /\ ss \in Seq(Status \ {0}) /\ ys \in Seq(Held(c)) /\ Len(ss) = Len(ys)
      /\ Len(ss) \in Nat
  BY DEF WellStacked, Matched
<1>2. CASE m = Len(ss)
  <2>1. Reduced(ss, m, 2) = ss /\ Reduced(ys, m, Value) = ys
    BY <1>1, <1>2 DEF Reduced
  <2> QED BY <1>1, <1>2, <2>1 DEF TopOf
<1>3. CASE m # Len(ss)
  <2>1. m \in 1 .. Len(ss) /\ m + 1 \in 1 .. Len(ss) - 1 /\ m + 1 \in 1 .. Len(ss)
        /\ m + 1 - 1 = m /\ m - 1 \in 0 .. Len(ss)
    BY <1>1, <1>3 DEF Reaches, Alternates
  <2>2. ys[m + 1].key \in Punchation /\ ys[m + 1].key \in Prioritised
    <3>1. m + 1 \in OperatorsFrom(ys, m)
      BY <1>1, <2>1 DEF OperatorsFrom
    <3> QED BY <3>1 DEF Reaches, Alternates, Accepts
  <2>3. ss[m + 1] \in {2, 7}
    <3>1. "LBRACES" \notin Prioritised
      BY DEF Prioritised, PriorityRows, AssignOp
    <3> QED BY <1>1, <2>1, <2>2, <3>1, Carries
  <2>4. Fits(ss[m], ss[m + 1], ys[m + 1].key)
    BY <2>1, Entry
  <2>5. ss[m] \in {2, 7}
    BY <2>2, <2>3, <2>4, OnExpression
  <2>6. Fits(Below(ss, m - 1), ss[m], ys[m].key)
    BY <2>1, Entry
  <2>7. Fits(Below(ss, m - 1), 2, "value")
    BY <2>5, <2>6, ValueFits
  <2>8. WellStacked(c, Append(SubSeq(ss, 1, m - 1), 2), Append(SubSeq(ys, 1, m - 1), Value))
    BY <2>1, <2>7, CutPush, ValueIsSymbol DEF Status
  <2>9. /\ SubSeq(ss, 1, m - 1) \in Seq(Status) /\ SubSeq(ys, 1, m - 1) \in Seq(Held(c))
    BY <1>1, <2>1
  <2>10. /\ Reduced(ss, m, 2) = Append(SubSeq(ss, 1, m - 1), 2)
         /\ Reduced(ys, m, Value) = Append(SubSeq(ys, 1, m - 1), Value)
    BY <1>1, <1>3, <2>9, AppendIsConcat, ValueIsSymbol DEF Reduced, Status
  <2>11. TopOf(Append(SubSeq(ss, 1, m - 1), 2)) = 2
    BY <2>9 DEF TopOf
  <2> QED BY <2>8, <2>10, <2>11
<1> QED BY <1>2, <1>3

LEMMA OperatorStacks ==
  ASSUME IInv, NEW t \in Token,
         enter_parentheses(t) \/ push_operator(t) \/ solve_then_push_operator(t)
  PROVE  WellStacked(Len(conds), status_stack', symbol_stack')
<1>1. /\ CurrentStatus(t) \in Status /\ t.key \in Key
      /\ Lexeme(t) \in Held(Len(conds)) /\ Lexeme(t).key = t.key
      /\ WellStacked(Len(conds), status_stack, symbol_stack)
  BY Dispatch, TokenIsSymbol
<1>2. \A s \in {2, 7} : Fits(s, 7, "(")
  BY Keys DEF Fits, StandsBeside, StandsOn
<1>3. ASSUME enter_parentheses(t) PROVE WellStacked(Len(conds), status_stack', symbol_stack')
  <2>1. CurrentStatus(t) \in {2, 7} /\ t.key = "("
    BY <1>1, <1>3, Registered DEF enter_parentheses, On, NoEntry
  <2>2. TopOf(status_stack) \in {2, 7}
    BY <2>1, ExpressionTop
  <2> QED BY <1>1, <1>2, <1>3, <2>1, <2>2, Push DEF enter_parentheses, Status
<1>4. ASSUME OnOperator(t)
      PROVE  t.key \in Punchation /\ CurrentStatus(t) = 2 /\ Fits(2, 7, t.key)
  <2>1. t.key \in Punchation /\ CurrentStatus(t) = 2
    BY <1>1, <1>4, Registered DEF OnOperator, On, NoEntry
  <2> QED BY <2>1 DEF Fits, StandsBeside, StandsOn
<1>5. ASSUME push_operator(t) PROVE WellStacked(Len(conds), status_stack', symbol_stack')
  <2>1. CASE t.key \notin Prioritised
    BY <1>1, <1>5, <2>1, EndStacks DEF push_operator
  <2>2. CASE t.key \in Prioritised
    <3>1. Fits(TopOf(status_stack), 7, t.key)
      BY <1>4, <1>5, ExpressionTop DEF push_operator
    <3>2. /\ status_stack' = Append(status_stack, 7)
          /\ symbol_stack' = Append(symbol_stack, Lexeme(t))
      BY <1>5, <2>2 DEF push_operator
    <3> QED BY <1>1, <3>1, <3>2, Push DEF Status
  <2> QED BY <2>1, <2>2
<1>6. ASSUME solve_then_push_operator(t) PROVE WellStacked(Len(conds), status_stack', symbol_stack')
  <2>1. CASE \E o : End(o)
    BY <1>1, <2>1, EndStacks
  <2>2. ASSUME NEW m \in 2 .. Len(symbol_stack),
               StepStart(symbol_stack, last_priority, m),
               symbol_stack' = Append(Reduced(symbol_stack, m, Value), Lexeme(t)),
               status_stack' = Append(Reduced(status_stack, m, 2), 7)
        PROVE  WellStacked(Len(conds), status_stack', symbol_stack')
    <3>1. CurrentStatus(t) = 2 /\ Fits(2, 7, t.key)
      BY <1>4, <1>6 DEF solve_then_push_operator
    <3>2. status_stack[Len(status_stack)] = 2 /\ m \in 2 .. Len(status_stack)
      BY <3>1, ExpressionTop
    <3>3. Reaches(symbol_stack, last_priority, m)
      BY <2>2 DEF StepStart
    <3>4. /\ WellStacked(Len(conds), Reduced(status_stack, m, 2), Reduced(symbol_stack, m, Value))
          /\ TopOf(Reduced(status_stack, m, 2)) = 2
      BY <1>1, <3>2, <3>3, ReducedStacks
    <3> QED BY <1>1, <2>2, <3>1, <3>4, Push DEF Status
  <2> QED BY <1>6, <2>1, <2>2 DEF solve_then_push_operator
<1> QED BY <1>3, <1>5, <1>6

LEMMA StatementStacks ==
  ASSUME IInv, NEW t \in Token, NEW m \in 2 .. Len(symbol_stack),
         \/ expression_statement(t, m)
         \/ return_statement(t, m)
         \/ reduce_condition_calculate(t, m)
  PROVE  WellStacked(Len(conds), status_stack', symbol_stack')
<1> DEFINE n == Len(status_stack)
<1>1. /\ WellStacked(Len(conds), status_stack, symbol_stack) /\ n \in Nat /\ n = Len(symbol_stack)
      /\ status_stack \in Seq(Status \ {0}) /\ symbol_stack \in Seq(Held(Len(conds)))
  BY Dispatch DEF WellStacked, Matched
<1>2. \A i \in 0 .. n : WellStacked(Len(conds), SubSeq(status_stack, 1, i), SubSeq(symbol_stack, 1, i))
  BY <1>1, Cut
<1>3. CASE \E o : End(o)
  BY <1>1, <1>3, EndStacks
<1>4. CASE \E i \in 0 .. n : /\ status_stack' = SubSeq(status_stack, 1, i)
                             /\ symbol_stack' = SubSeq(symbol_stack, 1, i)
  BY <1>2, <1>4
<1>5. ASSUME expression_statement(t, m) PROVE WellStacked(Len(conds), status_stack', symbol_stack')
  <2>1. ASSUME NEW k \in 0 .. m - 1, m - 1 - 2 * k > 0,
               symbol_stack' = SubSeq(symbol_stack, 1, m - 1 - 2 * k),
               status_stack' = SubSeq(status_stack, 1, m - 1 - 2 * k)
        PROVE  WellStacked(Len(conds), status_stack', symbol_stack')
    <3>1. m - 1 - 2 * k \in 0 .. n
      BY <1>1, <2>1
    <3> QED BY <1>2, <2>1, <3>1
  <2> QED BY <1>3, <1>5, <2>1 DEF expression_statement
<1>6. ASSUME return_statement(t, m) PROVE WellStacked(Len(conds), status_stack', symbol_stack')
  <2>1. m - 2 \in 0 .. n
    BY <1>1
  <2>2. \/ \E o : End(o)
        \/ /\ status_stack' = SubSeq(status_stack, 1, m - 2)
           /\ symbol_stack' = SubSeq(symbol_stack, 1, m - 2)
    BY <1>6 DEF return_statement
  <2> QED BY <1>3, <1>4, <2>1, <2>2
<1>7. ASSUME reduce_condition_calculate(t, m) PROVE WellStacked(Len(conds), status_stack', symbol_stack')
  <2>1. m - 1 \in 1 .. n /\ m - 2 \in 0 .. n /\ m - 1 - 1 = m - 2
    BY <1>1
  <2>2. /\ Fits(Below(status_stack, m - 2), status_stack[m - 1], symbol_stack[m - 1].key)
        /\ symbol_stack[m - 1] \in Held(Len(conds))
    BY <1>1, <2>1, Entry
  <2>3. ASSUME NEW s \in {17, 23}, NEW s1 \in {19, 24}, status_stack[m - 1] = s,
               symbol_stack[m - 1].key = "cond",
               status_stack' = Append(SubSeq(status_stack, 1, m - 2), s1),
               symbol_stack' = SubSeq(symbol_stack, 1, m - 1)
        PROVE  WellStacked(Len(conds), status_stack', symbol_stack')
    <3>1. Fits(Below(status_stack, m - 2), s1, "cond")
      <4>1. Below(status_stack, m - 2) \in {15, 19, 22, 24}
        BY <2>2, <2>3, Standing
      <4>2. \A b \in {15, 19, 22, 24} : Fits(b, 19, "cond") /\ Fits(b, 24, "cond")
        BY DEF Fits, StandsOn, StandsBeside
      <4> QED BY <2>3, <4>1, <4>2
    <3>2. WellStacked(Len(conds), Append(SubSeq(status_stack, 1, m - 2), s1),
                      Append(SubSeq(symbol_stack, 1, m - 2), symbol_stack[m - 1]))
      <4> DEFINE i == m - 2
                 y == symbol_stack[m - 1]
      <4>1. WellStacked(Len(conds), status_stack, symbol_stack) /\ i \in 0 .. Len(status_stack)
        BY <1>1, <2>1
      <4>2. s1 \in Status \ {0} /\ y \in Held(Len(conds)) /\ Fits(Below(status_stack, i), s1, y.key)
        BY <2>2, <2>3, <3>1 DEF Status
      <4> HIDE DEF i, y
      <4>3. WellStacked(Len(conds), Append(SubSeq(status_stack, 1, i), s1),
                        Append(SubSeq(symbol_stack, 1, i), y))
        BY <4>1, <4>2, CutPush
      <4> QED BY <4>3 DEF i, y
    <3>3. Append(SubSeq(symbol_stack, 1, m - 2), symbol_stack[m - 1]) = SubSeq(symbol_stack, 1, m - 1)
      BY <1>1, <2>1, CutLast, SMTT(30)
    <3> QED BY <2>3, <3>2, <3>3
  <2>4. \/ \E o : End(o)
        \/ /\ symbol_stack[m - 1].key = "cond"
           /\ symbol_stack' = SubSeq(symbol_stack, 1, m - 1)
           /\ \/ /\ status_stack[m - 1] = 17
                 /\ status_stack' = Append(SubSeq(status_stack, 1, m - 2), 19)
              \/ /\ status_stack[m - 1] = 23
                 /\ status_stack' = Append(SubSeq(status_stack, 1, m - 2), 24)
              \/ status_stack' = SubSeq(status_stack, 1, m - 1)
    BY <1>7 DEF reduce_condition_calculate
  <2>5. CASE /\ status_stack' = SubSeq(status_stack, 1, m - 1)
             /\ symbol_stack' = SubSeq(symbol_stack, 1, m - 1)
    BY <1>4, <2>1, <2>5
  <2> QED BY <1>3, <2>3, <2>4, <2>5
<1> QED BY <1>5, <1>6, <1>7

LEMMA ParenthesisStacks ==
  ASSUME IInv, NEW t \in Token, NEW q \in 2 .. Len(symbol_stack),
         reduce_group(t, q) \/ reduce_operatorbrace(t, q)
  PROVE  WellStacked(Len(conds), status_stack', symbol_stack')
<1> DEFINE n == Len(status_stack)
<1>1. /\ WellStacked(Len(conds), status_stack, symbol_stack) /\ n \in Nat /\ n = Len(symbol_stack)
      /\ symbol_stack \in Seq(Held(Len(conds))) /\ CurrentStatus(t) \in Status /\ t.key \in Key
  <2>1. WellStacked(Len(conds), status_stack, symbol_stack) /\ CurrentStatus(t) \in Status /\ t.key \in Key
    BY Dispatch, TokenIsSymbol
  <2> QED BY <2>1 DEF WellStacked, Matched
<1>2. OnParenthesis(t, q)
  BY DEF reduce_group, reduce_operatorbrace
<1>3. CurrentStatus(t) = 2 /\ symbol_stack[q].key = "("
  BY <1>1, <1>2, Registered DEF OnParenthesis, On, NoEntry
<1>4. status_stack[n] = 2
  BY <1>3, ExpressionTop
<1>5. q < n /\ status_stack[q] = 7 /\ Below(status_stack, q - 1) \in {2, 7}
  BY <1>1, <1>3, <1>4, OpenParenthesis
<1>6. ASSUME reduce_group(t, q) PROVE WellStacked(Len(conds), status_stack', symbol_stack')
  <2>1. n \in 1 .. n /\ symbol_stack[n] \in Held(Len(conds))
        /\ Fits(Below(status_stack, n - 1), 2, symbol_stack[n].key)
    BY <1>1, <1>4, <1>5, Entry
  <2>2. CASE \E o : End(o)
    BY <1>1, <2>2, EndStacks
  <2>3. ASSUME NEW y \in {symbol_stack[n], Value},
               symbol_stack' = Append(SubSeq(symbol_stack, 1, q - 1), y),
               status_stack' = Append(SubSeq(status_stack, 1, q - 1), 2)
        PROVE  WellStacked(Len(conds), status_stack', symbol_stack')
    <3>1. Fits(Below(status_stack, q - 1), 2, symbol_stack[n].key)
      BY <1>5, <2>1 DEF Fits, StandsOn
    <3>2. Fits(Below(status_stack, q - 1), 2, y.key) /\ y \in Held(Len(conds))
      BY <2>1, <2>3, <3>1, ValueFits, ValueIsSymbol
    <3> QED BY <1>1, <2>3, <3>2, CutPush DEF Status
  <2> QED BY <1>1, <1>6, <2>2, <2>3 DEF reduce_group
<1>7. ASSUME reduce_operatorbrace(t, q) PROVE WellStacked(Len(conds), status_stack', symbol_stack')
  <2>1. symbol_stack[q - 1].key = "id"
    BY <1>7 DEF reduce_operatorbrace
  <2>2. q - 1 \in 1 .. n /\ q - 2 \in 0 .. n /\ q - 1 - 1 = q - 2 /\ status_stack[q - 1] \in {2, 7}
    BY <1>1, <1>5 DEF Below
  <2>3. Fits(Below(status_stack, q - 2), status_stack[q - 1], "id")
    BY <1>1, <2>1, <2>2, Entry
  <2>4. Fits(Below(status_stack, q - 2), 2, "value")
    BY <2>2, <2>3, ValueFits
  <2>5. CASE \E o : End(o)
    BY <1>1, <2>5, EndStacks
  <2>6. CASE /\ symbol_stack' = Append(SubSeq(symbol_stack, 1, q - 2), Value)
             /\ status_stack' = Append(SubSeq(status_stack, 1, q - 2), 2)
    BY <1>1, <2>2, <2>4, <2>6, CutPush, ValueIsSymbol DEF Status
  <2> QED BY <1>7, <2>5, <2>6 DEF reduce_operatorbrace
<1> QED BY <1>6, <1>7

-----------------------------------------------------------------------------
(* Every step leaves the code typed. *)

TypedCode(n, param, cs, blocks, at) ==
  /\ n \in Nat /\ Len(blocks) = n
  /\ param \in FuncParamOf(0 .. n)
  /\ cs \in Seq(CondOf(0 .. n))
  /\ blocks \in Seq(Seq(SUBSET (0 .. n)))
  /\ at \in 0 .. n

\* What a step has to show of the code: it is typed, and no condition is lost.
CodeStep ==
  /\ TypedCode(Len(terms'), func_param', conds', terms', insert_block')
  /\ Len(conds) <= Len(conds')

\* More blocks only widen the types.
LEMMA WidenCode ==
  ASSUME NEW n \in Nat, NEW m \in Nat, n <= m
  PROVE  /\ 0 .. n \subseteq 0 .. m
         /\ FuncParamOf(0 .. n) \subseteq FuncParamOf(0 .. m)
         /\ Seq(CondOf(0 .. n)) \subseteq Seq(CondOf(0 .. m))
         /\ Seq(Seq(SUBSET (0 .. n))) \subseteq Seq(Seq(SUBSET (0 .. m)))
<1>1. 0 .. n \subseteq 0 .. m
  OBVIOUS
<1>2. Seq(0 .. n) \subseteq Seq(0 .. m)
  BY <1>1
<1>3. FuncParamOf(0 .. n) \subseteq FuncParamOf(0 .. m)
  BY <1>1, <1>2 DEF FuncParamOf
<1>4. CondOf(0 .. n) \subseteq CondOf(0 .. m)
  BY <1>1 DEF CondOf
<1>5. Seq(CondOf(0 .. n)) \subseteq Seq(CondOf(0 .. m))
  BY <1>4
<1>6. SUBSET (0 .. n) \subseteq SUBSET (0 .. m)
  BY <1>1
<1>7. Seq(SUBSET (0 .. n)) \subseteq Seq(SUBSET (0 .. m))
  BY <1>6
<1>8. Seq(Seq(SUBSET (0 .. n))) \subseteq Seq(Seq(SUBSET (0 .. m)))
  BY <1>7
<1> QED BY <1>1, <1>3, <1>5, <1>8

LEMMA TerminateType ==
  ASSUME NEW n \in Nat, NEW blocks \in Seq(Seq(SUBSET (0 .. n))), NEW b,
         NEW targets \in SUBSET (0 .. n)
  PROVE  /\ Terminate(blocks, b, targets) \in Seq(Seq(SUBSET (0 .. n)))
         /\ Len(Terminate(blocks, b, targets)) = Len(blocks)
<1> DEFINE S == Seq(SUBSET (0 .. n))
           new == Terminate(blocks, b, targets)
<1>1. \A i \in 1 .. Len(blocks) : blocks[i] \in S /\ Append(blocks[i], targets) \in S
  OBVIOUS
<1>2. /\ DOMAIN new = 1 .. Len(blocks) /\ Len(blocks) \in Nat
      /\ \A i \in 1 .. Len(blocks) :
           new[i] = IF i = b THEN Append(blocks[i], targets) ELSE blocks[i]
  BY DEF Terminate
<1>3. new \in [1 .. Len(blocks) -> S]
  <2> HIDE DEF S
  <2>1. \A i \in 1 .. Len(blocks) : new[i] \in S
    BY <1>1, <1>2
  <2>2. new = [i \in DOMAIN new |-> new[i]]
    BY DEF Terminate
  <2> QED BY <1>2, <2>1, <2>2
<1> HIDE DEF S, new
<1>4. new \in Seq(S) /\ Len(new) = Len(blocks)
  BY <1>2, <1>3
<1> QED BY <1>4 DEF S, new

\* Changing the fields of one condition.
LEMMA UpdateType ==
  ASSUME NEW S, NEW cs \in Seq(S), NEW i, NEW v, i \in 1 .. Len(cs) => v \in S
  PROVE  /\ [cs EXCEPT ![i] = v] \in Seq(S)
         /\ Len([cs EXCEPT ![i] = v]) = Len(cs)
<1> DEFINE new == [cs EXCEPT ![i] = v]
<1>1. \A j \in 1 .. Len(cs) : cs[j] \in S /\ new[j] = IF j = i THEN v ELSE cs[j]
  OBVIOUS
<1>2. DOMAIN new = 1 .. Len(cs) /\ Len(cs) \in Nat /\ new = [j \in DOMAIN new |-> new[j]]
  OBVIOUS
<1> HIDE DEF new
<1>3. new \in [1 .. Len(cs) -> S]
  <2>1. \A j \in 1 .. Len(cs) : new[j] \in S
    BY <1>1
  <2> QED BY <1>2, <2>1
<1>4. new \in Seq(S) /\ Len(new) = Len(cs)
  BY <1>2, <1>3
<1> QED BY <1>4 DEF new

LEMMA DeadType ==
  ASSUME NEW B, NEW cs \in Seq(CondOf(B)), NEW i
  PROVE  /\ [cs EXCEPT ![i].live = FALSE] \in Seq(CondOf(B))
         /\ Len([cs EXCEPT ![i].live = FALSE]) = Len(cs)
<1> DEFINE S == CondOf(B)
           v == [cs[i] EXCEPT !.live = FALSE]
<1>1. \A x \in S : [x EXCEPT !.live = FALSE] \in S
  BY DEF CondOf
<1>2. i \in 1 .. Len(cs) => v \in S
  <2>1. cs \in Seq(S)
    OBVIOUS
  <2> HIDE DEF S
  <2>2. i \in 1 .. Len(cs) => cs[i] \in S
    BY <2>1
  <2> QED BY <1>1, <2>2
<1>3. [cs EXCEPT ![i] = v] \in Seq(S) /\ Len([cs EXCEPT ![i] = v]) = Len(cs)
  <2> HIDE DEF v
  <2> QED BY <1>2, UpdateType
<1> QED BY <1>3, Zenon DEF v

LEMMA PairType ==
  ASSUME NEW B, NEW b \in B, NEW d \in B
  PROVE  <<b, d>> \in Seq(B) /\ Len(<<b, d>>) = 2
  OBVIOUS

\* Changing one field of the function being parsed.
LEMMA ParamType ==
  ASSUME NEW B, NEW param \in FuncParamOf(B), NEW x \in Name \cup {""}, NEW typed \in BOOLEAN,
         NEW r \in {"none", "type", "null"}, NEW b \in B, NEW d \in B
  PROVE  /\ [param EXCEPT !.name = x] \in FuncParamOf(B)
         /\ [param EXCEPT !.arg = Append(@, [name |-> x, typed |-> typed])] \in FuncParamOf(B)
         /\ [param EXCEPT !.return_type = r] \in FuncParamOf(B)
         /\ [param EXCEPT !.basic_blocks = Append(@, b)] \in FuncParamOf(B)
         /\ [param EXCEPT !.basic_blocks = @ \o <<b, d>>] \in FuncParamOf(B)
         /\ [param EXCEPT !.return_block = b] \in FuncParamOf(B)
<1> DEFINE A == [name : Name \cup {""}, typed : BOOLEAN]
           y == [name |-> x, typed |-> typed]
<1>1. y \in A /\ param.arg \in Seq(A) /\ param.basic_blocks \in Seq(B)
  BY DEF FuncParamOf
<1>2. Append(param.arg, y) \in Seq(A)
  <2> HIDE DEF A, y
  <2> QED BY <1>1, AppendProperties
<1>3. <<b, d>> \in Seq(B)
  BY PairType
<1>4. /\ Append(param.basic_blocks, b) \in Seq(B)
      /\ param.basic_blocks \o <<b, d>> \in Seq(B)
  BY <1>1, <1>3, AppendProperties, ConcatProperties
<1>5. [param EXCEPT !.arg = Append(@, y)] \in FuncParamOf(B)
  <2> HIDE DEF y
  <2> QED BY <1>2 DEF FuncParamOf
<1>6. /\ [param EXCEPT !.name = x] \in FuncParamOf(B)
      /\ [param EXCEPT !.return_type = r] \in FuncParamOf(B)
      /\ [param EXCEPT !.return_block = b] \in FuncParamOf(B)
  BY DEF FuncParamOf
<1>7. /\ [param EXCEPT !.basic_blocks = Append(@, b)] \in FuncParamOf(B)
      /\ [param EXCEPT !.basic_blocks = @ \o <<b, d>>] \in FuncParamOf(B)
  BY <1>4 DEF FuncParamOf
<1> QED BY <1>5, <1>6, <1>7

LEMMA ReturnBlockType ==
  ASSUME NEW B, NEW param \in FuncParamOf(B)
  PROVE  param.return_block \in B
  BY DEF FuncParamOf

LEMMA CodeNow ==
  ASSUME IInv
  PROVE  /\ TypedCode(Len(terms), func_param, conds, terms, insert_block)
         /\ Len(conds) \in Nat
  BY DEF IInv, TypeOfCode, MaybeBlock, TypedCode

LEMMA CondsNow ==
  ASSUME IInv, NEW t
  PROVE  Conds(t) \in Seq(CondOf(MaybeBlock)) /\ Len(Conds(t)) = Len(conds) /\ Len(conds) \in Nat
<1>1. conds \in Seq(CondOf(MaybeBlock)) /\ 0 \in MaybeBlock
  BY DEF IInv, TypeOfCode, MaybeBlock
<1> DEFINE i == Last(symbol_stack).cond
<1>2. Len(conds) \in Nat
  BY <1>1
<1>3. /\ [conds EXCEPT ![i].live = FALSE] \in Seq(CondOf(MaybeBlock))
      /\ Len([conds EXCEPT ![i].live = FALSE]) = Len(conds)
  <2> HIDE DEF i
  <2> QED BY <1>1, DeadType
<1> QED BY <1>1, <1>2, <1>3, Zenon DEF Conds

\* A step that at most drops a finished "if".
LEMMA KeptCode ==
  ASSUME IInv, NEW t, func_param' = func_param, terms' = terms, insert_block' = insert_block,
         conds' \in {conds, Conds(t)}
  PROVE  CodeStep
  BY CodeNow, CondsNow DEF CodeStep, TypedCode, MaybeBlock

LEMMA EndCode ==
  ASSUME IInv, NEW o, End(o)
  PROVE  CodeStep
  BY KeptCode DEF End, code

\* A step that only changes the function being parsed.
LEMMA ParamCode ==
  ASSUME IInv, func_param' \in FuncParamOf(MaybeBlock), terms' = terms,
         insert_block' = insert_block, conds' = conds
  PROVE  CodeStep
  BY CodeNow DEF CodeStep, TypedCode, MaybeBlock

LEMMA HeaderCode ==
  ASSUME IInv, NEW t \in Token, Header(t)
  PROVE  CodeStep
<1> DEFINE n == Len(status_stack)
<1>1. /\ func_param \in FuncParamOf(MaybeBlock) /\ 0 \in MaybeBlock
      /\ CurrentStatus(t) \in Status /\ t.key \in Key
  <2>1. CurrentStatus(t) \in Status /\ t.key \in Key
    BY Dispatch, TokenIsSymbol
  <2>2. func_param \in FuncParamOf(MaybeBlock) /\ 0 \in MaybeBlock
    BY DEF IInv, TypeOfCode, MaybeBlock
  <2> QED BY <2>1, <2>2
<1>2. ASSUME get_function_name(t) PROVE CodeStep
  <2>1. CurrentStatus(t) = 9
    BY <1>1, <1>2, Registered DEF get_function_name, On, NoEntry
  <2>2. Len(symbol_stack) = n /\ n \in 1 .. n
    BY <2>1, OnTop DEF Status
  <2>3. symbol_stack[n] \in Held(Len(conds))
    BY <2>2, Dispatch, Entry
  <2>4. Top.name \in Name \cup {""}
    BY <2>2, <2>3 DEF Top, Last, Symbol, Held
  <2>5. [func_param EXCEPT !.name = Top.name] \in FuncParamOf(MaybeBlock)
    BY <1>1, <2>4, ParamType
  <2> QED BY <1>2, <2>5, ParamCode DEF get_function_name, code
<1>3. ASSUME get_argument(t) PROVE CodeStep
  <2> DEFINE x == symbol_stack[Len(symbol_stack) - 1].name
             typed == HasType(t.name)
  <2>1. CurrentStatus(t) = 12
    BY <1>1, <1>3, Registered DEF get_argument, On, NoEntry
  <2>2. n - 1 \in 0 .. n /\ Len(symbol_stack) = n /\ Below(status_stack, n - 1) = 11
    BY <2>1, OnTop, Standing DEF Status
  <2>3. n - 1 \in 1 .. n
    BY <2>2 DEF Below
  <2>4. symbol_stack[n - 1] \in Held(Len(conds))
    BY <2>3, Dispatch, Entry
  <2>5. x \in Name \cup {""} /\ typed \in BOOLEAN
    BY <2>2, <2>4 DEF Held, Symbol, HasType
  <2>6. [func_param EXCEPT !.arg = Append(@, [name |-> x, typed |-> typed])]
          \in FuncParamOf(MaybeBlock)
    <3> HIDE DEF x, typed
    <3> QED BY <1>1, <2>5, ParamType
  <2>7. CASE Lookup(t.name) = Root
    BY <1>3, <2>7, EndCode DEF get_argument
  <2>8. CASE Lookup(t.name) # Root
    BY <1>1, <1>3, <2>6, <2>8, ParamCode DEF get_argument, code
  <2> QED BY <2>7, <2>8
<1>4. ASSUME wait_function_return_type(t) PROVE CodeStep
  BY <1>4, KeptCode DEF wait_function_return_type, code
<1>5. ASSUME get_function_return_type(t) PROVE CodeStep
  <2>1. CASE Lookup(t.name) = Root
    BY <1>5, <2>1, EndCode DEF get_function_return_type
  <2>2. CASE Lookup(t.name) # Root
    <3>1. [func_param EXCEPT !.return_type = "type"] \in FuncParamOf(MaybeBlock)
          /\ [func_param EXCEPT !.return_type = "null"] \in FuncParamOf(MaybeBlock)
      BY <1>1 DEF FuncParamOf
    <3> QED BY <1>5, <2>2, <3>1, ParamCode DEF get_function_return_type, code
  <2> QED BY <2>1, <2>2
<1>6. ASSUME function_declear(t) PROVE CodeStep
  BY <1>6, EndCode DEF function_declear
<1> QED BY <1>2, <1>3, <1>4, <1>5, <1>6 DEF Header

LEMMA StartBodyCode ==
  ASSUME IInv, NEW t, NEW below, NEW below_symbols, StartBody(t, below, below_symbols)
  PROVE  CodeStep
<1> DEFINE n == Len(terms)
           m == n + 1
<1>1. TypedCode(n, func_param, conds, terms, insert_block) /\ n \in Nat
  BY CodeNow DEF TypedCode
<1>2. /\ m \in Nat /\ n <= m /\ m \in 0 .. m
  BY <1>1
<1>3. /\ func_param \in FuncParamOf(0 .. m)
      /\ conds \in Seq(CondOf(0 .. m))
      /\ terms \in Seq(Seq(SUBSET (0 .. m)))
  BY <1>1, <1>2, WidenCode DEF TypedCode
<1>4. [func_param EXCEPT !.basic_blocks = Append(@, m)] \in FuncParamOf(0 .. m)
  <2> HIDE DEF m
  <2> QED BY <1>2, <1>3, ParamType
<1>5. Append(terms, <<>>) \in Seq(Seq(SUBSET (0 .. m))) /\ Len(Append(terms, <<>>)) = m
  <2>1. <<>> \in Seq(SUBSET (0 .. m))
    OBVIOUS
  <2> QED BY <1>3, <2>1, AppendProperties
<1>6. /\ func_param' = [func_param EXCEPT !.basic_blocks = Append(@, m)]
      /\ terms' = Append(terms, <<>>) /\ insert_block' = m /\ conds' = conds
  BY DEF StartBody
<1>7. Len(conds) \in Nat
  BY CodeNow
<1> HIDE DEF m
<1> QED BY <1>2, <1>3, <1>4, <1>5, <1>6, <1>7 DEF CodeStep, TypedCode

LEMMA BodyCode ==
  ASSUME IInv, NEW t \in Token, Body(t)
  PROVE  CodeStep
<1>1. ASSUME function_body_define_strart(t) PROVE CodeStep
  BY <1>1, EndCode, StartBodyCode DEF function_body_define_strart
<1>2. ASSUME has_return_type_function_define(t) PROVE CodeStep
  BY <1>2, EndCode, StartBodyCode DEF has_return_type_function_define
<1>3. ASSUME function_body_define_finished(t) PROVE CodeStep
  <2> DEFINE n == Len(terms)
             b == func_param.return_block
  <2>1. TypedCode(n, func_param, conds, terms, insert_block) /\ n \in Nat
    BY CodeNow DEF TypedCode
  <2>2. b \in 0 .. n /\ 0 \in 0 .. n
    <3>1. func_param \in FuncParamOf(0 .. n)
      BY <2>1 DEF TypedCode
    <3>2. 0 \in 0 .. n
      BY <2>1
    <3> QED BY <3>1, <3>2, ReturnBlockType
  <2>3. /\ Terminate(terms, insert_block, {b}) \in Seq(Seq(SUBSET (0 .. n)))
        /\ Len(Terminate(terms, insert_block, {b})) = n
    <3>1. {b} \in SUBSET (0 .. n) /\ terms \in Seq(Seq(SUBSET (0 .. n)))
      BY <2>1, <2>2 DEF TypedCode
    <3> QED BY <2>1, <3>1, TerminateType, SMTT(30)
  <2>4. Cleared(func_param) \in FuncParamOf(0 .. n)
    <3>1. <<>> \in Seq([name : Name \cup {""}, typed : BOOLEAN]) /\ <<>> \in Seq(0 .. n)
      OBVIOUS
    <3> QED BY <2>1, <2>2, <3>1 DEF Cleared, TypedCode, FuncParamOf
  <2>5. Conds(t) \in Seq(CondOf(0 .. n)) /\ Len(Conds(t)) = Len(conds) /\ Len(conds) \in Nat
    BY CondsNow DEF MaybeBlock
  <2>6. /\ func_param' = Cleared(func_param) /\ conds' = Conds(t) /\ insert_block' = insert_block
        /\ terms' \in {terms, Terminate(terms, insert_block, {b})}
    BY <1>3 DEF function_body_define_finished
  <2> QED BY <2>1, <2>3, <2>4, <2>5, <2>6 DEF CodeStep, TypedCode
<1> QED BY <1>1, <1>2, <1>3 DEF Body

LEMMA VariableCode ==
  ASSUME IInv, NEW t \in Token, Variable(t)
  PROVE  CodeStep
<1>1. ASSUME define_pointer(t) PROVE CodeStep
  BY <1>1, KeptCode DEF define_pointer, code
<1>2. ASSUME define_variable(t) PROVE CodeStep
  BY <1>2, KeptCode, EndCode DEF define_variable, Define, code
<1>3. ASSUME define_again(t) PROVE CodeStep
  BY <1>3, KeptCode, EndCode DEF define_again, Define, code
<1>4. ASSUME define_finished(t) PROVE CodeStep
  BY <1>4, KeptCode DEF define_finished, code
<1> QED BY <1>1, <1>2, <1>3, <1>4 DEF Variable

\* The condition a handler finds on the stack is one of those allocated.
LEMMA CondFound ==
  ASSUME IInv, NEW t \in Token, NEW i \in 1 .. Len(Statuses(t)),
         Statuses(t)[i] \in {17, 19, 20, 21, 23, 24}
  PROVE  /\ Symbols(t)[i].cond \in 1 .. Len(conds)
         /\ conds[Symbols(t)[i].cond] \in CondOf(MaybeBlock)
<1>1. WellStacked(Len(conds), Statuses(t), Symbols(t))
  BY Dispatch
<1>2. /\ Symbols(t)[i] \in Held(Len(conds))
      /\ Fits(Below(Statuses(t), i - 1), Statuses(t)[i], Symbols(t)[i].key)
  BY <1>1, Entry
<1>3. Symbols(t)[i].key = "cond"
  BY <1>2, Standing
<1>4. Symbols(t)[i].cond \in 1 .. Len(conds)
  BY <1>2, <1>3 DEF Held
<1> DEFINE S == CondOf(MaybeBlock)
<1>5. conds \in Seq(S)
  BY DEF IInv, TypeOfCode
<1> HIDE DEF S
<1>6. conds[Symbols(t)[i].cond] \in S
  BY <1>4, <1>5
<1> QED BY <1>4, <1>6 DEF S

\* The current block ends with a branch to a block that exists.
LEMMA TerminateNow ==
  ASSUME IInv, NEW b \in MaybeBlock
  PROVE  /\ Terminate(terms, insert_block, {b}) \in Seq(Seq(SUBSET MaybeBlock))
         /\ Len(Terminate(terms, insert_block, {b})) = Len(terms)
<1> DEFINE n == Len(terms)
           targets == {b}
<1>1. terms \in Seq(Seq(SUBSET (0 .. n))) /\ n \in Nat
  BY DEF IInv, TypeOfCode, MaybeBlock
<1>2. targets \in SUBSET (0 .. n)
  BY DEF MaybeBlock
<1>3. MaybeBlock = 0 .. n /\ Len(terms) = n
  BY DEF MaybeBlock
<1> HIDE DEF n, targets
<1>4. /\ Terminate(terms, insert_block, targets) \in Seq(Seq(SUBSET (0 .. n)))
      /\ Len(Terminate(terms, insert_block, targets)) = Len(terms)
  BY <1>1, <1>2, TerminateType
<1> QED BY <1>3, <1>4 DEF targets

LEMMA StartingCode ==
  ASSUME IInv, NEW t \in Token, start_while_condition(t) \/ start_if_condition(t)
  PROVE  CodeStep /\ Len(conds') = Len(conds) + 1
<1> DEFINE n == Len(terms)
           m == n + 1
<1>1. TypedCode(n, func_param, conds, terms, insert_block) /\ n \in Nat
  BY CodeNow DEF TypedCode
<1>2. Conds(t) \in Seq(CondOf(0 .. n)) /\ Len(Conds(t)) = Len(conds) /\ Len(conds) \in Nat
  BY CondsNow DEF MaybeBlock
<1>3. m \in Nat /\ n <= m /\ m \in 0 .. m /\ 0 \in 0 .. m
  BY <1>1
<1>4. /\ func_param \in FuncParamOf(0 .. m) /\ 0 .. n \subseteq 0 .. m
      /\ Conds(t) \in Seq(CondOf(0 .. m))
      /\ terms \in Seq(Seq(SUBSET (0 .. m)))
  BY <1>1, <1>2, <1>3, WidenCode DEF TypedCode
<1>5. ASSUME NEW c \in CondOf(0 .. m), conds' = Append(Conds(t), c)
      PROVE  conds' \in Seq(CondOf(0 .. m)) /\ Len(conds') = Len(conds) + 1
                /\ Len(conds) <= Len(conds')
  BY <1>2, <1>4, <1>5, AppendProperties
<1>6. ASSUME start_while_condition(t) PROVE CodeStep /\ Len(conds') = Len(conds) + 1
  <2> DEFINE c == [NoCond EXCEPT !.entery_block = m]
             ended == Terminate(terms, insert_block, {m})
  <2> HIDE DEF m
  <2>1. c \in CondOf(0 .. m)
    BY <1>3 DEF NoCond, CondOf
  <2>2. [func_param EXCEPT !.basic_blocks = Append(@, m)] \in FuncParamOf(0 .. m)
    BY <1>3, <1>4, ParamType
  <2>3. ended \in Seq(Seq(SUBSET (0 .. m))) /\ Len(ended) = n
    BY <1>3, <1>4, TerminateType
  <2>4. Append(ended, <<>>) \in Seq(Seq(SUBSET (0 .. m))) /\ Len(Append(ended, <<>>)) = n + 1
    <3>1. <<>> \in Seq(SUBSET (0 .. m))
      OBVIOUS
    <3> HIDE DEF ended
    <3> QED BY <2>3, <3>1, AppendProperties
  <2>5. /\ func_param' = [func_param EXCEPT !.basic_blocks = Append(@, m)]
        /\ terms' = Append(ended, <<>>) /\ insert_block' = m
        /\ conds' = Append(Conds(t), c)
    BY <1>6 DEF start_while_condition, m
  <2>6. /\ conds' \in Seq(CondOf(0 .. m)) /\ Len(conds') = Len(conds) + 1
        /\ Len(conds) <= Len(conds')
    BY <1>5, <2>1, <2>5
  <2>7. n + 1 = m
    BY DEF m
  <2> HIDE DEF c, ended
  <2> QED BY <1>3, <2>2, <2>4, <2>5, <2>6, <2>7 DEF CodeStep, TypedCode
<1>7. ASSUME start_if_condition(t) PROVE CodeStep /\ Len(conds') = Len(conds) + 1
  <2>1. NoCond \in CondOf(0 .. n)
    BY <1>1 DEF NoCond, CondOf
  <2>2. /\ func_param' = func_param /\ terms' = terms /\ insert_block' = insert_block
        /\ conds' = Append(Conds(t), NoCond)
    BY <1>7 DEF start_if_condition, code
  <2>3. Append(Conds(t), NoCond) \in Seq(CondOf(0 .. n))
        /\ Len(Append(Conds(t), NoCond)) = Len(conds) + 1
    BY <1>2, <2>1, AppendProperties
  <2>4. Len(conds) <= Len(conds) + 1
    BY <1>2
  <2> QED BY <1>1, <2>2, <2>3, <2>4 DEF CodeStep, TypedCode
<1> QED BY <1>6, <1>7

LEMMA BranchingCode ==
  ASSUME IInv, NEW t \in Token,
         end_while_body(t) \/ end_if_body1(t) \/ check_if_body2(t) \/ end_if_body2(t)
  PROVE  CodeStep
<1> DEFINE n == Len(terms)
           N == Len(Statuses(t))
<1>1. TypedCode(n, func_param, conds, terms, insert_block) /\ n \in Nat
  BY CodeNow DEF TypedCode
<1>2. Conds(t) \in Seq(CondOf(0 .. n)) /\ Len(Conds(t)) = Len(conds) /\ Len(conds) \in Nat
  BY CondsNow DEF MaybeBlock
<1>3. /\ CurrentStatus(t) \in Status /\ t.key \in Key /\ CurrentStatus(t) = TopOf(Statuses(t))
      /\ WellStacked(Len(conds), Statuses(t), Symbols(t))
  BY Dispatch, TokenIsSymbol
<1>4. \A b \in 0 .. n : /\ Terminate(terms, insert_block, {b}) \in Seq(Seq(SUBSET (0 .. n)))
                        /\ Len(Terminate(terms, insert_block, {b})) = n
  BY TerminateNow DEF MaybeBlock
<1>5. \A c : /\ [Conds(t) EXCEPT ![c].live = FALSE] \in Seq(CondOf(0 .. n))
             /\ Len([Conds(t) EXCEPT ![c].live = FALSE]) = Len(conds)
  BY <1>2, DeadType
\* A condition on top of the stack gives blocks that exist.
<1>6. ASSUME CurrentStatus(t) \in {19, 24}, NEW c, c = Last(Symbols(t)).cond
      PROVE  /\ conds[c].entery_block \in 0 .. n /\ conds[c].body2 \in 0 .. n
             /\ conds[c].exit_block \in 0 .. n
  <2>1. N \in 1 .. N /\ Statuses(t)[N] \in {17, 19, 20, 21, 23, 24}
    BY <1>6, Dispatch
  <2>2. N = Len(Symbols(t))
    BY <1>3, <2>1, Entry
  <2>3. c = Symbols(t)[N].cond
    BY <1>6, <2>2 DEF Last
  <2>4. conds[c] \in CondOf(0 .. n)
    BY <2>1, <2>3, CondFound DEF MaybeBlock
  <2> QED BY <2>4 DEF CondOf
<1>7. ASSUME end_while_body(t) PROVE CodeStep
  <2> DEFINE c == Last(Symbols(t)).cond
  <2>1. CurrentStatus(t) = 24
    BY <1>3, <1>7, Registered DEF end_while_body, On, NoEntry
  <2>2. conds[c].entery_block \in 0 .. n /\ conds[c].exit_block \in 0 .. n
    BY <1>6, <2>1
  <2>3. /\ terms' = Terminate(terms, insert_block, {conds[c].entery_block})
        /\ insert_block' = conds[c].exit_block
        /\ conds' = [Conds(t) EXCEPT ![c].live = FALSE] /\ func_param' = func_param
    BY <1>7 DEF end_while_body
  <2>4. terms' \in Seq(Seq(SUBSET (0 .. n))) /\ Len(terms') = n
    BY <1>4, <2>2, <2>3
  <2>5. conds' \in Seq(CondOf(0 .. n)) /\ Len(conds') = Len(conds) /\ Len(conds) <= Len(conds')
    <3>1. conds' \in Seq(CondOf(0 .. n)) /\ Len(conds') = Len(conds)
      BY <1>5, <2>3
    <3> QED BY <1>2, <3>1
  <2> HIDE DEF c
  <2> QED BY <1>1, <2>2, <2>3, <2>4, <2>5 DEF CodeStep, TypedCode
<1>8. ASSUME end_if_body1(t) PROVE CodeStep
  <2> DEFINE c == Last(Symbols(t)).cond
  <2>1. CurrentStatus(t) = 19
    BY <1>3, <1>8, Registered DEF end_if_body1, On, NoEntry
  <2>2. conds[c].body2 \in 0 .. n
    BY <1>6, <2>1
  <2>3. /\ terms' \in {terms, Terminate(terms, insert_block, {conds[c].body2})}
        /\ insert_block' = conds[c].body2
        /\ conds' = Conds(t) /\ func_param' = func_param
    BY <1>8 DEF end_if_body1
  <2>4. terms' \in Seq(Seq(SUBSET (0 .. n))) /\ Len(terms') = n
    <3>1. terms \in Seq(Seq(SUBSET (0 .. n))) /\ Len(terms) = n
      BY <1>1 DEF TypedCode
    <3> HIDE DEF c
    <3>2. /\ Terminate(terms, insert_block, {conds[c].body2}) \in Seq(Seq(SUBSET (0 .. n)))
          /\ Len(Terminate(terms, insert_block, {conds[c].body2})) = n
      BY <1>4, <2>2
    <3> QED BY <2>3, <3>1, <3>2
  <2>5. Len(conds) <= Len(conds')
    BY <1>2, <2>3
  <2> HIDE DEF c
  <2> QED BY <1>1, <1>2, <2>2, <2>3, <2>4, <2>5 DEF CodeStep, TypedCode
<1>9. ASSUME check_if_body2(t) PROVE CodeStep
  BY <1>9, KeptCode DEF check_if_body2, code
<1>10. ASSUME end_if_body2(t) PROVE CodeStep
  <2> DEFINE c == Symbols(t)[Len(Symbols(t)) - 1].cond
  <2>1. CASE ~scopes[current_node].has_return
    BY <1>10, <2>1, EndCode DEF end_if_body2
  <2>2. CASE scopes[current_node].has_return
    <3>1. /\ terms' = terms /\ insert_block' = insert_block /\ func_param' = func_param
          /\ conds' = [Conds(t) EXCEPT ![c].live = FALSE]
      BY <1>10, <2>2 DEF end_if_body2, code
    <3>2. conds' \in Seq(CondOf(0 .. n)) /\ Len(conds') = Len(conds)
      BY <1>5, <3>1
    <3>3. Len(conds) <= Len(conds')
      BY <1>2, <3>2
    <3> HIDE DEF c
    <3> QED BY <1>1, <3>1, <3>2, <3>3 DEF CodeStep, TypedCode
  <2> QED BY <2>1, <2>2
<1> QED BY <1>7, <1>8, <1>9, <1>10

\* What a step has to show of the code, part by part.
LEMMA TypedStep ==
  ASSUME IInv, NEW k \in Nat, Len(terms') = k, terms' \in Seq(Seq(SUBSET (0 .. k))),
         func_param' \in FuncParamOf(0 .. k), conds' \in Seq(CondOf(0 .. k)),
         Len(conds') = Len(conds), insert_block' \in 0 .. k
  PROVE  CodeStep
<1>1. TypedCode(Len(terms'), func_param', conds', terms', insert_block')
  BY DEF TypedCode
<1>2. Len(conds) <= Len(conds')
  BY CodeNow
<1> QED BY <1>1, <1>2 DEF CodeStep

\* Two more blocks, which the current one branches to.
LEMMA TwoMoreBlocks ==
  ASSUME NEW d \in Nat, NEW b \in 0 .. d, NEW at, NEW blocks \in Seq(Seq(SUBSET (0 .. d)))
  PROVE  /\ Terminate(blocks, at, {b, d}) \o <<<<>>, <<>>>> \in Seq(Seq(SUBSET (0 .. d)))
         /\ Len(Terminate(blocks, at, {b, d}) \o <<<<>>, <<>>>>) = Len(blocks) + 2
<1> DEFINE targets == {b, d}
           ended == Terminate(blocks, at, targets)
           both == <<<<>>, <<>>>>
           S == Seq(SUBSET (0 .. d))
<1>1. targets \in SUBSET (0 .. d)
  OBVIOUS
<1>2. ended \in Seq(S) /\ Len(ended) = Len(blocks)
  <2> HIDE DEF targets
  <2>1. /\ Terminate(blocks, at, targets) \in Seq(Seq(SUBSET (0 .. d)))
        /\ Len(Terminate(blocks, at, targets)) = Len(blocks)
    BY <1>1, TerminateType
  <2> QED BY <2>1
<1>3. both \in Seq(S) /\ Len(both) = 2
  <2>1. <<>> \in S
    OBVIOUS
  <2> HIDE DEF S
  <2> QED BY <2>1, PairType
<1> HIDE DEF ended, both, S
<1>4. ended \o both \in Seq(S) /\ Len(ended \o both) = Len(ended) + Len(both)
  BY <1>2, <1>3, ConcatProperties
<1>5. Len(ended \o both) = Len(blocks) + 2
  BY <1>2, <1>3, <1>4
<1> QED BY <1>4, <1>5 DEF ended, both, S, targets

LEMMA ReturnCode ==
  ASSUME IInv, NEW t, NEW m, return_statement(t, m)
  PROVE  CodeStep
<1> DEFINE n == Len(terms)
           k == n + 1
           Filled(blocks, b) ==
             /\ terms' = Terminate(blocks, insert_block, {b})
             /\ func_param' = [func_param EXCEPT !.return_block = b]
             /\ insert_block' = insert_block /\ conds' = conds
<1>1. TypedCode(n, func_param, conds, terms, insert_block) /\ n \in Nat /\ Len(conds) \in Nat
  BY CodeNow DEF TypedCode
<1>2. \/ \E o : End(o)
      \/ func_param.return_block = 0 /\ Filled(Append(terms, <<{}>>), k)
      \/ Filled(terms, func_param.return_block)
  BY DEF return_statement
<1>3. CASE \E o : End(o)
  BY <1>3, EndCode
<1>4. CASE Filled(Append(terms, <<{}>>), k)
  <2> DEFINE more == Append(terms, <<{}>>)
  <2>1. k \in Nat /\ n <= k /\ k \in 0 .. k
    BY <1>1
  <2>2. /\ func_param \in FuncParamOf(0 .. k) /\ conds \in Seq(CondOf(0 .. k))
        /\ terms \in Seq(Seq(SUBSET (0 .. k))) /\ insert_block \in 0 .. k
    BY <1>1, <2>1, WidenCode DEF TypedCode
  <2>3. more \in Seq(Seq(SUBSET (0 .. k))) /\ Len(more) = k
    <3>1. <<{}>> \in Seq(SUBSET (0 .. k))
      OBVIOUS
    <3> QED BY <2>2, <3>1, AppendProperties
  <2>4. {k} \in SUBSET (0 .. k)
    BY <2>1
  <2> HIDE DEF k, more
  <2>5. /\ Terminate(more, insert_block, {k}) \in Seq(Seq(SUBSET (0 .. k)))
        /\ Len(Terminate(more, insert_block, {k})) = k
    BY <2>1, <2>3, <2>4, TerminateType
  <2>6. [func_param EXCEPT !.return_block = k] \in FuncParamOf(0 .. k)
    BY <2>1, <2>2 DEF FuncParamOf
  <2>7. /\ terms' = Terminate(more, insert_block, {k})
        /\ func_param' = [func_param EXCEPT !.return_block = k]
        /\ insert_block' = insert_block /\ conds' = conds
    BY <1>4 DEF more, k
  <2>8. terms' \in Seq(Seq(SUBSET (0 .. k))) /\ Len(terms') = k
    BY <2>5, <2>7
  <2>9. /\ func_param' \in FuncParamOf(0 .. k) /\ insert_block' \in 0 .. k
        /\ conds' \in Seq(CondOf(0 .. k)) /\ Len(conds') = Len(conds)
    BY <2>2, <2>6, <2>7
  <2> QED BY <2>1, <2>8, <2>9, TypedStep
<1>5. CASE Filled(terms, func_param.return_block)
  <2> DEFINE b == func_param.return_block
  <2>1. func_param \in FuncParamOf(0 .. n)
    BY <1>1 DEF TypedCode
  <2>2. b \in 0 .. n
    BY <2>1, ReturnBlockType
  <2>3. /\ terms' = Terminate(terms, insert_block, {b})
        /\ func_param' = [func_param EXCEPT !.return_block = b]
        /\ insert_block' = insert_block /\ conds' = conds
    BY <1>5
  <2> HIDE DEF b
  <2>4. /\ Terminate(terms, insert_block, {b}) \in Seq(Seq(SUBSET (0 .. n)))
        /\ Len(Terminate(terms, insert_block, {b})) = n
    BY <2>2, TerminateNow DEF MaybeBlock
  <2>5. [func_param EXCEPT !.return_block = b] \in FuncParamOf(0 .. n)
    BY <2>1, <2>2 DEF FuncParamOf
  <2>6. terms' \in Seq(Seq(SUBSET (0 .. n))) /\ Len(terms') = n
    BY <2>3, <2>4
  <2>7. /\ func_param' \in FuncParamOf(0 .. n) /\ insert_block' \in 0 .. n
        /\ conds' \in Seq(CondOf(0 .. n)) /\ Len(conds') = Len(conds)
    BY <1>1, <2>3, <2>5 DEF TypedCode
  <2> HIDE DEF n
  <2> QED BY <1>1, <2>6, <2>7, TypedStep
<1> QED BY <1>2, <1>3, <1>4, <1>5

LEMMA ConditionCode ==
  ASSUME IInv, NEW t, NEW m, reduce_condition_calculate(t, m)
  PROVE  CodeStep
<1> DEFINE n == Len(terms)
           b == n + 1
           d == n + 2
           c == symbol_stack[m - 1].cond
           x == [conds EXCEPT ![c] = [@ EXCEPT !.body1 = b, !.body2 = d]]
           y == [conds EXCEPT ![c] = [@ EXCEPT !.body1 = b, !.exit_block = d]]
           ended == Terminate(terms, insert_block, {b, d})
           both == <<<<>>, <<>>>>
<1>1. TypedCode(n, func_param, conds, terms, insert_block) /\ n \in Nat /\ Len(conds) \in Nat
  BY CodeNow DEF TypedCode
<1>2. b + 1 = d /\ d \in Nat /\ n <= d /\ b \in 0 .. d /\ d \in 0 .. d
  BY <1>1
<1>3. \/ \E o : End(o)
      \/ /\ conds' \in {x, y}
         /\ terms' = ended \o both
         /\ func_param' = [func_param EXCEPT !.basic_blocks = @ \o <<b, d>>]
         /\ insert_block' = b
      \/ /\ func_param' = func_param /\ terms' = terms /\ insert_block' = insert_block
         /\ conds' = conds
  BY <1>2 DEF reduce_condition_calculate
<1>4. /\ func_param \in FuncParamOf(0 .. d) /\ conds \in Seq(CondOf(0 .. d))
      /\ terms \in Seq(Seq(SUBSET (0 .. d)))
  BY <1>1, <1>2, WidenCode, ZenonT(60) DEF TypedCode
<1>5. x \in Seq(CondOf(0 .. d)) /\ Len(x) = Len(conds)
      /\ y \in Seq(CondOf(0 .. d)) /\ Len(y) = Len(conds)
  <2> DEFINE v == [conds[c] EXCEPT !.body1 = b, !.body2 = d]
             w == [conds[c] EXCEPT !.body1 = b, !.exit_block = d]
             S == CondOf(0 .. d)
  <2>1. conds \in Seq(S)
    BY <1>4
  <2>2. c \in 1 .. Len(conds) => conds[c] \in S
    <3> HIDE DEF S, c
    <3> QED BY <2>1
  <2>3. c \in 1 .. Len(conds) => v \in S /\ w \in S
    <3> DEFINE B == 0 .. d
    <3>1. b \in B /\ d \in B /\ \A z \in CondOf(B) :
            /\ [z EXCEPT !.body1 = b, !.body2 = d] \in CondOf(B)
            /\ [z EXCEPT !.body1 = b, !.exit_block = d] \in CondOf(B)
      <4>1. b \in B /\ d \in B
        BY <1>2
      <4> HIDE DEF b, d, B
      <4> QED BY <4>1 DEF CondOf
    <3> HIDE DEF b, d, c
    <3> QED BY <2>2, <3>1, Zenon
  <2> HIDE DEF b, d, c, v, w, S
  <2>4. /\ [conds EXCEPT ![c] = v] \in Seq(S) /\ Len([conds EXCEPT ![c] = v]) = Len(conds)
        /\ [conds EXCEPT ![c] = w] \in Seq(S) /\ Len([conds EXCEPT ![c] = w]) = Len(conds)
    BY <2>1, <2>3, UpdateType
  <2> QED BY <2>4, Zenon DEF S, v, w
<1>6. ended \o both \in Seq(Seq(SUBSET (0 .. d))) /\ Len(ended \o both) = d
  <2>1. Len(terms) + 2 = d
    OBVIOUS
  <2> HIDE DEF n, b, d
  <2>2. /\ Terminate(terms, insert_block, {b, d}) \o <<<<>>, <<>>>>
             \in Seq(Seq(SUBSET (0 .. d)))
        /\ Len(Terminate(terms, insert_block, {b, d}) \o <<<<>>, <<>>>>) = Len(terms) + 2
    BY <1>2, <1>4, TwoMoreBlocks
  <2> QED BY <2>1, <2>2
<1>7. [func_param EXCEPT !.basic_blocks = @ \o <<b, d>>] \in FuncParamOf(0 .. d)
  <2> HIDE DEF b, d
  <2> QED BY <1>2, <1>4, ParamType
<1>8. CASE \E o : End(o)
  BY <1>8, EndCode
<1>9. CASE /\ func_param' = func_param /\ terms' = terms /\ insert_block' = insert_block
            /\ conds' = conds
  BY <1>9, KeptCode
<1>10. CASE /\ conds' \in {x, y}
            /\ terms' = ended \o both
            /\ func_param' = [func_param EXCEPT !.basic_blocks = @ \o <<b, d>>]
            /\ insert_block' = b
  <2>1. conds' \in Seq(CondOf(0 .. d)) /\ Len(conds') = Len(conds) /\ Len(conds) <= Len(conds')
    <3> HIDE DEF x, y
    <3> QED BY <1>1, <1>5, <1>10
  <2> HIDE DEF b, d, ended, both, x, y
  <2>2. terms' \in Seq(Seq(SUBSET (0 .. d))) /\ Len(terms') = d
    BY <1>6, <1>10
  <2>3. func_param' \in FuncParamOf(0 .. d) /\ insert_block' \in 0 .. d
    BY <1>2, <1>7, <1>10
  <2> QED BY <1>2, <2>1, <2>2, <2>3, TypedStep
<1> QED BY <1>3, <1>8, <1>9, <1>10

LEMMA ExpressionCode ==
  ASSUME IInv, NEW t \in Token, Expression(t)
  PROVE  CodeStep
<1>1. CASE enter_parentheses(t)
  BY <1>1, KeptCode DEF enter_parentheses, code
<1>2. CASE push_operator(t)
  BY <1>2, KeptCode, EndCode DEF push_operator, code
<1>3. CASE solve_then_push_operator(t)
  BY <1>3, KeptCode, EndCode DEF solve_then_push_operator, code
<1>4. CASE expression_fails(t) \/ parenthesis_fails(t)
  BY <1>4, EndCode DEF expression_fails, LoopFails, parenthesis_fails
<1>5. ASSUME NEW m \in 2 .. Len(symbol_stack),
             \/ expression_statement(t, m) \/ return_statement(t, m)
             \/ reduce_condition_calculate(t, m)
             \/ reduce_group(t, m) \/ reduce_operatorbrace(t, m)
      PROVE  CodeStep
  <2>1. CASE expression_statement(t, m)
    BY <2>1, KeptCode, EndCode DEF expression_statement, code
  <2>2. CASE return_statement(t, m)
    BY <2>2, ReturnCode
  <2>3. CASE reduce_condition_calculate(t, m)
    BY <2>3, ConditionCode
  <2>4. CASE reduce_group(t, m)
    BY <2>4, KeptCode, EndCode DEF reduce_group, code
  <2>5. CASE reduce_operatorbrace(t, m)
    BY <2>5, KeptCode, EndCode DEF reduce_operatorbrace, code
  <2> QED BY <1>5, <2>1, <2>2, <2>3, <2>4, <2>5
<1> QED BY <1>1, <1>2, <1>3, <1>4, <1>5 DEF Expression

-----------------------------------------------------------------------------
(* The steps together. *)

LEMMA ShiftStacks ==
  ASSUME IInv, NEW t \in Token, Shift(t)
  PROVE  WellStacked(Len(conds), status_stack', symbol_stack')
<1> DEFINE s == CurrentStatus(t)
           next == ShiftTo[s][t.key]
<1>1. /\ WellStacked(Len(conds), Statuses(t), Symbols(t))
      /\ s \in Status /\ s = TopOf(Statuses(t))
  BY Dispatch
<1>2. t.key \in Key /\ Lexeme(t) \in Held(Len(conds)) /\ Lexeme(t).key = t.key
  BY TokenIsSymbol
<1>3. /\ next # -1 /\ status_stack' = Append(Statuses(t), next)
      /\ symbol_stack' = Append(Symbols(t), Lexeme(t))
  BY DEF Shift
<1> HIDE DEF s
<1>4. next \in Status /\ <<s, t.key, next>> \in ShiftRows
  BY <1>1, <1>2, <1>3, ShiftToRow
<1>5. next # 0 /\ Fits(s, next, t.key)
  BY <1>1, <1>2, <1>4, ShiftFits
<1> HIDE DEF next
<1> QED BY <1>1, <1>2, <1>3, <1>4, <1>5, Push

\* Where no condition is allocated, the symbols refer to those there were.
LEMMA ExpressionStacks ==
  ASSUME IInv, NEW t \in Token, Expression(t)
  PROVE  WellStacked(Len(conds), status_stack', symbol_stack')
<1>1. CASE enter_parentheses(t) \/ push_operator(t) \/ solve_then_push_operator(t)
  BY <1>1, OperatorStacks
<1>2. CASE expression_fails(t) \/ parenthesis_fails(t)
  BY <1>2, Dispatch, EndStacks DEF expression_fails, LoopFails, parenthesis_fails
<1>3. ASSUME NEW m \in 2 .. Len(symbol_stack),
             \/ expression_statement(t, m) \/ return_statement(t, m)
             \/ reduce_condition_calculate(t, m)
             \/ reduce_group(t, m) \/ reduce_operatorbrace(t, m)
      PROVE  WellStacked(Len(conds), status_stack', symbol_stack')
  BY <1>3, StatementStacks, ParenthesisStacks
<1> QED BY <1>1, <1>2, <1>3 DEF Expression

LEMMA StepCode ==
  ASSUME IInv, NEW t \in Token, process_token(t)
  PROVE  CodeStep
<1>1. CASE Shift(t)
  BY <1>1, KeptCode DEF Shift, code
<1>2. CASE NoRow(t)
  BY <1>2, EndCode DEF NoRow
<1>3. CASE Ignore(t)
  BY <1>3, KeptCode DEF Ignore, code
<1>4. CASE skip(t)
  BY <1>4, KeptCode DEF skip, vars, code
<1>5. CASE Header(t) \/ Body(t) \/ Variable(t) \/ Expression(t)
  BY <1>5, HeaderCode, BodyCode, VariableCode, ExpressionCode
<1>6. CASE Branching(t)
  BY <1>6, StartingCode, BranchingCode DEF Branching
<1> QED BY <1>1, <1>2, <1>3, <1>4, <1>5, <1>6 DEF process_token, Reduce

LEMMA StepStacks ==
  ASSUME IInv, NEW t \in Token, process_token(t)
  PROVE  WellStacked(Len(conds'), status_stack', symbol_stack')
<1> DEFINE Result(c) == WellStacked(c, status_stack', symbol_stack')
<1>1. Len(conds) \in Nat /\ Len(conds') \in Nat /\ Len(conds) <= Len(conds')
  BY StepCode, CodeNow DEF CodeStep, TypedCode
<1>2. Result(Len(conds)) => Result(Len(conds'))
  BY <1>1, Widen, Zenon
<1>3. WellStacked(Len(conds), status_stack, symbol_stack)
  BY Dispatch
<1>4. CASE Shift(t)
  BY <1>2, <1>4, ShiftStacks
<1>5. CASE NoRow(t) \/ Ignore(t) \/ skip(t)
  BY <1>2, <1>3, <1>5, EndStacks DEF NoRow, Ignore, skip, vars, stacks
<1>6. CASE Header(t) \/ Body(t) \/ Variable(t) \/ Expression(t)
  BY <1>2, <1>6, HeaderStacks, BodyStacks, VariableStacks, ExpressionStacks
<1>7. CASE start_while_condition(t) \/ start_if_condition(t)
  BY <1>7, StartingStacks, StartingCode
<1>8. CASE end_while_body(t) \/ end_if_body1(t) \/ check_if_body2(t) \/ end_if_body2(t)
  BY <1>2, <1>8, BranchingStacks
<1> QED BY <1>4, <1>5, <1>6, <1>7, <1>8 DEF process_token, Reduce, Branching

-----------------------------------------------------------------------------
(* What else keeps its type. *)

RestTyped == outcome \in Outcome /\ scope_count \in Nat /\ pointer_level \in Nat

\* However an expression fails, the outcome is one of those listed.
LEMMA FaultsAreOutcomes ==
  \A S, m : /\ ValueFaults(S, m) \subseteq Outcome
            /\ StepFaults(S, m) \subseteq Outcome
            /\ FallOutcomes(S) \subseteq Outcome
            /\ InvocableFaults(S, m) \subseteq Outcome
            /\ \A loads, targets : Faults(loads, targets) \subseteq Outcome
<1>1. \A loads, targets : Faults(loads, targets) \subseteq Outcome
  BY DEF Faults, Outcome
<1>2. \A S, m : ValueFaults(S, m) \subseteq Outcome
  BY <1>1 DEF ValueFaults, Outcome
<1>3. \A S, m : StepFaults(S, m) \subseteq Outcome
  BY <1>2 DEF StepFaults
<1>4. \A S, m : FallOutcomes(S) \subseteq Outcome /\ InvocableFaults(S, m) \subseteq Outcome
  BY DEF FallOutcomes, InvocableFaults, Outcome
<1> QED BY <1>1, <1>2, <1>3, <1>4

LEMMA EndRest ==
  ASSUME RestTyped, NEW o \in Outcome, End(o)
  PROVE  RestTyped'
  BY DEF RestTyped, End

LEMMA KeptRest ==
  ASSUME RestTyped, UNCHANGED <<outcome, scope_count, pointer_level>>
  PROVE  RestTyped'
  BY DEF RestTyped

LEMMA ExpressionRest ==
  ASSUME RestTyped, NEW t, Expression(t)
  PROVE  RestTyped'
<1>1. "threw" \in Outcome /\ "undefined" \in Outcome
  BY DEF Outcome
<1>2. CASE enter_parentheses(t)
  BY <1>2, KeptRest DEF enter_parentheses
<1>3. CASE push_operator(t)
  BY <1>1, <1>3, KeptRest, EndRest DEF push_operator
<1>4. CASE solve_then_push_operator(t)
  <2>1. \/ \E o \in Outcome : End(o)
        \/ UNCHANGED <<outcome, scope_count, pointer_level>>
    BY <1>1, <1>4, FaultsAreOutcomes DEF solve_then_push_operator
  <2> QED BY <2>1, KeptRest, EndRest
<1>5. CASE expression_fails(t) \/ parenthesis_fails(t)
  <2>1. \E o \in Outcome : End(o)
    BY <1>1, <1>5, FaultsAreOutcomes DEF expression_fails, LoopFails, parenthesis_fails
  <2> QED BY <2>1, EndRest
<1>6. ASSUME NEW m \in 2 .. Len(symbol_stack),
             \/ expression_statement(t, m) \/ return_statement(t, m)
             \/ reduce_condition_calculate(t, m)
             \/ reduce_group(t, m) \/ reduce_operatorbrace(t, m)
      PROVE  RestTyped'
  <2>1. CASE expression_statement(t, m)
    <3>1. \/ \E o \in Outcome : End(o)
          \/ UNCHANGED <<outcome, scope_count, pointer_level>>
      BY <2>1, FaultsAreOutcomes DEF expression_statement
    <3> QED BY <3>1, KeptRest, EndRest
  <2>2. CASE return_statement(t, m)
    <3>1. \/ \E o \in Outcome : End(o)
          \/ UNCHANGED <<outcome, scope_count, pointer_level>>
      BY <1>1, <2>2, FaultsAreOutcomes DEF return_statement
    <3> QED BY <3>1, KeptRest, EndRest
  <2>3. CASE reduce_condition_calculate(t, m)
    <3>1. \/ \E o \in Outcome : End(o)
          \/ UNCHANGED <<outcome, scope_count, pointer_level>>
      BY <1>1, <2>3, FaultsAreOutcomes DEF reduce_condition_calculate
    <3> QED BY <3>1, KeptRest, EndRest
  <2>4. CASE reduce_group(t, m)
    <3>1. \/ \E o \in Outcome : End(o)
          \/ UNCHANGED <<outcome, scope_count, pointer_level>>
      BY <1>1, <2>4, FaultsAreOutcomes DEF reduce_group
    <3> QED BY <3>1, KeptRest, EndRest
  <2>5. CASE reduce_operatorbrace(t, m)
    <3>1. \/ \E o \in Outcome : End(o)
          \/ UNCHANGED <<outcome, scope_count, pointer_level>>
      BY <1>1, <2>5, FaultsAreOutcomes DEF reduce_operatorbrace
    <3> QED BY <3>1, KeptRest, EndRest
  <2> QED BY <1>6, <2>1, <2>2, <2>3, <2>4, <2>5
<1> QED BY <1>2, <1>3, <1>4, <1>5, <1>6 DEF Expression

\* "RBRACES" is counted only where a brace is open.
LEMMA IgnoreRest ==
  ASSUME RestTyped, NEW t, Ignore(t)
  PROVE  RestTyped'
<1>1. scope_count \in Nat
  BY DEF RestTyped
<1>2. t.key = "RBRACES" => scope_count # 0
  BY DEF Ignore, Dispatched
<1>3. scope_count' = CASE t.key = "LBRACES" -> scope_count + 1
                        [] t.key = "RBRACES" -> scope_count - 1
                        [] OTHER -> scope_count
  BY DEF Ignore
<1>4. CASE t.key = "LBRACES"
  BY <1>1, <1>3, <1>4 DEF Ignore, RestTyped
<1>5. CASE t.key = "RBRACES"
  BY <1>1, <1>2, <1>3, <1>5 DEF Ignore, RestTyped
<1>6. CASE t.key \notin {"LBRACES", "RBRACES"}
  BY <1>1, <1>3, <1>6 DEF Ignore, RestTyped
<1> QED BY <1>4, <1>5, <1>6

LEMMA StepRest ==
  ASSUME RestTyped, NEW t, process_token(t)
  PROVE  RestTyped'
<1>1. "threw" \in Outcome /\ "undefined" \in Outcome
  BY DEF Outcome
<1>2. CASE Shift(t)
  BY <1>2, KeptRest DEF Shift
<1>3. CASE NoRow(t)
  BY <1>1, <1>3, EndRest DEF NoRow
<1>4. CASE Ignore(t)
  BY <1>4, IgnoreRest
<1>5. CASE skip(t)
  BY <1>5, KeptRest DEF skip, vars
<1>6. CASE Header(t)
  <2>1. CASE get_function_name(t) \/ wait_function_return_type(t)
    BY <2>1, KeptRest DEF get_function_name, wait_function_return_type
  <2>2. CASE get_argument(t)
    BY <1>1, <2>2, KeptRest, EndRest DEF get_argument
  <2>3. CASE get_function_return_type(t)
    BY <1>1, <2>3, KeptRest, EndRest DEF get_function_return_type
  <2>4. CASE function_declear(t)
    BY <1>1, <2>4, EndRest DEF function_declear
  <2> QED BY <1>6, <2>1, <2>2, <2>3, <2>4 DEF Header
<1>7. CASE Body(t)
  <2>1. \/ \E o \in Outcome : End(o)
        \/ UNCHANGED <<outcome, scope_count, pointer_level>>
    BY <1>1, <1>7 DEF Body, function_body_define_strart, has_return_type_function_define,
                      function_body_define_finished, StartBody
  <2> QED BY <2>1, KeptRest, EndRest
<1>8. CASE Variable(t)
  <2>1. \/ \E o \in Outcome : End(o)
        \/ /\ UNCHANGED <<outcome, scope_count>>
           /\ pointer_level' \in {0, pointer_level, pointer_level + 1}
    BY <1>1, <1>8 DEF Variable, define_pointer, define_variable, define_again,
                      define_finished, Define
  <2> QED BY <2>1, EndRest DEF RestTyped
<1>9. CASE Branching(t)
  <2>1. \/ \E o \in Outcome : End(o)
        \/ UNCHANGED <<outcome, scope_count, pointer_level>>
    BY <1>1, <1>9 DEF Branching, start_while_condition, end_while_body, start_if_condition,
                      end_if_body1, check_if_body2, end_if_body2
  <2> QED BY <2>1, KeptRest, EndRest
<1>10. CASE Expression(t)
  BY <1>10, ExpressionRest
<1> QED BY <1>2, <1>3, <1>4, <1>5, <1>6, <1>7, <1>8, <1>9, <1>10 DEF process_token, Reduce

-----------------------------------------------------------------------------
(* The invariant. *)

LEMMA Initially ==
  ASSUME Init
  PROVE  IInv
<1>1. /\ status_stack = <<>> /\ symbol_stack = <<>> /\ conds = <<>> /\ terms = <<>>
      /\ insert_block = 0 /\ func_param = NoFunction
      /\ outcome = "running" /\ scope_count = 0 /\ pointer_level \in Nat
  BY BoundAssumption DEF Init
<1>2. TypeOfStacks
  BY <1>1 DEF TypeOfStacks, Outcome
<1>3. TypeOfCode
  <2>1. 0 \in MaybeBlock
    BY <1>1 DEF MaybeBlock
  <2>2. NoFunction \in FuncParamOf(MaybeBlock)
    BY <2>1 DEF NoFunction, FuncParamOf
  <2>3. <<>> \in Seq(CondOf(MaybeBlock)) /\ <<>> \in Seq(Seq(SUBSET MaybeBlock))
    OBVIOUS
  <2> QED BY <1>1, <2>1, <2>2, <2>3 DEF TypeOfCode
<1>4. StacksMatch
  BY <1>1 DEF StacksMatch, Matched
<1>5. CondsExist
  BY <1>1 DEF CondsExist
<1> QED BY <1>2, <1>3, <1>4, <1>5 DEF IInv

\* IInv from what the lemmas about a step conclude.
LEMMA Together ==
  ASSUME RestTyped', CodeStep, WellStacked(Len(conds'), status_stack', symbol_stack')
  PROVE  IInv'
<1>1. TypeOfCode'
  BY DEF CodeStep, TypedCode, TypeOfCode, MaybeBlock
<1>2. symbol_stack' \in Seq(Held(Len(conds')))
  BY DEF WellStacked
<1>3. symbol_stack' \in Seq(Symbol)
  <2>1. Held(Len(conds')) \subseteq Symbol
    BY DEF Held
  <2> QED BY <1>2, <2>1
<1>4. TypeOfStacks'
  BY <1>3 DEF TypeOfStacks, RestTyped, WellStacked
<1>5. StacksMatch'
  BY DEF WellStacked, StacksMatch
<1>6. DOMAIN (conds') = 1 .. Len(conds')
  BY DEF CodeStep, TypedCode
<1>7. CondsExist'
  <2>1. \A i \in DOMAIN (symbol_stack') : symbol_stack'[i] \in Held(Len(conds'))
    BY <1>2
  <2> QED BY <1>6, <2>1 DEF CondsExist, Held
<1> QED BY <1>1, <1>4, <1>5, <1>7 DEF IInv

LEMMA Inductive ==
  ASSUME IInv, [Next]_vars
  PROVE  IInv'
<1>1. RestTyped /\ WellStacked(Len(conds), status_stack, symbol_stack)
  <2>1. RestTyped
    BY DEF IInv, TypeOfStacks, RestTyped
  <2>2. symbol_stack \in Seq(Symbol)
    BY DEF IInv, TypeOfStacks
  <2>3. \A i \in 1 .. Len(symbol_stack) : symbol_stack[i] \in Held(Len(conds))
    BY <2>2 DEF IInv, TypeOfCode, CondsExist, Held
  <2>4. symbol_stack \in Seq(Held(Len(conds)))
    BY <2>2, <2>3
  <2> QED BY <2>1, <2>4 DEF IInv, TypeOfStacks, StacksMatch, WellStacked
<1>2. CASE EndOfInput
  <2>1. End("done") /\ "done" \in Outcome
    BY <1>2 DEF EndOfInput, Outcome
  <2>2. WellStacked(Len(conds'), status_stack', symbol_stack')
    BY <1>1, <2>1 DEF End, stacks
  <2> QED BY <1>1, <2>1, <2>2, EndCode, EndRest, Together
<1>3. CASE \E t \in Token : process_token(t)
  BY <1>1, <1>3, StepCode, StepStacks, StepRest, Together
<1>4. CASE UNCHANGED vars
  <2>1. /\ UNCHANGED <<outcome, scope_count, pointer_level>>
        /\ conds' = conds /\ status_stack' = status_stack /\ symbol_stack' = symbol_stack
        /\ func_param' = func_param /\ terms' = terms /\ insert_block' = insert_block
    BY <1>4 DEF vars, stacks, code
  <2>2. CodeStep
    BY <2>1, KeptCode
  <2>3. RestTyped'
    BY <1>1, <2>1, KeptRest
  <2>4. WellStacked(Len(conds'), status_stack', symbol_stack')
    BY <1>1, <2>1
  <2> QED BY <2>2, <2>3, <2>4, Together
<1> QED BY <1>2, <1>3, <1>4 DEF Next

\* IInv holds for every source text: it is what the handlers rely on when they
\* read the tops of the two stacks.
THEOREM Invariance == Spec => []IInv
<1>1. Init => IInv
  BY Initially
<1>2. IInv /\ [Next]_vars => IInv'
  BY Inductive
<1> QED BY <1>1, <1>2, PTL DEF Spec

\* The status stack and the symbol stack stay parallel, and each handler finds
\* the symbols it takes with std::get, whatever tokens the lexer hands over.
THEOREM StacksStayMatched == Spec => []StacksMatch
<1>1. IInv => StacksMatch
  BY DEF IInv
<1> QED BY <1>1, Invariance, PTL

\* The state of the parser keeps its type: the statuses, symbols and counters, and
\* every block that the function, a condition, a branch or the builder refers to is
\* one that was created.
THEOREM StateStaysTyped == Spec => [](TypeOfStacks /\ TypeOfCode)
<1>1. IInv => TypeOfStacks /\ TypeOfCode
  BY DEF IInv
<1> QED BY <1>1, Invariance, PTL

-----------------------------------------------------------------------------
(* Counting the open scopes on the status stack. *)

\* The statuses pushed by handlers that enter a scope.
Scoped == {15, 17, 19, 21, 23, 24}

ScopedIn(ss) == {i \in DOMAIN ss : ss[i] \in Scoped}
Depth(ss) == Cardinality(ScopedIn(ss))

LEMMA DepthIsFinite ==
  ASSUME NEW S, NEW ss \in Seq(S)
  PROVE  IsFiniteSet(ScopedIn(ss)) /\ Depth(ss) \in Nat
<1>1. Len(ss) \in Nat /\ DOMAIN ss = 1 .. Len(ss)
  OBVIOUS
<1>2. IsFiniteSet(1 .. Len(ss)) /\ ScopedIn(ss) \in SUBSET (1 .. Len(ss))
  BY <1>1, FS_Interval DEF ScopedIn
<1> QED BY <1>2, FS_Subset, FS_CardinalityType DEF Depth

LEMMA DepthOfPush ==
  ASSUME NEW S, NEW ss \in Seq(S), NEW s \in S
  PROVE  Depth(Append(ss, s)) = Depth(ss) + (IF s \in Scoped THEN 1 ELSE 0)
<1> DEFINE n == Len(ss) + 1
<1>1. /\ Len(ss) \in Nat /\ DOMAIN ss = 1 .. Len(ss)
      /\ DOMAIN Append(ss, s) = 1 .. n /\ Append(ss, s)[n] = s
      /\ \A i \in 1 .. Len(ss) : Append(ss, s)[i] = ss[i]
  OBVIOUS
<1>2. 1 .. n = (1 .. Len(ss)) \cup {n} /\ n \notin 1 .. Len(ss)
  BY <1>1
<1>3. IsFiniteSet(ScopedIn(ss)) /\ Depth(ss) \in Nat
  BY DepthIsFinite
<1>4. CASE s \in Scoped
  <2>1. ScopedIn(Append(ss, s)) = ScopedIn(ss) \cup {n} /\ n \notin ScopedIn(ss)
    BY <1>1, <1>2, <1>4 DEF ScopedIn
  <2> QED BY <1>3, <1>4, <2>1, FS_AddElement DEF Depth
<1>5. CASE s \notin Scoped
  <2>1. ScopedIn(Append(ss, s)) = ScopedIn(ss)
    BY <1>1, <1>2, <1>5 DEF ScopedIn
  <2> QED BY <1>3, <1>5, <2>1 DEF Depth
<1> QED BY <1>4, <1>5

\* Cutting the stack above n takes away what is scoped there.
LEMMA DepthOfCut ==
  ASSUME NEW S, NEW ss \in Seq(S), NEW n \in 0 .. Len(ss)
  PROVE  /\ (\A i \in n + 1 .. Len(ss) : ss[i] \notin Scoped) =>
              Depth(SubSeq(ss, 1, n)) = Depth(ss)
         /\ \A k \in n + 1 .. Len(ss) :
              ss[k] \in Scoped /\ (\A i \in n + 1 .. Len(ss) : i # k => ss[i] \notin Scoped) =>
                Depth(ss) >= 1 /\ Depth(SubSeq(ss, 1, n)) = Depth(ss) - 1
<1> DEFINE cut == SubSeq(ss, 1, n)
<1>1. /\ Len(ss) \in Nat /\ DOMAIN ss = 1 .. Len(ss) /\ DOMAIN cut = 1 .. n
      /\ \A i \in 1 .. n : cut[i] = ss[i]
  OBVIOUS
<1>2. ScopedIn(cut) = {i \in ScopedIn(ss) : i <= n}
  BY <1>1 DEF ScopedIn
<1>3. IsFiniteSet(ScopedIn(ss)) /\ Depth(ss) \in Nat
  BY DepthIsFinite
<1>4. ASSUME \A i \in n + 1 .. Len(ss) : ss[i] \notin Scoped
      PROVE  Depth(cut) = Depth(ss)
  <2>1. ScopedIn(cut) = ScopedIn(ss)
    BY <1>1, <1>2, <1>4 DEF ScopedIn
  <2> QED BY <2>1 DEF Depth
<1>5. ASSUME NEW k \in n + 1 .. Len(ss), ss[k] \in Scoped,
             \A i \in n + 1 .. Len(ss) : i # k => ss[i] \notin Scoped
      PROVE  Depth(ss) >= 1 /\ Depth(cut) = Depth(ss) - 1
  <2>1. k \in ScopedIn(ss) /\ ScopedIn(cut) = ScopedIn(ss) \ {k}
    BY <1>1, <1>2, <1>5 DEF ScopedIn
  <2>2. Depth(cut) = Depth(ss) - 1
    BY <1>3, <2>1, FS_RemoveElement DEF Depth
  <2>3. Depth(cut) \in Nat
    BY <1>3, <2>1, FS_RemoveElement, FS_CardinalityType DEF Depth
  <2> QED BY <1>3, <2>2, <2>3
<1> QED BY <1>4, <1>5

-----------------------------------------------------------------------------
(* The status stack after a step. *)

\* Once an expression has begun, everything above belongs to it.
Flat(ss) ==
  \A i \in DOMAIN ss : \A j \in i .. Len(ss) : ss[i] \in {2, 7} => ss[j] \in {2, 7}

\* Above n the stack holds d entries that opened a scope.
Opens(ss, n, d) ==
  \/ d = 0 /\ \A i \in n + 1 .. Len(ss) : ss[i] \notin Scoped
  \/ /\ d = 1
     /\ \E k \in n + 1 .. Len(ss) :
          /\ ss[k] \in Scoped
          /\ \A i \in n + 1 .. Len(ss) : i # k => ss[i] \notin Scoped

LEMMA AfterCut ==
  ASSUME NEW S, NEW ss \in Seq(S), Flat(ss), NEW n \in 0 .. Len(ss),
         NEW d \in {0, 1}, Opens(ss, n, d)
  PROVE  /\ Flat(SubSeq(ss, 1, n))
         /\ Depth(ss) >= d /\ Depth(SubSeq(ss, 1, n)) = Depth(ss) - d
<1> DEFINE cut == SubSeq(ss, 1, n)
<1>1. /\ Len(ss) \in Nat /\ DOMAIN ss = 1 .. Len(ss)
      /\ Len(cut) = n /\ DOMAIN cut = 1 .. n /\ \A i \in 1 .. n : cut[i] = ss[i]
  OBVIOUS
<1> HIDE DEF cut
<1>2. Flat(cut)
  BY <1>1 DEF Flat
<1>3. Depth(ss) >= d /\ Depth(cut) = Depth(ss) - d
  BY DepthOfCut, DepthIsFinite DEF Opens, cut
<1> QED BY <1>2, <1>3 DEF cut

\* Nothing but a part of an expression stands on one.
LEMMA StandsOnExpression ==
  ASSUME NEW b \in {2, 7}, NEW s, NEW k, Fits(b, s, k)
  PROVE  s \in {2, 7}
  BY DEF Fits, StandsOn, Opening

LEMMA AfterPush ==
  ASSUME NEW ss \in Seq(Status \ {0}), Flat(ss), NEW n \in 0 .. Len(ss),
         NEW d \in {0, 1}, Opens(ss, n, d), NEW s \in Status \ {0},
         NEW c, NEW ys, WellStacked(c, Append(SubSeq(ss, 1, n), s), ys)
  PROVE  /\ Flat(Append(SubSeq(ss, 1, n), s))
         /\ Depth(ss) >= d
         /\ Depth(Append(SubSeq(ss, 1, n), s)) =
              Depth(ss) - d + (IF s \in Scoped THEN 1 ELSE 0)
<1> DEFINE cut == SubSeq(ss, 1, n)
           new == Append(cut, s)
<1>1. Flat(cut) /\ Depth(ss) >= d /\ Depth(cut) = Depth(ss) - d
  BY AfterCut
<1>2. /\ cut \in Seq(Status \ {0}) /\ Len(cut) = n /\ n \in Nat
      /\ Len(new) = n + 1 /\ DOMAIN new = 1 .. n + 1 /\ DOMAIN cut = 1 .. n
      /\ new[n + 1] = s /\ \A i \in 1 .. n : new[i] = cut[i]
  OBVIOUS
<1> HIDE DEF cut
<1>3. Depth(new) = Depth(cut) + (IF s \in Scoped THEN 1 ELSE 0)
  BY <1>2, DepthOfPush
<1> HIDE DEF new
<1>4. Fits(Below(new, n), s, ys[n + 1].key)
  <2>1. WellStacked(c, new, ys) /\ n + 1 \in 1 .. Len(new) /\ n + 1 - 1 = n
    BY <1>2 DEF cut, new
  <2> QED BY <1>2, <2>1, Entry
<1>5. n # 0 /\ new[n] \in {2, 7} => s \in {2, 7}
  BY <1>4, StandsOnExpression DEF Below
<1>6. Flat(new)
  <2> SUFFICES ASSUME NEW i \in 1 .. n + 1, NEW j \in i .. n + 1, new[i] \in {2, 7}
               PROVE  new[j] \in {2, 7}
    BY <1>2 DEF Flat
  <2>1. CASE j \in 1 .. n
    <3>1. i \in 1 .. n /\ j \in i .. n
      BY <1>2, <2>1
    <3>2. new[i] = cut[i] /\ new[j] = cut[j] /\ Len(cut) = n /\ DOMAIN cut = 1 .. n
      BY <1>2, <2>1, <3>1
    <3>3. cut[i] \in {2, 7}
      BY <3>2
    <3> QED BY <1>1, <3>1, <3>2, <3>3 DEF Flat
  <2>2. CASE j = n + 1
    <3>1. CASE i = n + 1
      BY <2>2, <3>1
    <3>2. CASE i \in 1 .. n
      <4>1. n \in i .. n /\ n \in 1 .. n
        BY <1>2, <3>2
      <4>2. new[n] \in {2, 7}
        BY <1>1, <1>2, <3>2, <4>1 DEF Flat
      <4> QED BY <1>2, <1>5, <2>2, <4>1, <4>2
    <3> QED BY <3>1, <3>2
  <2> QED BY <1>2, <2>1, <2>2
<1> QED BY <1>1, <1>3, <1>6 DEF cut, new

\* Dropping a finished "if" closes no scope.
LEMMA Start ==
  ASSUME IInv, Flat(status_stack), NEW t \in Token
  PROVE  /\ Statuses(t) \in Seq(Status \ {0}) /\ Len(Statuses(t)) \in Nat
         /\ Flat(Statuses(t)) /\ Depth(Statuses(t)) = Depth(status_stack)
<1>1. /\ status_stack \in Seq(Status \ {0}) /\ Statuses(t) \in Seq(Status \ {0})
  BY Dispatch DEF WellStacked
<1>2. CASE NoElse(t)
  <2> DEFINE n == Len(status_stack) - 1
  <2>1. /\ n \in 0 .. Len(status_stack) /\ n + 1 = Len(status_stack)
        /\ status_stack[n + 1] = 20 /\ Statuses(t) = SubSeq(status_stack, 1, n)
    BY <1>1, <1>2 DEF NoElse, Last, Statuses, Front
  <2> HIDE DEF n
  <2>2. Opens(status_stack, n, 0)
    BY <2>1 DEF Opens, Scoped
  <2>3. Flat(SubSeq(status_stack, 1, n)) /\ Depth(SubSeq(status_stack, 1, n)) = Depth(status_stack) - 0
    BY <1>1, <2>1, <2>2, AfterCut
  <2>4. Depth(status_stack) \in Nat
    BY <1>1, DepthIsFinite
  <2> QED BY <1>1, <2>1, <2>3, <2>4
<1>3. CASE ~NoElse(t)
  BY <1>1, <1>3 DEF Statuses
<1> QED BY <1>2, <1>3

\* What the handlers pop.
LEMMA TopCut ==
  ASSUME IInv, NEW t \in Token, NEW N, N = Len(Statuses(t)), CurrentStatus(t) # 0
  PROVE  /\ N \in Nat /\ N - 1 \in 0 .. N /\ Statuses(t)[N] = CurrentStatus(t)
         /\ Opens(Statuses(t), N - 1, IF CurrentStatus(t) \in Scoped THEN 1 ELSE 0)
<1>1. N \in 1 .. N /\ Statuses(t)[N] = CurrentStatus(t) /\ Statuses(t) \in Seq(Status \ {0})
  BY Dispatch DEF WellStacked
<1>2. N \in Nat /\ N - 1 \in 0 .. N /\ N - 1 + 1 .. Len(Statuses(t)) = {N}
  BY <1>1
<1> QED BY <1>1, <1>2 DEF Opens

Under(s) == IF s = 10 THEN 8 ELSE IF s = 12 THEN 11 ELSE IF s = 15 THEN 14 ELSE 21

LEMMA StandsUnder ==
  ASSUME NEW s \in {10, 12, 15, 22}, NEW b, NEW k, Fits(b, s, k)
  PROVE  b = Under(s)
<1>1. StandsOn(s, b)
  BY DEF Fits
<1> QED BY <1>1 DEF StandsOn, Under

LEMMA SecondCut ==
  ASSUME IInv, NEW t \in Token, NEW N, N = Len(Statuses(t)),
         CurrentStatus(t) \in {10, 12, 15, 22}
  PROVE  /\ N \in Nat /\ N - 2 \in 0 .. N
         /\ Opens(Statuses(t), N - 2, IF CurrentStatus(t) \in {15, 22} THEN 1 ELSE 0)
         /\ Statuses(t)[N - 1] = Under(CurrentStatus(t))
<1> DEFINE ss == Statuses(t)
<1>1. /\ WellStacked(Len(conds), ss, Symbols(t)) /\ N \in 1 .. N /\ N \in Nat
      /\ ss[N] = CurrentStatus(t)
  BY Dispatch, TopCut
<1>2. Fits(Below(ss, N - 1), ss[N], Symbols(t)[N].key)
  BY <1>1, Entry
<1>3. Below(ss, N - 1) = Under(CurrentStatus(t))
  BY <1>1, <1>2, StandsUnder
<1>4. N - 1 # 0 /\ Below(ss, N - 1) = ss[N - 1]
  BY <1>3 DEF Below, Under
<1>5. /\ N - 2 \in 0 .. N /\ N - 2 + 1 .. Len(ss) = {N - 1, N} /\ N - 1 # N
  BY <1>1, <1>4
<1> HIDE DEF ss
<1>6. Opens(ss, N - 2, IF CurrentStatus(t) \in {15, 22} THEN 1 ELSE 0)
  <2>1. CASE CurrentStatus(t) \in {10, 12}
    <3>1. \A i \in {N - 1, N} : ss[i] \notin Scoped
      BY <1>1, <1>3, <1>4, <2>1 DEF Scoped, Under
    <3> QED BY <1>5, <2>1, <3>1 DEF Opens, ss
  <2>2. CASE CurrentStatus(t) = 15
    <3>1. ss[N] \in Scoped /\ ss[N - 1] \notin Scoped
      BY <1>1, <1>3, <1>4, <2>2 DEF Scoped, Under
    <3> QED BY <1>5, <2>2, <3>1 DEF Opens, ss
  <2>3. CASE CurrentStatus(t) = 22
    <3>1. ss[N - 1] \in Scoped /\ ss[N] \notin Scoped
      BY <1>1, <1>3, <1>4, <2>3 DEF Scoped, Under
    <3> QED BY <1>5, <2>3, <3>1 DEF Opens, ss
  <2> QED BY <2>1, <2>2, <2>3
<1> QED BY <1>1, <1>3, <1>4, <1>5, <1>6 DEF ss

\* The stack after a handler that drops what is above n, d scopes among it, and
\* pushes at most one entry.
LEMMA Recount ==
  ASSUME IInv, Flat(status_stack), NEW t \in Token, process_token(t),
         NEW n \in 0 .. Len(Statuses(t)), NEW d \in {0, 1}, Opens(Statuses(t), n, d)
  PROVE  /\ status_stack' = SubSeq(Statuses(t), 1, n) =>
              /\ Flat(status_stack') /\ Depth(status_stack) >= d
              /\ Depth(status_stack') = Depth(status_stack) - d
         /\ \A s \in Status \ {0} :
              status_stack' = Append(SubSeq(Statuses(t), 1, n), s) =>
                /\ Flat(status_stack') /\ Depth(status_stack) >= d
                /\ Depth(status_stack') =
                     Depth(status_stack) - d + (IF s \in Scoped THEN 1 ELSE 0)
<1>1. /\ Statuses(t) \in Seq(Status \ {0}) /\ Flat(Statuses(t))
      /\ Depth(Statuses(t)) = Depth(status_stack)
  BY Start
<1>2. ASSUME status_stack' = SubSeq(Statuses(t), 1, n)
      PROVE  /\ Flat(status_stack') /\ Depth(status_stack) >= d
             /\ Depth(status_stack') = Depth(status_stack) - d
  BY <1>1, <1>2, AfterCut
<1>3. ASSUME NEW s \in Status \ {0}, status_stack' = Append(SubSeq(Statuses(t), 1, n), s)
      PROVE  /\ Flat(status_stack') /\ Depth(status_stack) >= d
             /\ Depth(status_stack') =
                  Depth(status_stack) - d + (IF s \in Scoped THEN 1 ELSE 0)
  <2>1. WellStacked(Len(conds'), Append(SubSeq(Statuses(t), 1, n), s), symbol_stack')
    BY <1>3, StepStacks
  <2> QED BY <1>1, <1>3, <2>1, AfterPush
<1> QED BY <1>2, <1>3

-----------------------------------------------------------------------------
(* Every step moves in the tree as it moves on the status stack. *)

Moves ==
  /\ Flat(status_stack')
  /\ \/ /\ current_node' = current_node
        /\ Depth(status_stack') = Depth(status_stack)
     \/ /\ \E x \in NodeName : current_node' = Append(current_node, x)
        /\ Depth(status_stack') = Depth(status_stack) + 1
     \/ /\ current_node' = Pop(current_node, 1)
        /\ Depth(status_stack) >= 1
        /\ Depth(status_stack') = Depth(status_stack) - 1

LEMMA KeptMoves ==
  ASSUME Flat(status_stack), UNCHANGED <<status_stack, current_node>>
  PROVE  Moves
  BY DEF Moves

LEMMA EndMoves ==
  ASSUME Flat(status_stack), NEW o, End(o)
  PROVE  Moves
  BY KeptMoves DEF End, stacks, tree

\* Entries that opened no scope are dropped, and at most one that opens none is pushed.
LEMMA StayMoves ==
  ASSUME IInv, Flat(status_stack), NEW t \in Token, process_token(t),
         NEW n \in 0 .. Len(Statuses(t)), Opens(Statuses(t), n, 0),
         current_node' = current_node,
         \/ status_stack' = SubSeq(Statuses(t), 1, n)
         \/ \E s \in Status \ {0} :
              s \notin Scoped /\ status_stack' = Append(SubSeq(Statuses(t), 1, n), s)
  PROVE  Moves
<1>1. Depth(status_stack) \in Nat
  BY Dispatch, DepthIsFinite DEF WellStacked
<1>2. CASE status_stack' = SubSeq(Statuses(t), 1, n)
  <2>1. Flat(status_stack') /\ Depth(status_stack') = Depth(status_stack) - 0
    BY <1>2, Recount
  <2> QED BY <1>1, <2>1 DEF Moves
<1>3. ASSUME NEW s \in Status \ {0}, s \notin Scoped,
             status_stack' = Append(SubSeq(Statuses(t), 1, n), s)
      PROVE  Moves
  <2>1. /\ Flat(status_stack')
        /\ Depth(status_stack') = Depth(status_stack) - 0 + (IF s \in Scoped THEN 1 ELSE 0)
    BY <1>3, Recount
  <2> QED BY <1>1, <1>3, <2>1 DEF Moves
<1> QED BY <1>2, <1>3

\* Nothing is dropped.
LEMMA Whole ==
  ASSUME NEW S, NEW ss \in Seq(S)
  PROVE  /\ Len(ss) \in 0 .. Len(ss) /\ SubSeq(ss, 1, Len(ss)) = ss
         /\ Opens(ss, Len(ss), 0) /\ Depth(ss) \in Nat
<1>1. Len(ss) \in Nat /\ SubSeq(ss, 1, Len(ss)) = ss
  OBVIOUS
<1> QED BY <1>1, DepthIsFinite DEF Opens

LEMMA WholeStack ==
  ASSUME IInv, NEW t \in Token
  PROVE  /\ Len(Statuses(t)) \in 0 .. Len(Statuses(t))
         /\ Opens(Statuses(t), Len(Statuses(t)), 0)
         /\ SubSeq(Statuses(t), 1, Len(Statuses(t))) = Statuses(t)
<1>1. Statuses(t) \in Seq(Status \ {0})
  BY Dispatch DEF WellStacked
<1> QED BY <1>1, Whole

\* The entry on top opened no scope.
LEMMA TopStays ==
  ASSUME IInv, NEW t \in Token, CurrentStatus(t) # 0, CurrentStatus(t) \notin Scoped
  PROVE  /\ Len(Statuses(t)) - 1 \in 0 .. Len(Statuses(t))
         /\ Opens(Statuses(t), Len(Statuses(t)) - 1, 0)
  BY TopCut

\* What the handlers outside bodies push.
LEMMA Pushed == \A s \in {4, 10, 14, 20, 25} : s \in Status \ {0} /\ s \notin Scoped
  BY DEF Status, Scoped

LEMMA ShiftMoves ==
  ASSUME IInv, Flat(status_stack), NEW t \in Token, Shift(t)
  PROVE  Moves
<1> DEFINE s == CurrentStatus(t)
           next == ShiftTo[s][t.key]
<1>1. s \in Status /\ t.key \in Key /\ process_token(t)
  BY Dispatch, TokenIsSymbol DEF process_token
<1>2. next # -1 /\ status_stack' = Append(Statuses(t), next) /\ current_node' = current_node
  BY DEF Shift, tree
<1>3. next \in Status /\ <<s, t.key, next>> \in ShiftRows
  BY <1>1, <1>2, ShiftToRow
<1>4. next # 0
  BY <1>1, <1>3, ShiftFits
<1>5. next \notin Scoped
  <2> HIDE DEF next, s
  <2> QED BY <1>3 DEF ShiftRows, Scoped
<1> HIDE DEF next
<1> QED BY <1>1, <1>2, <1>3, <1>4, <1>5, WholeStack, StayMoves

LEMMA HeaderMoves ==
  ASSUME IInv, Flat(status_stack), NEW t \in Token, Header(t), process_token(t)
  PROVE  Moves
<1> DEFINE N == Len(Statuses(t))
<1>1. CurrentStatus(t) \in Status /\ t.key \in Key
  BY Dispatch, TokenIsSymbol
<1>2. ASSUME CurrentStatus(t) \in {9, 10, 12, 18}
      PROVE  Statuses(t) = status_stack
  BY <1>2, Dispatch
<1>3. CASE get_function_name(t)
  <2>1. CurrentStatus(t) = 9
    BY <1>1, <1>3, Registered DEF get_function_name, On, NoEntry
  <2>2. N - 1 \in 0 .. N /\ Opens(Statuses(t), N - 1, 0)
    BY <2>1, TopStays DEF Scoped
  <2>3. status_stack' = Append(SubSeq(Statuses(t), 1, N - 1), 10) /\ current_node' = current_node
    BY <1>2, <1>3, <2>1 DEF get_function_name, Pop, tree
  <2> QED BY <2>2, <2>3, StayMoves, Pushed
<1>4. CASE get_argument(t)
  <2>1. CurrentStatus(t) = 12
    BY <1>1, <1>4, Registered DEF get_argument, On, NoEntry
  <2>2. N - 2 \in 0 .. N /\ Opens(Statuses(t), N - 2, 0)
    BY <2>1, SecondCut
  <2>3. \/ End("threw")
        \/ status_stack' = SubSeq(Statuses(t), 1, N - 2) /\ current_node' = current_node
    BY <1>2, <1>4, <2>1 DEF get_argument, Pop, tree
  <2> QED BY <2>2, <2>3, StayMoves, EndMoves
<1>5. CASE wait_function_return_type(t)
  <2>1. CurrentStatus(t) = 10
    BY <1>1, <1>5, Registered DEF wait_function_return_type, On, NoEntry
  <2>2. N - 2 \in 0 .. N /\ Opens(Statuses(t), N - 2, 0)
    BY <2>1, SecondCut
  <2>3. status_stack' = Append(SubSeq(Statuses(t), 1, N - 2), 14) /\ current_node' = current_node
    BY <1>2, <1>5, <2>1 DEF wait_function_return_type, Pop, tree
  <2> QED BY <2>2, <2>3, StayMoves, Pushed
<1>6. CASE get_function_return_type(t)
  <2>1. CurrentStatus(t) = 18
    BY <1>1, <1>6, Registered DEF get_function_return_type, On, NoEntry
  <2>2. N - 1 \in 0 .. N /\ Opens(Statuses(t), N - 1, 0)
    BY <2>1, TopStays DEF Scoped
  <2>3. \/ End("threw")
        \/ status_stack' = Append(SubSeq(Statuses(t), 1, N - 1), 25) /\ current_node' = current_node
    BY <1>2, <1>6, <2>1 DEF get_function_return_type, Pop, tree
  <2> QED BY <2>2, <2>3, StayMoves, EndMoves, Pushed
<1>7. CASE function_declear(t)
  BY <1>7, EndMoves DEF function_declear
<1> QED BY <1>3, <1>4, <1>5, <1>6, <1>7 DEF Header

LEMMA VariableMoves ==
  ASSUME IInv, Flat(status_stack), NEW t \in Token, Variable(t), process_token(t)
  PROVE  Moves
<1> DEFINE N == Len(Statuses(t))
<1>1. CurrentStatus(t) \in Status /\ t.key \in Key
  BY Dispatch, TokenIsSymbol
<1>2. ASSUME CurrentStatus(t) \in {3, 4, 5}
      PROVE  /\ Statuses(t) = status_stack
             /\ N - 1 \in 0 .. N /\ Opens(Statuses(t), N - 1, 0)
  BY <1>2, Dispatch, TopStays DEF Scoped
<1>3. CASE define_pointer(t)
  BY <1>3, KeptMoves DEF define_pointer, stacks, tree
<1>4. CASE define_variable(t)
  <2>1. CurrentStatus(t) = 3
    BY <1>1, <1>4, Registered DEF define_variable, On, NoEntry
  <2>2. \/ End("threw")
        \/ status_stack' = Append(SubSeq(Statuses(t), 1, N - 1), 4) /\ current_node' = current_node
    BY <1>2, <1>4, <2>1 DEF define_variable, Define, Pop
  <2> QED BY <1>2, <2>1, <2>2, StayMoves, EndMoves, Pushed
<1>5. CASE define_again(t)
  <2>1. CurrentStatus(t) = 5
    BY <1>1, <1>5, Registered DEF define_again, On, NoEntry
  <2>2. \/ End("threw")
        \/ status_stack' = SubSeq(Statuses(t), 1, N - 1) /\ current_node' = current_node
    BY <1>2, <1>5, <2>1 DEF define_again, Define, Pop
  <2> QED BY <1>2, <2>1, <2>2, StayMoves, EndMoves
<1>6. CASE define_finished(t)
  <2>1. CurrentStatus(t) = 4
    BY <1>1, <1>6, Registered DEF define_finished, On, NoEntry
  <2>2. status_stack' = SubSeq(Statuses(t), 1, N - 1) /\ current_node' = current_node
    BY <1>2, <1>6, <2>1 DEF define_finished, Pop, tree
  <2> QED BY <1>2, <2>1, <2>2, StayMoves
<1> QED BY <1>3, <1>4, <1>5, <1>6 DEF Variable

\* Below the operand on top, what stands beside an operator is of an expression.
LEMMA OperatorCarries ==
  ASSUME NEW c, NEW ss, NEW ys, WellStacked(c, ss, ys), ss[Len(ss)] = 2,
         NEW i \in 1 .. Len(ss) - 1, ys[i].key \in Punchation, ys[i].key # "LBRACES"
  PROVE  ss[i] \in {2, 7} /\ i - 1 \in 1 .. Len(ss) /\ ss[i - 1] \in {2, 7}
<1> DEFINE n == Len(ss)
<1>1. /\ n \in Nat /\ n \in 1 .. n /\ i \in 1 .. n - 1 /\ i \in 1 .. n /\ ss[n] = 2
      /\ \A j \in 1 .. n : ss[j] \in Status \ {0}
  BY DEF WellStacked
<1>2. ss[i] \in {2, 7} \/ (i = 2 /\ ss[i] = 10 /\ ss[i + 1] = 11)
  BY Carries
<1>3. ASSUME i = 2, ss[3] = 11 PROVE FALSE
  <2>1. n # 3 /\ 4 \in 1 .. n /\ 4 - 1 = 3 /\ 3 \in 1 .. n
    BY <1>1, <1>3
  <2>2. Fits(ss[3], ss[4], ys[4].key)
    BY <2>1, Entry
  <2>3. ss[4] = 12
    BY <1>3, <2>2, Tops
  <2>4. n # 4 /\ 5 \in 1 .. n /\ 5 - 1 = 4
    BY <1>1, <2>1, <2>3
  <2>5. Fits(ss[4], ss[5], ys[5].key)
    BY <2>1, <2>4, Entry
  <2> QED BY <2>3, <2>5, Tops
<1>4. ss[i] \in {2, 7}
  BY <1>2, <1>3
<1>5. Fits(Below(ss, i - 1), ss[i], ys[i].key)
  BY <1>1, Entry
<1>6. Below(ss, i - 1) \in {2, 7}
  BY <1>4, <1>5, OnExpression
<1> QED BY <1>1, <1>4, <1>6 DEF Below

\* The operands and operators that a solving step or the loop absorbs.
Absorbs(S, m) == m = Len(S) \/ (Alternates(S, m) /\ S[m + 1].key \in Prioritised)

LEMMA StartAbsorbs ==
  ASSUME NEW c, NEW S \in Seq(Held(c)), NEW last, NEW m \in 2 .. Len(S),
         StepStart(S, last, m) \/ LoopStart(S, last, m)
  PROVE  Absorbs(S, m)
<1>1. CASE m = Len(S)
  BY <1>1 DEF Absorbs
<1>2. CASE m # Len(S)
  <2>1. Alternates(S, m) /\ \A i \in OperatorsFrom(S, m) : S[i].key \in Prioritised
    BY <1>2 DEF StepStart, LoopStart, Reaches, Accepts
  <2>2. m + 1 \in OperatorsFrom(S, m)
    BY <1>2 DEF OperatorsFrom
  <2> QED BY <2>1, <2>2 DEF Absorbs
<1> QED BY <1>1, <1>2

LEMMA ExpressionSuffix ==
  ASSUME NEW c, NEW ss, NEW ys, WellStacked(c, ss, ys), Flat(ss), ss[Len(ss)] = 2,
         NEW m \in 2 .. Len(ss), Absorbs(ys, m)
  PROVE  \A i \in m .. Len(ss) : ss[i] \in {2, 7}
<1>1. Len(ys) = Len(ss) /\ Len(ss) \in Nat /\ DOMAIN ss = 1 .. Len(ss)
  BY DEF WellStacked, Matched
<1>2. CASE m = Len(ss)
  BY <1>1, <1>2
<1>3. CASE m # Len(ss)
  <2>1. ys[m + 1].key \in Punchation /\ ys[m + 1].key # "LBRACES"
    <3>1. ys[m + 1].key \in Prioritised /\ m + 1 \in OperatorsFrom(ys, m) /\ Alternates(ys, m)
      BY <1>1, <1>3 DEF Absorbs, OperatorsFrom
    <3>2. "LBRACES" \notin Prioritised
      BY DEF Prioritised, PriorityRows, AssignOp
    <3> QED BY <3>1, <3>2 DEF Alternates
  <2>2. m + 1 \in 1 .. Len(ss)
    BY <1>1, <1>3
  <2>3. CASE m + 1 = Len(ss)
    <3>1. Fits(Below(ss, m + 1 - 1), 2, ys[m + 1].key)
      BY <2>2, <2>3, Entry
    <3>2. Below(ss, m + 1 - 1) \in {2, 7}
      BY <2>1, <3>1, OnExpression
    <3> QED BY <1>1, <2>3, <3>2 DEF Below
  <2>4. CASE m + 1 # Len(ss)
    <3>1. m + 1 \in 1 .. Len(ss) - 1 /\ m + 1 - 1 = m
      BY <1>1, <2>2, <2>4
    <3>2. ss[m] \in {2, 7}
      BY <2>1, <3>1, OperatorCarries
    <3> QED BY <1>1, <3>2 DEF Flat
  <2> QED BY <2>3, <2>4
<1> QED BY <1>2, <1>3

\* A handler of an expression whose status is 2 works on these stacks.
LEMMA InExpression ==
  ASSUME IInv, Flat(status_stack), NEW t \in Token, CurrentStatus(t) = 2
  PROVE  /\ Statuses(t) = status_stack /\ status_stack \in Seq(Status \ {0})
         /\ symbol_stack \in Seq(Held(Len(conds)))
         /\ WellStacked(Len(conds), status_stack, symbol_stack)
         /\ Len(symbol_stack) = Len(status_stack) /\ Len(status_stack) \in Nat
         /\ DOMAIN status_stack = 1 .. Len(status_stack)
         /\ status_stack[Len(status_stack)] = 2
<1>1. /\ Statuses(t) = status_stack /\ WellStacked(Len(conds), status_stack, symbol_stack)
      /\ Len(symbol_stack) = Len(status_stack) /\ status_stack[Len(status_stack)] = 2
  BY Dispatch, ExpressionTop
<1> QED BY <1>1 DEF WellStacked

LEMMA OperatorMoves ==
  ASSUME IInv, Flat(status_stack), NEW t \in Token, process_token(t),
         enter_parentheses(t) \/ push_operator(t) \/ solve_then_push_operator(t)
  PROVE  Moves
<1>1. CurrentStatus(t) \in Status /\ t.key \in Key
  BY Dispatch, TokenIsSymbol
<1>2. 7 \in Status \ {0} /\ 7 \notin Scoped /\ 2 \notin Scoped
  BY DEF Status, Scoped
<1>3. ASSUME enter_parentheses(t) PROVE Moves
  <2>1. CurrentStatus(t) \in {2, 7}
    BY <1>1, <1>3, Registered DEF enter_parentheses, On, NoEntry
  <2>2. Statuses(t) = status_stack
    BY <2>1, Dispatch
  <2>3. status_stack' = Append(Statuses(t), 7) /\ current_node' = current_node
    BY <1>3, <2>2 DEF enter_parentheses, tree
  <2> QED BY <1>2, <2>3, WholeStack, StayMoves
<1>4. ASSUME OnOperator(t) PROVE CurrentStatus(t) = 2
  BY <1>1, <1>4, Registered DEF OnOperator, On, NoEntry
<1>5. ASSUME push_operator(t) PROVE Moves
  <2>1. CASE \E o : End(o)
    BY <2>1, EndMoves
  <2>2. CASE status_stack' = Append(status_stack, 7) /\ current_node' = current_node
    <3>1. Statuses(t) = status_stack
      BY <1>4, <1>5, InExpression DEF push_operator
    <3> QED BY <1>2, <2>2, <3>1, WholeStack, StayMoves
  <2> QED BY <1>5, <2>1, <2>2 DEF push_operator, tree
<1>6. ASSUME solve_then_push_operator(t) PROVE Moves
  <2>1. CASE \E o : End(o)
    BY <2>1, EndMoves
  <2>2. ASSUME NEW m \in 2 .. Len(symbol_stack), StepStart(symbol_stack, last_priority, m),
               status_stack' = Append(Reduced(status_stack, m, 2), 7),
               symbol_stack' = Append(Reduced(symbol_stack, m, Value), Lexeme(t)),
               current_node' = current_node
        PROVE  Moves
    <3> DEFINE ss == status_stack
    <3>1. CurrentStatus(t) = 2
      BY <1>4, <1>6 DEF solve_then_push_operator
    <3>2. /\ Statuses(t) = ss /\ ss \in Seq(Status \ {0})
          /\ Len(symbol_stack) = Len(ss) /\ Len(ss) \in Nat /\ DOMAIN ss = 1 .. Len(ss)
      BY <3>1, InExpression
    <3>3. CASE m = Len(ss)
      BY <1>2, <2>2, <3>2, <3>3, WholeStack, StayMoves DEF Reduced
    <3>4. CASE m # Len(ss)
      \* As if the value had been pushed first and the operator then.
      <4>1. \A i \in m .. Len(ss) : ss[i] \in {2, 7}
        BY <2>2, <3>1, <3>2, InExpression, StartAbsorbs, ExpressionSuffix
      <4>2. Opens(ss, m - 1, 0) /\ m - 1 \in 0 .. Len(ss) /\ 0 \in {0, 1}
        BY <3>2, <4>1 DEF Opens, Scoped
      <4> DEFINE mid == Append(SubSeq(ss, 1, m - 1), 2)
      <4>3. Reduced(ss, m, 2) = mid /\ mid \in Seq(Status \ {0})
        <5>1. SubSeq(ss, 1, m - 1) \in Seq(Status \ {0}) /\ 2 \in Status \ {0}
          BY <3>2, <4>2 DEF Status
        <5> QED BY <3>4, <5>1, AppendIsConcat DEF Reduced
      <4>4. WellStacked(Len(conds), mid, Reduced(symbol_stack, m, Value))
        BY <2>2, <3>1, <3>2, <4>3, InExpression, ReducedStacks DEF StepStart
      <4>5. Flat(mid) /\ Depth(mid) = Depth(ss)
        <5>1. 2 \in Status \ {0} /\ Flat(ss)
          BY DEF Status
        <5>2. Depth(mid) = Depth(ss) - 0 + 0 /\ Flat(mid)
          BY <1>2, <3>2, <4>2, <4>4, <5>1, AfterPush
        <5>3. Depth(ss) \in Nat
          BY <3>2, DepthIsFinite
        <5> QED BY <5>2, <5>3
      <4>6. /\ Len(mid) \in 0 .. Len(mid) /\ SubSeq(mid, 1, Len(mid)) = mid
            /\ Opens(mid, Len(mid), 0) /\ Depth(mid) \in Nat
        BY <4>3, Whole
      <4>7. WellStacked(Len(conds'), Append(SubSeq(mid, 1, Len(mid)), 7), symbol_stack')
        BY <2>2, <4>3, <4>6, StepStacks
      <4> HIDE DEF mid
      <4>8. Flat(Append(mid, 7)) /\ Depth(Append(mid, 7)) = Depth(mid) - 0 + 0
        <5> DEFINE k == Len(mid)
        <5>1. /\ k \in 0 .. Len(mid) /\ Opens(mid, k, 0) /\ Flat(mid) /\ 0 \in {0, 1}
              /\ WellStacked(Len(conds'), Append(SubSeq(mid, 1, k), 7), symbol_stack')
          BY <4>5, <4>6, <4>7
        <5> HIDE DEF k
        <5>2. /\ Flat(Append(SubSeq(mid, 1, k), 7))
              /\ Depth(Append(SubSeq(mid, 1, k), 7)) = Depth(mid) - 0 + 0
          BY <1>2, <4>3, <5>1, AfterPush
        <5> QED BY <4>6, <5>2 DEF k
      <4> QED BY <2>2, <4>3, <4>5, <4>6, <4>8 DEF Moves
    <3> QED BY <3>3, <3>4
  <2> QED BY <1>6, <2>1, <2>2 DEF solve_then_push_operator
<1> QED BY <1>3, <1>5, <1>6

LEMMA StatementMoves ==
  ASSUME IInv, Flat(status_stack), NEW t \in Token, process_token(t),
         NEW m \in 2 .. Len(symbol_stack),
         \/ expression_statement(t, m) \/ return_statement(t, m)
         \/ reduce_condition_calculate(t, m)
  PROVE  Moves
<1> DEFINE ss == status_stack
           n == Len(status_stack)
<1>1. CurrentStatus(t) = 2
  <2>1. CurrentStatus(t) \in Status /\ t.key \in Key
    BY Dispatch, TokenIsSymbol
  <2>2. On(t, "check_priority") \/ On(t, "reduce_condition_calculate")
    BY DEF expression_statement, return_statement, reduce_condition_calculate, OnSemicolon
  <2> QED BY <2>1, <2>2, Registered DEF On, NoEntry
<1>2. /\ Statuses(t) = ss /\ ss \in Seq(Status \ {0}) /\ symbol_stack \in Seq(Held(Len(conds)))
      /\ WellStacked(Len(conds), ss, symbol_stack)
      /\ Len(symbol_stack) = n /\ n \in Nat /\ DOMAIN ss = 1 .. n /\ ss[n] = 2
  BY <1>1, InExpression
<1>3. m \in 2 .. n /\ LoopStart(symbol_stack, last_priority, m)
  BY <1>2 DEF expression_statement, return_statement, reduce_condition_calculate, OnSemicolon
<1>4. \A i \in m .. n : ss[i] \in {2, 7}
  BY <1>2, <1>3, StartAbsorbs, ExpressionSuffix
<1>5. CASE \E o : End(o)
  BY <1>5, EndMoves
<1>6. ASSUME expression_statement(t, m) PROVE Moves
  <2>1. ASSUME NEW k \in 0 .. m - 1, m - 1 - 2 * k > 0,
               \A i \in 0 .. k - 1 : symbol_stack[m - 1 - 2 * i].key = "COMMA",
               status_stack' = SubSeq(status_stack, 1, m - 1 - 2 * k),
               current_node' = current_node
        PROVE  Moves
    <3> DEFINE c == m - 1 - 2 * k
    <3>1. c \in 0 .. n /\ c \in Nat
      BY <1>2, <1>3, <2>1
    <3>2. \A i \in c + 1 .. n : ss[i] \in {2, 7}
      <4>1. CASE k = 0
        BY <1>3, <1>4, <4>1
      <4>2. CASE k # 0
        \* The lowest comma and the operand below it.
        <5> DEFINE j == c + 2
        <5>1. k - 1 \in 0 .. k - 1 /\ m - 1 - 2 * (k - 1) = j
          BY <1>3, <2>1, <4>2
        <5>2. symbol_stack[j].key = "COMMA"
          <6>1. symbol_stack[m - 1 - 2 * (k - 1)].key = "COMMA"
            BY <2>1, <5>1
          <6> QED BY <5>1, <6>1
        <5>3. j \in 1 .. n - 1 /\ j - 1 = c + 1
          BY <1>2, <1>3, <2>1, <3>1, <4>2
        <5>4. c + 1 \in 1 .. n /\ ss[c + 1] \in {2, 7}
          BY <1>2, <5>2, <5>3, OperatorCarries, Keys
        <5> QED BY <1>2, <5>4 DEF Flat
      <4> QED BY <4>1, <4>2
    <3>3. Opens(ss, c, 0)
      BY <3>2 DEF Opens, Scoped
    <3> QED BY <1>2, <2>1, <3>1, <3>3, StayMoves
  <2>2. \/ \E o : End(o)
        \/ /\ current_node' = current_node
           /\ \E k \in 0 .. m - 1 :
                /\ m - 1 - 2 * k > 0
                /\ \A i \in 0 .. k - 1 : symbol_stack[m - 1 - 2 * i].key = "COMMA"
                /\ status_stack' = SubSeq(status_stack, 1, m - 1 - 2 * k)
    <3>1. \/ \E o \in StepFaults(symbol_stack, m) : End(o)
          \/ /\ \E k \in 0 .. m - 1 :
                  /\ m - 1 - 2 * k > 0
                  /\ \A i \in 0 .. k - 1 : symbol_stack[m - 1 - 2 * i].key = "COMMA"
                  /\ symbol_stack[m - 1 - 2 * k].key # "COMMA"
                  /\ symbol_stack' = SubSeq(symbol_stack, 1, m - 1 - 2 * k)
                  /\ status_stack' = SubSeq(status_stack, 1, m - 1 - 2 * k)
             /\ current_node' = current_node
      BY <1>6, Zenon DEF expression_statement
    <3> QED BY <3>1
  <2> QED BY <1>5, <2>1, <2>2
<1>7. ASSUME return_statement(t, m) PROVE Moves
  <2>1. m - 2 \in 0 .. n /\ ss[m - 1] = 16
    BY <1>3, <1>7 DEF return_statement
  <2>2. Opens(ss, m - 2, 0)
    <3>1. \A i \in m - 2 + 1 .. n : i = m - 1 \/ i \in m .. n
      BY <1>2, <1>3
    <3> QED BY <1>4, <2>1, <3>1 DEF Opens, Scoped
  <2>3. \/ \E o : End(o)
        \/ status_stack' = SubSeq(status_stack, 1, m - 2) /\ current_node' = current_node
    BY <1>7 DEF return_statement
  <2> QED BY <1>2, <1>5, <2>1, <2>2, <2>3, StayMoves
<1>8. ASSUME reduce_condition_calculate(t, m) PROVE Moves
  <2>1. \/ \E o : End(o)
        \/ /\ current_node' = current_node
           /\ \/ ss[m - 1] = 17 /\ status_stack' = Append(SubSeq(ss, 1, m - 2), 19)
              \/ ss[m - 1] = 23 /\ status_stack' = Append(SubSeq(ss, 1, m - 2), 24)
              \/ status_stack' = SubSeq(ss, 1, m - 1)
    BY <1>8 DEF reduce_condition_calculate
  <2>2. ASSUME NEW s \in {19, 24}, ss[m - 1] \in {17, 23}, current_node' = current_node,
               status_stack' = Append(SubSeq(ss, 1, m - 2), s)
        PROVE  Moves
    <3>1. m - 2 \in 0 .. n /\ m - 1 \in m - 2 + 1 .. n /\ 1 \in {0, 1}
      BY <1>2, <1>3
    <3>2. Opens(ss, m - 2, 1)
      <4>1. \A i \in m - 2 + 1 .. n : i = m - 1 \/ i \in m .. n
        BY <1>2, <1>3
      <4>2. \A i \in m - 2 + 1 .. n : i # m - 1 => ss[i] \notin Scoped
        BY <1>4, <4>1 DEF Scoped
      <4>3. ss[m - 1] \in Scoped
        BY <2>2 DEF Scoped
      <4> QED BY <3>1, <4>2, <4>3 DEF Opens
    <3>3. s \in Status \ {0} /\ s \in Scoped
      BY DEF Status, Scoped
    <3>4. Flat(status_stack') /\ Depth(status_stack') = Depth(status_stack) - 1 + 1
      BY <1>2, <2>2, <3>1, <3>2, <3>3, Recount
    <3>5. Depth(status_stack) \in Nat
      BY <1>2, DepthIsFinite
    <3> QED BY <2>2, <3>4, <3>5 DEF Moves
  <2>3. ASSUME status_stack' = SubSeq(ss, 1, m - 1), current_node' = current_node
        PROVE  Moves
    <3>1. m - 1 \in 0 .. n /\ m - 1 + 1 = m
      BY <1>3
    <3>2. Opens(ss, m - 1, 0)
      BY <1>4, <3>1 DEF Opens, Scoped
    <3> QED BY <1>2, <2>3, <3>1, <3>2, StayMoves
  <2> QED BY <1>5, <2>1, <2>2, <2>3
<1> QED BY <1>6, <1>7, <1>8

LEMMA ParenthesisMoves ==
  ASSUME IInv, Flat(status_stack), NEW t \in Token, process_token(t),
         NEW q \in 2 .. Len(symbol_stack), reduce_group(t, q) \/ reduce_operatorbrace(t, q)
  PROVE  Moves
<1> DEFINE ss == status_stack
           n == Len(status_stack)
<1>1. CurrentStatus(t) = 2 /\ symbol_stack[q].key = "("
  <2>1. CurrentStatus(t) \in Status /\ t.key \in Key
    BY Dispatch, TokenIsSymbol
  <2>2. OnParenthesis(t, q)
    BY DEF reduce_group, reduce_operatorbrace
  <2> QED BY <2>1, <2>2, Registered DEF OnParenthesis, On, NoEntry
<1>2. /\ Statuses(t) = ss /\ ss \in Seq(Status \ {0})
      /\ WellStacked(Len(conds), ss, symbol_stack)
      /\ Len(symbol_stack) = n /\ n \in Nat /\ DOMAIN ss = 1 .. n /\ ss[n] = 2
  BY <1>1, InExpression
<1>3. q < n /\ Below(ss, q - 1) \in {2, 7}
  BY <1>1, <1>2, OpenParenthesis
<1>4. q - 1 \in 1 .. n /\ ss[q - 1] \in {2, 7}
  BY <1>2, <1>3 DEF Below
<1>5. \A i \in q - 1 .. n : ss[i] \in {2, 7}
  BY <1>2, <1>4 DEF Flat
<1>6. /\ q - 1 \in 0 .. n /\ q - 2 \in 0 .. n
      /\ Opens(ss, q - 1, 0) /\ Opens(ss, q - 2, 0)
  <2>1. /\ q - 1 \in 0 .. n /\ q - 2 \in 0 .. n
        /\ \A i \in q - 1 + 1 .. n : i \in q - 1 .. n
        /\ \A i \in q - 2 + 1 .. n : i \in q - 1 .. n
    BY <1>2, <1>4
  <2>2. /\ \A i \in q - 1 + 1 .. n : ss[i] \notin Scoped
        /\ \A i \in q - 2 + 1 .. n : ss[i] \notin Scoped
    <3>1. \A i \in q - 1 .. n : ss[i] \notin Scoped
      BY <1>5 DEF Scoped
    <3> HIDE DEF ss
    <3> QED BY <2>1, <3>1
  <2> QED BY <2>1, <2>2 DEF Opens
<1>7. 2 \in Status \ {0} /\ 2 \notin Scoped
  BY DEF Status, Scoped
<1>8. \/ \E o : End(o)
      \/ /\ current_node' = current_node
         /\ \/ status_stack' = Append(SubSeq(ss, 1, q - 1), 2)
            \/ status_stack' = Append(SubSeq(ss, 1, q - 2), 2)
  BY DEF reduce_group, reduce_operatorbrace, tree
<1> QED BY <1>2, <1>6, <1>7, <1>8, EndMoves, StayMoves

LEMMA ExpressionMoves ==
  ASSUME IInv, Flat(status_stack), NEW t \in Token, process_token(t), Expression(t)
  PROVE  Moves
<1>1. CASE enter_parentheses(t) \/ push_operator(t) \/ solve_then_push_operator(t)
  BY <1>1, OperatorMoves
<1>2. CASE expression_fails(t) \/ parenthesis_fails(t)
  BY <1>2, EndMoves DEF expression_fails, LoopFails, parenthesis_fails
<1>3. ASSUME NEW m \in 2 .. Len(symbol_stack),
             \/ expression_statement(t, m) \/ return_statement(t, m)
             \/ reduce_condition_calculate(t, m)
             \/ reduce_group(t, m) \/ reduce_operatorbrace(t, m)
      PROVE  Moves
  BY <1>3, StatementMoves, ParenthesisMoves
<1> QED BY <1>1, <1>2, <1>3 DEF Expression

-----------------------------------------------------------------------------
(* The tree. *)

\* A tree of scopes whose anonymous children were named by counting.
TreeOf(nodes) ==
  /\ DOMAIN nodes \subseteq Path
  /\ \A p \in DOMAIN nodes :
       /\ nodes[p] \in Node
       /\ SubSeq(p, 1, Len(p) - 1) \in DOMAIN nodes
       /\ \A n \in Nat : Append(p, Anon(n)) \in DOMAIN nodes => n < nodes[p].name_no

InTree == TreeOf(scopes) /\ current_node \in DOMAIN scopes

\* The scopes that handlers enter.
LEMMA ChildNames ==
  ASSUME IInv, InTree
  PROVE  /\ current_node \in Path
         /\ scopes[current_node].name_no \in Nat
         /\ Anon(scopes[current_node].name_no) \in NodeName
         /\ Mangled(func_param.name, Len(func_param.arg)) \in NodeName
<1>1. current_node \in Path /\ scopes[current_node].name_no \in Nat
  BY DEF InTree, TreeOf, Node
<1>2. func_param.name \in Name \cup {""} /\ Len(func_param.arg) \in Nat
  <2>1. /\ func_param.name \in Name \cup {""}
        /\ func_param.arg \in Seq([name : Name \cup {""}, typed : BOOLEAN])
    BY DEF IInv, TypeOfCode, FuncParamOf
  <2>2. \A S : \A a \in Seq(S) : Len(a) \in Nat
    OBVIOUS
  <2> QED BY <2>1, <2>2
<1> QED BY <1>1, <1>2 DEF Anon, Mangled, NodeName

LEMMA BodyMoves ==
  ASSUME IInv, InTree, Flat(status_stack), NEW t \in Token, process_token(t), Body(t)
  PROVE  Moves
<1> DEFINE N == Len(Statuses(t))
<1>1. CurrentStatus(t) \in Status /\ t.key \in Key
  BY Dispatch, TokenIsSymbol
<1>2. 15 \in Status \ {0} /\ 15 \in Scoped /\ 14 \notin Scoped /\ 25 \notin Scoped
      /\ 0 \in {0, 1} /\ 1 \in {0, 1}
  BY DEF Status, Scoped
<1>3. Depth(status_stack) \in Nat
  BY Dispatch, DepthIsFinite DEF WellStacked
<1>4. ASSUME NEW n \in 0 .. N, Opens(Statuses(t), n, 0), current_node' = FunctionScope,
             status_stack' = Append(SubSeq(Statuses(t), 1, n), 15)
      PROVE  Moves
  <2>1. /\ Flat(status_stack')
        /\ Depth(status_stack') = Depth(status_stack) - 0 + 1
    BY <1>2, <1>4, Recount
  <2> QED BY <1>3, <1>4, <2>1, ChildNames DEF Moves, FunctionScope
<1>5. CASE function_body_define_strart(t)
  <2>1. CurrentStatus(t) = 14
    BY <1>1, <1>5, Registered DEF function_body_define_strart, On, NoEntry
  <2>2. Statuses(t) = status_stack
    BY <2>1, Dispatch
  <2>3. \/ End("undefined")
        \/ current_node' = FunctionScope /\ status_stack' = Append(Statuses(t), 15)
    BY <1>5, <2>2 DEF function_body_define_strart, StartBody
  <2>4. CASE current_node' = FunctionScope /\ status_stack' = Append(Statuses(t), 15)
    BY <1>4, <2>4, WholeStack
  <2> QED BY <2>3, <2>4, EndMoves
<1>6. CASE has_return_type_function_define(t)
  <2>1. CurrentStatus(t) = 25
    BY <1>1, <1>6, Registered DEF has_return_type_function_define, On, NoEntry
  <2>2. Statuses(t) = status_stack
    BY <2>1, Dispatch
  <2>3. \/ End("undefined")
        \/ /\ current_node' = FunctionScope
           /\ status_stack' = Append(SubSeq(Statuses(t), 1, N - 1), 15)
    BY <1>6, <2>2 DEF has_return_type_function_define, StartBody, Pop
  <2>4. N - 1 \in 0 .. N /\ Opens(Statuses(t), N - 1, 0)
    BY <1>2, <2>1, TopStays
  <2> QED BY <1>4, <2>3, <2>4, EndMoves
<1>7. CASE function_body_define_finished(t)
  <2>1. CurrentStatus(t) = 15
    BY <1>1, <1>7, Registered DEF function_body_define_finished, On, NoEntry
  <2>2. N - 2 \in 0 .. N /\ Opens(Statuses(t), N - 2, 1)
    BY <2>1, SecondCut
  <2>3. status_stack' = SubSeq(Statuses(t), 1, N - 2) /\ current_node' = Pop(current_node, 1)
    BY <1>7 DEF function_body_define_finished, Pop, leave_scope
  <2>4. /\ Flat(status_stack') /\ Depth(status_stack) >= 1
        /\ Depth(status_stack') = Depth(status_stack) - 1
    BY <1>2, <2>2, <2>3, Recount
  <2> QED BY <2>3, <2>4 DEF Moves
<1> QED BY <1>5, <1>6, <1>7 DEF Body

LEMMA BranchingMoves ==
  ASSUME IInv, InTree, Flat(status_stack), NEW t \in Token, process_token(t), Branching(t)
  PROVE  Moves
<1> DEFINE N == Len(Statuses(t))
           Enters == \E x \in NodeName : current_node' = Append(current_node, x)
           Leaves == current_node' = Pop(current_node, 1)
<1>1. CurrentStatus(t) \in Status /\ t.key \in Key
  BY Dispatch, TokenIsSymbol
<1>2. /\ \A s \in {17, 19, 21, 23, 24} : s \in Scoped /\ s \in Status \ {0}
      /\ \A s \in {20, 22} : s \notin Scoped
      /\ 20 \in Status \ {0} /\ 0 \in {0, 1} /\ 1 \in {0, 1}
  BY DEF Status, Scoped
<1>3. Depth(status_stack) \in Nat
  BY Dispatch, DepthIsFinite DEF WellStacked
<1>4. EnterAnonymous => Enters
  BY ChildNames DEF EnterAnonymous
<1> HIDE DEF Enters
<1>5. CASE start_while_condition(t) \/ start_if_condition(t)
  <2>1. Enters /\ \E s \in {17, 23} : status_stack' = Append(Statuses(t), s)
    BY <1>4, <1>5 DEF start_while_condition, start_if_condition
  <2>2. PICK s \in {17, 23} : status_stack' = Append(Statuses(t), s)
    BY <2>1
  <2>3. Flat(status_stack') /\ Depth(status_stack') = Depth(status_stack) - 0 + 1
    BY <1>2, <2>2, WholeStack, Recount
  <2> QED BY <1>3, <2>1, <2>3 DEF Moves, Enters
<1>6. CASE end_while_body(t)
  <2>1. CurrentStatus(t) = 24
    BY <1>1, <1>6, Registered DEF end_while_body, On, NoEntry
  <2>2. N - 1 \in 0 .. N /\ Opens(Statuses(t), N - 1, 1)
    BY <1>2, <2>1, TopCut
  <2>3. status_stack' = SubSeq(Statuses(t), 1, N - 1) /\ Leaves
    BY <1>6 DEF end_while_body, Pop, leave_scope
  <2>4. /\ Flat(status_stack') /\ Depth(status_stack) >= 1
        /\ Depth(status_stack') = Depth(status_stack) - 1
    BY <1>2, <2>2, <2>3, Recount
  <2> QED BY <2>3, <2>4 DEF Moves
<1>7. CASE end_if_body1(t)
  <2>1. CurrentStatus(t) = 19
    BY <1>1, <1>7, Registered DEF end_if_body1, On, NoEntry
  <2>2. N - 1 \in 0 .. N /\ Opens(Statuses(t), N - 1, 1)
    BY <1>2, <2>1, TopCut
  <2>3. status_stack' = Append(SubSeq(Statuses(t), 1, N - 1), 20) /\ Leaves
    BY <1>7 DEF end_if_body1, Pop, leave_scope
  <2>4. /\ Flat(status_stack') /\ Depth(status_stack) >= 1
        /\ Depth(status_stack') = Depth(status_stack) - 1 + 0
    BY <1>2, <2>2, <2>3, Recount
  <2> QED BY <1>3, <2>3, <2>4 DEF Moves
<1>8. CASE check_if_body2(t)
  <2>1. CurrentStatus(t) = 20
    BY <1>1, <1>8, Registered DEF check_if_body2, On, NoEntry
  <2>2. N - 1 \in 0 .. N /\ Opens(Statuses(t), N - 1, 0)
    BY <1>2, <2>1, TopStays
  <2>3. status_stack' = Append(SubSeq(Statuses(t), 1, N - 1), 21) /\ Enters
    <3>1. Statuses(t) = status_stack
      BY <2>1, Dispatch
    <3> QED BY <1>4, <1>8, <3>1 DEF check_if_body2, Pop
  <2>4. /\ Flat(status_stack')
        /\ Depth(status_stack') = Depth(status_stack) - 0 + 1
    BY <1>2, <2>2, <2>3, Recount
  <2> QED BY <1>3, <2>3, <2>4 DEF Moves, Enters
<1>9. CASE end_if_body2(t)
  <2>1. CurrentStatus(t) = 22
    BY <1>1, <1>9, Registered DEF end_if_body2, On, NoEntry
  <2>2. N - 2 \in 0 .. N /\ Opens(Statuses(t), N - 2, 1)
    BY <2>1, SecondCut
  <2>3. \/ End("undefined")
        \/ status_stack' = SubSeq(Statuses(t), 1, N - 2) /\ Leaves
    BY <1>9 DEF end_if_body2, Pop
  <2>4. CASE status_stack' = SubSeq(Statuses(t), 1, N - 2) /\ Leaves
    <3>1. /\ Flat(status_stack') /\ Depth(status_stack) >= 1
          /\ Depth(status_stack') = Depth(status_stack) - 1
      BY <1>2, <2>2, <2>4, Recount
    <3> QED BY <2>4, <3>1 DEF Moves
  <2> QED BY <2>3, <2>4, EndMoves
<1> QED BY <1>5, <1>6, <1>7, <1>8, <1>9 DEF Branching

LEMMA StepMoves ==
  ASSUME IInv, InTree, Flat(status_stack), NEW t \in Token, process_token(t)
  PROVE  Moves
<1>1. CASE Shift(t)
  BY <1>1, ShiftMoves
<1>2. CASE NoRow(t)
  BY <1>2, EndMoves DEF NoRow
<1>3. CASE Ignore(t) \/ skip(t)
  BY <1>3, KeptMoves DEF Ignore, skip, vars, stacks, tree
<1>4. CASE Header(t) \/ Variable(t) \/ Expression(t)
  BY <1>4, HeaderMoves, VariableMoves, ExpressionMoves
<1>5. CASE Body(t) \/ Branching(t)
  BY <1>5, BodyMoves, BranchingMoves
<1> QED BY <1>1, <1>2, <1>3, <1>4, <1>5 DEF process_token, Reduce

LEMMA ElementOfDomain == \A S : \A a \in Seq(S) : \A i \in DOMAIN a : a[i] \in S
  OBVIOUS

\* A child of a path, and the path of a child.
LEMMA Children ==
  ASSUME NEW p \in Path, NEW x \in NodeName
  PROVE  /\ Append(p, x) \in Path
         /\ SubSeq(Append(p, x), 1, Len(Append(p, x)) - 1) = p
         /\ \A q \in Path, y \in NodeName : Append(q, y) = Append(p, x) => q = p /\ y = x
<1>1. \A q \in Path, y \in NodeName :
        /\ Len(Append(q, y)) = Len(q) + 1 /\ Append(q, y) \in Path
        /\ Append(q, y)[Len(q) + 1] = y
        /\ SubSeq(Append(q, y), 1, Len(Append(q, y)) - 1) = q
  <2> SUFFICES ASSUME NEW q \in Seq(NodeName), NEW y \in NodeName
               PROVE  /\ Len(Append(q, y)) = Len(q) + 1 /\ Append(q, y) \in Path
                      /\ Append(q, y)[Len(q) + 1] = y
                      /\ SubSeq(Append(q, y), 1, Len(Append(q, y)) - 1) = q
    BY DEF Path
  <2> DEFINE z == SubSeq(Append(q, y), 1, Len(q))
  <2>1. /\ Append(q, y) \in Seq(NodeName) /\ Len(Append(q, y)) = Len(q) + 1
        /\ Append(q, y)[Len(q) + 1] = y /\ Len(Append(q, y)) - 1 = Len(q)
    OBVIOUS
  <2>2. z \in Seq(NodeName) /\ Len(z) = Len(q) /\ \A i \in 1 .. Len(q) : z[i] = q[i]
    OBVIOUS
  <2>3. z = q
    BY <2>2, SeqEqual
  <2> QED BY <2>1, <2>3 DEF Path
<1>2. ASSUME NEW q \in Path, NEW y \in NodeName, Append(q, y) = Append(p, x)
      PROVE  q = p /\ y = x
  <2>1. q = p
    <3>1. SubSeq(Append(q, y), 1, Len(Append(q, y)) - 1) = q
      BY <1>1
    <3>2. SubSeq(Append(p, x), 1, Len(Append(p, x)) - 1) = p
      BY <1>1
    <3> QED BY <1>2, <3>1, <3>2
  <2> QED BY <1>1, <1>2, <2>1
<1> QED BY <1>1, <1>2

LEMMA AnonNames == \A n \in Nat : Anon(n) \in NodeName
  BY DEF Anon, NodeName

LEMMA AnonChild ==
  ASSUME NEW p \in Path, NEW x \in NodeName, NEW r \in Path, NEW n \in Nat,
         Append(r, Anon(n)) = Append(p, x)
  PROVE  r = p /\ x = Anon(n) /\ x.sort = "anon"
<1>1. Anon(n) \in NodeName /\ Anon(n).sort = "anon"
  BY DEF Anon, NodeName
<1>2. r = p /\ Anon(n) = x
  <2> DEFINE y == Anon(n)
  <2>1. y \in NodeName /\ Append(r, y) = Append(p, x)
    BY <1>1
  <2> HIDE DEF y
  <2>2. \A q \in Path, z \in NodeName : Append(q, z) = Append(p, x) => q = p /\ z = x
    BY Children
  <2>3. r = p /\ y = x
    BY <2>1, <2>2, Zenon
  <2> QED BY <2>3 DEF y
<1> QED BY <1>1, <1>2

LEMMA FreshNode == Fresh \in Node /\ Fresh.name_no = 0 /\ ~Fresh.has_return
<1>1. Root \in Path
  BY DEF Root, Path
<1> QED BY <1>1 DEF Fresh, Node, NoStorage

LEMMA GrowTree ==
  ASSUME NEW nodes, TreeOf(nodes), NEW p \in DOMAIN nodes, NEW x \in NodeName,
         \A n \in Nat : x = Anon(n) => n < nodes[p].name_no
  PROVE  /\ TreeOf(With(nodes, Append(p, x)))
         /\ DOMAIN With(nodes, Append(p, x)) = DOMAIN nodes \cup {Append(p, x)}
<1> DEFINE child == Append(p, x)
           new == With(nodes, child)
<1>1. /\ DOMAIN new = DOMAIN nodes \cup {child}
      /\ \A r \in DOMAIN new : new[r] = IF r \in DOMAIN nodes THEN nodes[r] ELSE Fresh
  BY DEF With
<1>2. p \in Path /\ child \in Path /\ SubSeq(child, 1, Len(child) - 1) = p
  BY Children DEF TreeOf
<1> HIDE DEF child, new
<1>3. ASSUME NEW r \in DOMAIN new
      PROVE  /\ new[r] \in Node
             /\ SubSeq(r, 1, Len(r) - 1) \in DOMAIN new
             /\ \A n \in Nat : Append(r, Anon(n)) \in DOMAIN new => n < new[r].name_no
  <2>1. r \in Path
    BY <1>1, <1>2, <1>3 DEF TreeOf
  <2>2. new[r] \in Node /\ SubSeq(r, 1, Len(r) - 1) \in DOMAIN new
    BY <1>1, <1>2, <1>3, FreshNode DEF TreeOf
  <2>3. ASSUME NEW n \in Nat, Append(r, Anon(n)) \in DOMAIN new
        PROVE  n < new[r].name_no
    <3>1. CASE Append(r, Anon(n)) \in DOMAIN nodes
      <4>1. r \in DOMAIN nodes
        <5>1. SubSeq(Append(r, Anon(n)), 1, Len(Append(r, Anon(n))) - 1) \in DOMAIN nodes
          BY <3>1 DEF TreeOf
        <5> QED BY <2>1, <5>1, Children, AnonNames
      <4> QED BY <1>1, <3>1, <4>1 DEF TreeOf
    <3>2. CASE Append(r, Anon(n)) = child
      <4>1. r = p /\ Anon(n) = x
        BY <1>2, <2>1, <3>2, AnonChild DEF child
      <4> QED BY <1>1, <4>1
    <3> QED BY <1>1, <2>3, <3>1, <3>2
  <2> QED BY <2>2, <2>3
<1>4. DOMAIN new \subseteq Path
  BY <1>1, <1>2 DEF TreeOf
<1> QED BY <1>1, <1>3, <1>4 DEF TreeOf, child, new

\* What the scopes hold may change, if names are still counted up.
LEMMA RetypeTree ==
  ASSUME NEW nodes, TreeOf(nodes), NEW new, DOMAIN new = DOMAIN nodes,
         \A p \in DOMAIN nodes : new[p] \in Node /\ new[p].name_no >= nodes[p].name_no
  PROVE  TreeOf(new)
<1>1. ASSUME NEW p \in DOMAIN nodes, NEW n \in Nat, Append(p, Anon(n)) \in DOMAIN nodes
      PROVE  n < new[p].name_no
  <2>1. n < nodes[p].name_no /\ nodes[p].name_no \in Nat /\ new[p].name_no \in Nat
    BY <1>1 DEF TreeOf, Node
  <2> QED BY <2>1
<1> QED BY <1>1 DEF TreeOf

\* A function's scope is entered and its arguments are put into it.
LEMMA OpenTree ==
  ASSUME IInv, InTree, NEW entry \in Nat
  PROVE  /\ TreeOf(Opened(FunctionScope, func_param.arg, entry))
         /\ FunctionScope \in DOMAIN Opened(FunctionScope, func_param.arg, entry)
         /\ FunctionScope \in Path
<1> DEFINE path == FunctionScope
           x == Mangled(func_param.name, Len(func_param.arg))
           args == Arguments(path, func_param.arg)
           new == Opened(path, func_param.arg, entry)
<1>1. current_node \in DOMAIN scopes /\ current_node \in Path /\ x \in NodeName
  BY ChildNames DEF InTree
<1>2. path \in Path /\ SubSeq(path, 1, Len(path) - 1) = current_node
  BY <1>1, Children DEF FunctionScope
<1>3. \A r \in args : \E y \in NodeName : r = Append(path, y) /\ y.sort = "id"
  <2>1. func_param.arg \in Seq([name : Name \cup {""}, typed : BOOLEAN])
    BY DEF IInv, TypeOfCode, FuncParamOf
  <2> DEFINE A == func_param.arg
  <2>2. \A i \in DOMAIN A : A[i] \in [name : Name \cup {""}, typed : BOOLEAN]
    BY <2>1, ElementOfDomain, Zenon
  <2>3. \A i \in DOMAIN A : A[i].name \in Name \cup {""}
    BY <2>2
  <2>4. \A i \in DOMAIN func_param.arg : Id(func_param.arg[i].name) \in NodeName
    BY <2>3 DEF Id, NodeName
  <2> QED BY <2>4 DEF Arguments, Id
<1>4. ASSUME NEW r \in args
      PROVE  r \in Path /\ SubSeq(r, 1, Len(r) - 1) = path
  <2>1. PICK y \in NodeName : r = Append(path, y)
    BY <1>3
  <2> QED BY <1>2, <2>1, Children
<1>5. DOMAIN new = DOMAIN scopes \cup {path} \cup args
  BY DEF Opened
<1>6. ASSUME NEW r \in DOMAIN new
      PROVE  /\ new[r] \in Node
             /\ r \in DOMAIN scopes => new[r].name_no = scopes[r].name_no
  <2> DEFINE node == IF r \in DOMAIN scopes THEN scopes[r] ELSE Fresh
  <2>1. node \in Node
    BY FreshNode DEF InTree, TreeOf
  <2>2. new[r] = IF r = path THEN [node EXCEPT !.is_func_root = TRUE]
                 ELSE IF r \in args THEN [node EXCEPT !.address = entry, !.home = path]
                 ELSE node
    BY <1>6 DEF Opened
  <2>3. r \in DOMAIN scopes => node = scopes[r]
    OBVIOUS
  <2> HIDE DEF node, new, path, args
  <2>4. new[r] \in Node /\ new[r].name_no = node.name_no
    BY <1>2, <2>1, <2>2 DEF Node
  <2> QED BY <2>3, <2>4
<1>7. x.sort = "fn" /\ \A n : Anon(n).sort = "anon"
  BY DEF Mangled, Anon
<1> HIDE DEF new, args
<1>8. ASSUME NEW r \in DOMAIN new, NEW n \in Nat, Append(r, Anon(n)) \in DOMAIN new
      PROVE  n < new[r].name_no
  <2>1. r \in Path
    BY <1>2, <1>4, <1>5 DEF InTree, TreeOf
  <2>2. Append(r, Anon(n)) # path
    <3>1. Append(r, Anon(n)) = Append(current_node, x) => x.sort = "anon"
      <4> HIDE DEF x
      <4> QED BY <1>1, <2>1, AnonChild
    <3> QED BY <1>7, <3>1 DEF FunctionScope
  <2>3. Append(r, Anon(n)) \notin args
    <3> SUFFICES ASSUME Append(r, Anon(n)) \in args PROVE FALSE
      OBVIOUS
    <3>1. PICK y \in NodeName : Append(r, Anon(n)) = Append(path, y) /\ y.sort = "id"
      BY <1>3
    <3>2. y.sort = "anon"
      <4> HIDE DEF path
      <4> QED BY <1>2, <2>1, <3>1, AnonChild
    <3> QED BY <3>1, <3>2
  <2>4. Append(r, Anon(n)) \in DOMAIN scopes
    BY <1>5, <1>8, <2>2, <2>3
  <2>5. r \in DOMAIN scopes
    <3>1. SubSeq(Append(r, Anon(n)), 1, Len(Append(r, Anon(n))) - 1) \in DOMAIN scopes
      BY <2>4 DEF InTree, TreeOf
    <3> QED BY <2>1, <3>1, Children, AnonNames
  <2> QED BY <1>6, <2>4, <2>5 DEF InTree, TreeOf
<1>9. \A r \in DOMAIN new : r \in Path /\ SubSeq(r, 1, Len(r) - 1) \in DOMAIN new
  BY <1>1, <1>2, <1>4, <1>5 DEF InTree, TreeOf
<1>10. TreeOf(new)
  BY <1>6, <1>8, <1>9 DEF TreeOf
<1> QED BY <1>2, <1>5, <1>10 DEF new

LEMMA EnterTree ==
  ASSUME IInv, InTree, EnterAnonymous
  PROVE  TreeOf(scopes') /\ current_node' \in DOMAIN scopes'
<1> DEFINE n == scopes[current_node].name_no
           counted == [scopes EXCEPT ![current_node].name_no = @ + 1]
<1>1. /\ scopes' = With(counted, Append(current_node, Anon(n)))
      /\ current_node' = Append(current_node, Anon(n))
  BY DEF EnterAnonymous
<1>2. n \in Nat /\ Anon(n) \in NodeName /\ current_node \in DOMAIN scopes
  BY ChildNames DEF InTree
<1>3. /\ DOMAIN counted = DOMAIN scopes
      /\ \A p \in DOMAIN scopes : /\ counted[p] \in Node
                                  /\ counted[p].name_no >= scopes[p].name_no
      /\ counted[current_node].name_no = n + 1
  <2>1. \A p \in DOMAIN scopes : scopes[p] \in Node /\ scopes[p].name_no \in Nat
    BY DEF InTree, TreeOf, Node
  <2> QED BY <1>2, <2>1 DEF Node
<1>4. TreeOf(counted)
  BY <1>3, RetypeTree DEF InTree
<1> HIDE DEF n, counted
<1>5. \A k \in Nat : Anon(n) = Anon(k) => k < counted[current_node].name_no
  <2>1. \A k : Anon(k).no = k
    BY DEF Anon
  <2>2. \A k : Anon(n) = Anon(k) => n = k
    BY <2>1
  <2> QED BY <1>2, <1>3, <2>2
<1>6. current_node \in DOMAIN counted
  BY <1>2, <1>3
<1>7. /\ TreeOf(With(counted, Append(current_node, Anon(n))))
      /\ DOMAIN With(counted, Append(current_node, Anon(n))) =
           DOMAIN counted \cup {Append(current_node, Anon(n))}
  BY <1>2, <1>4, <1>5, <1>6, GrowTree
<1> QED BY <1>1, <1>7

\* Evaluating an expression only allocates storage.
LEMMA TouchTree ==
  ASSUME IInv, InTree, NEW S, NEW m
  PROVE  /\ DOMAIN TouchedBy(S, m) = DOMAIN scopes
         /\ \A p \in DOMAIN scopes :
              /\ TouchedBy(S, m)[p] \in Node
              /\ TouchedBy(S, m)[p].name_no = scopes[p].name_no
              /\ TouchedBy(S, m)[p].has_return = scopes[p].has_return
<1> DEFINE new == TouchedBy(S, m)
<1>1. insert_block \in Nat /\ current_node \in Path
  BY SMTT(40) DEF IInv, TypeOfCode, MaybeBlock, InTree, TreeOf
<1>2. /\ DOMAIN new = DOMAIN scopes
      /\ \A p \in DOMAIN scopes :
           \/ new[p] = scopes[p]
           \/ \E a \in {Global, insert_block} :
                new[p] = [scopes[p] EXCEPT !.address = a, !.home = current_node]
  BY ZenonT(60) DEF TouchedBy, Touched
<1> HIDE DEF new
<1>3. ASSUME NEW p \in DOMAIN scopes
      PROVE  /\ new[p] \in Node /\ new[p].name_no = scopes[p].name_no
             /\ new[p].has_return = scopes[p].has_return
  <2>1. scopes[p] \in Node
    BY DEF InTree, TreeOf
  <2>2. CASE new[p] = scopes[p]
    BY <2>1, <2>2
  <2>3. ASSUME NEW a \in {Global, insert_block},
               new[p] = [scopes[p] EXCEPT !.address = a, !.home = current_node]
        PROVE  /\ new[p] \in Node /\ new[p].name_no = scopes[p].name_no
               /\ new[p].has_return = scopes[p].has_return
    BY ZenonT(60), <1>1, <2>1, <2>3 DEF Node
  <2> QED BY <1>2, <2>2, <2>3
<1> QED BY <1>2, <1>3 DEF new

\* The scopes after one of them has returned.
LEMMA ReturnTree ==
  ASSUME NEW nodes, NEW q, \A p \in DOMAIN nodes : nodes[p] \in Node
  PROVE  LET new == [nodes EXCEPT ![q].has_return = TRUE] IN
         /\ DOMAIN new = DOMAIN nodes
         /\ \A p \in DOMAIN nodes :
              /\ new[p] \in Node /\ new[p].name_no = nodes[p].name_no
              /\ p # q => new[p] = nodes[p]
              /\ p = q => new[p].has_return
<1> DEFINE new == [nodes EXCEPT ![q].has_return = TRUE]
<1>1. /\ DOMAIN new = DOMAIN nodes
      /\ \A p \in DOMAIN nodes :
           new[p] = IF p = q THEN [nodes[p] EXCEPT !.has_return = TRUE] ELSE nodes[p]
  OBVIOUS
<1> HIDE DEF new
<1>2. ASSUME NEW node \in Node
      PROVE  LET node2 == [node EXCEPT !.has_return = TRUE] IN
             node2 \in Node /\ node2.name_no = node.name_no /\ node2.has_return
  BY DEF Node
<1>3. ASSUME NEW p \in DOMAIN nodes
      PROVE  /\ new[p] \in Node /\ new[p].name_no = nodes[p].name_no
             /\ p # q => new[p] = nodes[p]
             /\ p = q => new[p].has_return
  <2>1. nodes[p] \in Node
    OBVIOUS
  <2>2. CASE p = q
    BY <1>1, <1>2, <2>1, <2>2
  <2>3. CASE p # q
    BY <1>1, <2>1, <2>3
  <2> QED BY <2>2, <2>3
<1> QED BY <1>1, <1>3 DEF new

\* What a step has to show of the tree.
TreeStep ==
  /\ TreeOf(scopes') /\ current_node' \in DOMAIN scopes'
  /\ functions' \in Seq(Path)

LEMMA KeptTree ==
  ASSUME InTree, functions \in Seq(Path), UNCHANGED <<scopes, current_node, functions>>
  PROVE  TreeStep
  BY DEF InTree, TreeStep

LEMMA EndTree ==
  ASSUME InTree, functions \in Seq(Path), NEW o, End(o)
  PROVE  TreeStep
  BY KeptTree DEF End, tree, module

\* The current scope is left for its parent.
LEMMA LeaveTree ==
  ASSUME InTree
  PROVE  Pop(current_node, 1) \in DOMAIN scopes
  BY DEF InTree, TreeOf, Pop

LEMMA EvaluateTree ==
  ASSUME IInv, InTree, functions \in Seq(Path), UNCHANGED <<current_node, functions>>,
         NEW S, NEW m, scopes' = scopes \/ scopes' = TouchedBy(S, m)
  PROVE  TreeStep
<1>1. CASE scopes' = scopes
  BY <1>1, KeptTree
<1>2. CASE scopes' = TouchedBy(S, m)
  <2> DEFINE new == TouchedBy(S, m)
  <2>1. /\ DOMAIN new = DOMAIN scopes
        /\ \A p \in DOMAIN scopes : /\ new[p] \in Node
                                    /\ new[p].name_no = scopes[p].name_no
    BY TouchTree
  <2>2. \A p \in DOMAIN scopes : scopes[p].name_no \in Nat
    BY DEF InTree, TreeOf, Node
  <2> HIDE DEF new
  <2>3. TreeOf(new)
    BY <2>1, <2>2, RetypeTree DEF InTree
  <2> QED BY <1>2, <2>1, <2>3 DEF InTree, TreeStep, new
<1> QED BY <1>1, <1>2

LEMMA ExpressionTree ==
  ASSUME IInv, InTree, functions \in Seq(Path), NEW t \in Token, Expression(t)
  PROVE  TreeStep
<1>1. CASE \E o : End(o)
  BY <1>1, EndTree
<1>2. CASE enter_parentheses(t) \/ push_operator(t)
  BY <1>1, <1>2, KeptTree DEF enter_parentheses, push_operator, tree, module
<1>3. CASE solve_then_push_operator(t)
  <2>1. \/ \E o : End(o)
        \/ /\ \E m : scopes' = scopes \/ scopes' = TouchedBy(symbol_stack, m)
           /\ UNCHANGED <<current_node, functions>>
    BY <1>3 DEF solve_then_push_operator, Evaluate, module
  <2> QED BY <1>1, <2>1, EvaluateTree
<1>4. CASE expression_fails(t) \/ parenthesis_fails(t)
  BY <1>1, <1>4 DEF expression_fails, LoopFails, parenthesis_fails
<1>5. ASSUME NEW m \in 2 .. Len(symbol_stack),
             \/ expression_statement(t, m) \/ return_statement(t, m)
             \/ reduce_condition_calculate(t, m)
             \/ reduce_group(t, m) \/ reduce_operatorbrace(t, m)
      PROVE  TreeStep
  <2>1. CASE expression_statement(t, m)
    <3>1. \/ \E o : End(o)
          \/ /\ scopes' = scopes \/ scopes' = TouchedBy(symbol_stack, m)
             /\ UNCHANGED <<current_node, functions>>
      BY <2>1 DEF expression_statement, Evaluate, module
    <3> QED BY <1>1, <3>1, EvaluateTree
  <2>2. CASE return_statement(t, m)
    <3> DEFINE touched == TouchedBy(symbol_stack, m)
               new == [touched EXCEPT ![current_node].has_return = TRUE]
    <3>1. \/ \E o : End(o)
          \/ scopes' = new /\ UNCHANGED <<current_node, functions>>
      BY <2>2 DEF return_statement, module
    <3>2. /\ DOMAIN touched = DOMAIN scopes
          /\ \A p \in DOMAIN scopes : /\ touched[p] \in Node
                                      /\ touched[p].name_no = scopes[p].name_no
      BY TouchTree
    <3>3. \A p \in DOMAIN scopes : scopes[p].name_no \in Nat
      BY DEF InTree, TreeOf, Node
    <3> HIDE DEF touched
    <3>4. /\ DOMAIN new = DOMAIN scopes
          /\ \A p \in DOMAIN scopes : /\ new[p] \in Node
                                      /\ new[p].name_no >= scopes[p].name_no
      <4>1. \A p \in DOMAIN touched : touched[p] \in Node
        BY <3>2
      <4> QED BY <3>2, <3>3, <4>1, ReturnTree
    <3> HIDE DEF new
    <3>5. TreeOf(new)
      BY <3>4, RetypeTree DEF InTree
    <3> QED BY <1>1, <3>1, <3>4, <3>5 DEF InTree, TreeStep
  <2>3. CASE reduce_condition_calculate(t, m)
    <3>1. \/ \E o : End(o)
          \/ scopes' = TouchedBy(symbol_stack, m) /\ UNCHANGED <<current_node, functions>>
      BY <2>3 DEF reduce_condition_calculate, module
    <3> QED BY <1>1, <3>1, EvaluateTree
  <2>4. CASE reduce_group(t, m)
    <3>1. \/ \E o : End(o)
          \/ /\ scopes' = scopes \/ scopes' = TouchedBy(symbol_stack, m + 1)
             /\ UNCHANGED <<current_node, functions>>
      BY <2>4 DEF reduce_group, Evaluate, module
    <3> QED BY <1>1, <3>1, EvaluateTree
  <2>5. CASE reduce_operatorbrace(t, m)
    <3>1. \/ \E o : End(o)
          \/ UNCHANGED <<scopes, current_node, functions>>
      BY <2>5 DEF reduce_operatorbrace, tree, module
    <3> QED BY <1>1, <3>1, KeptTree
  <2> QED BY <1>5, <2>1, <2>2, <2>3, <2>4, <2>5
<1> QED BY <1>2, <1>3, <1>4, <1>5 DEF Expression

LEMMA BodyTree ==
  ASSUME IInv, InTree, functions \in Seq(Path), NEW t \in Token, Body(t)
  PROVE  TreeStep
<1> DEFINE entry == Len(terms) + 1
           opened == Opened(FunctionScope, func_param.arg, entry)
<1>1. entry \in Nat /\ Len(functions) + 1 \in Nat
  BY DEF IInv, TypeOfCode
<1>2. TreeOf(opened) /\ FunctionScope \in DOMAIN opened /\ FunctionScope \in Path
  BY <1>1, OpenTree
<1> HIDE DEF entry, opened
<1>3. CASE function_body_define_strart(t)
  <2>1. \/ End("undefined")
        \/ /\ scopes' = opened /\ current_node' = FunctionScope
           /\ functions' = functions
    BY <1>3 DEF function_body_define_strart, StartBody, opened, entry
  <2> QED BY <1>2, <2>1, EndTree DEF TreeStep
<1>4. CASE has_return_type_function_define(t)
  <2> DEFINE new == [opened EXCEPT ![FunctionScope].function_ptr = Len(functions) + 1]
  <2>1. \/ End("undefined")
        \/ /\ scopes' = new /\ current_node' = FunctionScope
           /\ functions' = Append(functions, FunctionScope)
    BY <1>4 DEF has_return_type_function_define, StartBody, opened, entry
  <2>2. \A p \in DOMAIN opened : opened[p] \in Node /\ opened[p].name_no \in Nat
    BY <1>2 DEF TreeOf, Node
  <2>3. /\ DOMAIN new = DOMAIN opened
        /\ \A p \in DOMAIN opened : /\ new[p] \in Node
                                    /\ new[p].name_no >= opened[p].name_no
    BY <1>1, <2>2 DEF Node
  <2> HIDE DEF new
  <2>4. TreeOf(new)
    BY <1>2, <2>3, RetypeTree
  <2>5. Append(functions, FunctionScope) \in Seq(Path)
    BY <1>2
  <2> QED BY <1>2, <2>1, <2>3, <2>4, <2>5, EndTree DEF TreeStep
<1>5. CASE function_body_define_finished(t)
  <2> DEFINE fn == IF scopes[current_node].function_ptr # 0
                   THEN scopes[current_node].function_ptr ELSE Len(functions) + 1
             new == [scopes EXCEPT ![current_node].function_ptr = fn]
  <2>1. /\ scopes' = new /\ current_node' = Pop(current_node, 1)
        /\ functions' \in {functions, Append(functions, current_node)}
    BY <1>5 DEF function_body_define_finished, leave_scope
  <2>2. \A p \in DOMAIN scopes : scopes[p] \in Node /\ scopes[p].name_no \in Nat
    BY DEF InTree, TreeOf, Node
  <2>3. fn \in Nat /\ current_node \in Path
    BY <1>1, <2>2 DEF InTree, TreeOf, Node
  <2> HIDE DEF fn
  <2>4. /\ DOMAIN new = DOMAIN scopes
        /\ \A p \in DOMAIN scopes : /\ new[p] \in Node
                                    /\ new[p].name_no >= scopes[p].name_no
    BY <2>2, <2>3 DEF Node
  <2> HIDE DEF new
  <2>5. TreeOf(new)
    BY <2>4, RetypeTree DEF InTree
  <2>6. functions' \in Seq(Path)
    BY <2>1, <2>3
  <2> QED BY <2>1, <2>4, <2>5, <2>6, LeaveTree DEF TreeStep
<1> QED BY <1>3, <1>4, <1>5 DEF Body

LEMMA BranchingTree ==
  ASSUME IInv, InTree, functions \in Seq(Path), NEW t \in Token, Branching(t)
  PROVE  TreeStep
<1>1. CASE start_while_condition(t) \/ start_if_condition(t) \/ check_if_body2(t)
  <2>1. EnterAnonymous /\ functions' = functions
    BY <1>1 DEF start_while_condition, start_if_condition, check_if_body2, module
  <2> QED BY <2>1, EnterTree DEF TreeStep
<1>2. CASE end_while_body(t) \/ end_if_body1(t)
  <2>1. /\ current_node' = Pop(current_node, 1)
        /\ UNCHANGED <<scopes, functions>>
    BY <1>2 DEF end_while_body, end_if_body1, leave_scope, module
  <2> QED BY <2>1, LeaveTree DEF TreeStep, InTree
<1>3. CASE end_if_body2(t)
  <2> DEFINE outer == Pop(current_node, 1)
             new == [scopes EXCEPT ![outer].has_return = TRUE]
  <2>1. \/ End("undefined")
        \/ current_node' = outer /\ scopes' = new /\ functions' = functions
    BY <1>3 DEF end_if_body2, module
  <2>2. \A p \in DOMAIN scopes : scopes[p] \in Node /\ scopes[p].name_no \in Nat
    BY DEF InTree, TreeOf, Node
  <2>3. /\ DOMAIN new = DOMAIN scopes
        /\ \A p \in DOMAIN scopes : /\ new[p] \in Node
                                    /\ new[p].name_no >= scopes[p].name_no
    BY <2>2, ReturnTree
  <2> HIDE DEF new
  <2>4. TreeOf(new)
    BY <2>3, RetypeTree DEF InTree
  <2> QED BY <2>1, <2>3, <2>4, LeaveTree, EndTree DEF TreeStep
<1> QED BY <1>1, <1>2, <1>3 DEF Branching

\* A variable is defined: a child of the current scope, and not an anonymous one.
LEMMA DefineTree ==
  ASSUME IInv, InTree, functions \in Seq(Path), NEW t \in Token, Define(t.name)
  PROVE  TreeStep
<1> DEFINE x == Id(t.name)
<1>1. x \in NodeName /\ x.sort = "id"
  BY TokenIsSymbol DEF Id, NodeName
<1>2. \A n \in Nat : x # Anon(n)
  <2>1. \A n \in Nat : Anon(n).sort = "anon"
    BY DEF Anon
  <2> QED BY <1>1, <2>1
<1>3. /\ scopes' = With(scopes, Append(current_node, x))
      /\ UNCHANGED <<current_node, functions>>
  BY DEF Define, module
<1> HIDE DEF x
<1>4. /\ TreeOf(With(scopes, Append(current_node, x)))
      /\ DOMAIN With(scopes, Append(current_node, x)) =
           DOMAIN scopes \cup {Append(current_node, x)}
  <2>1. current_node \in DOMAIN scopes /\ TreeOf(scopes)
    BY DEF InTree
  <2>2. \A n \in Nat : x = Anon(n) => n < scopes[current_node].name_no
    BY <1>2
  <2> QED BY <1>1, <2>1, <2>2, GrowTree
<1> QED BY <1>3, <1>4 DEF TreeStep, InTree

LEMMA StepTree ==
  ASSUME IInv, InTree, functions \in Seq(Path), NEW t \in Token, process_token(t)
  PROVE  TreeStep
<1>1. CASE \E o : End(o)
  BY <1>1, EndTree
<1>2. CASE Shift(t) \/ NoRow(t) \/ Ignore(t) \/ skip(t)
  BY <1>1, <1>2, KeptTree DEF Shift, NoRow, Ignore, skip, vars, tree, module
<1>3. CASE Header(t)
  BY <1>1, <1>3, KeptTree DEF Header, get_function_name, get_argument, wait_function_return_type,
                         get_function_return_type, function_declear, tree, module
<1>4. CASE Variable(t)
  <2>1. \/ \E o : End(o)
        \/ UNCHANGED <<scopes, current_node, functions>>
        \/ Define(t.name)
    BY <1>4 DEF Variable, define_pointer, define_variable, define_again, define_finished,
               tree, module
  <2> QED BY <1>1, <2>1, KeptTree, DefineTree
<1>5. CASE Body(t) \/ Branching(t) \/ Expression(t)
  BY <1>5, BodyTree, BranchingTree, ExpressionTree
<1> QED BY <1>2, <1>3, <1>4, <1>5 DEF process_token, Reduce

-----------------------------------------------------------------------------
(* Scopes that have returned. *)

\* The statuses of an open body; a "RBRACES" there runs the handler that closes it.
InBody == {15, 19, 22, 24}

LEMMA ClosingRow ==
  ASSUME NEW s \in InBody
  PROVE  /\ ShiftTo[s]["RBRACES"] = -1
         /\ <<s, Handler[s]["RBRACES"]>> \in
              {<<15, "function_body_define_finished">>, <<19, "end_if_body1">>,
               <<22, "end_if_body2">>, <<24, "end_while_body">>}
<1>1. s \in Status /\ "RBRACES" \in Key
  BY Keys DEF InBody, Status, Key
<1>2. ASSUME ShiftTo[s]["RBRACES"] # -1 PROVE FALSE
  <2>1. \E n \in Status : <<s, "RBRACES", n>> \in ShiftRows
    BY <1>1, <1>2, ShiftToRow
  <2>2. PICK n \in Status : <<s, "RBRACES", n>> \in ShiftRows
    BY <2>1
  <2> QED BY <2>2 DEF ShiftRows, InBody
<1>3. \E h : <<s, "RBRACES", h>> \in ReduceRows
  BY DEF ReduceRows, InBody
<1>4. PICK h : <<s, "RBRACES", h>> \in ReduceRows
  BY <1>3
<1>5. h \in Handlers
  BY <1>4 DEF Handlers
<1>6. <<s, "RBRACES", Handler[s]["RBRACES"]>> \in ReduceRows
  BY <1>1, <1>4, <1>5, Zenon DEF Handler
<1>7. ASSUME NEW g, <<s, "RBRACES", g>> \in ReduceRows
      PROVE  <<s, g>> \in {<<15, "function_body_define_finished">>, <<19, "end_if_body1">>,
                           <<22, "end_if_body2">>, <<24, "end_while_body">>}
  BY <1>7 DEF ReduceRows, InBody
<1> QED BY <1>2, <1>6, <1>7

\* Every scope around the current one is in the tree, and none has returned.
Lineage == \A n \in 0 .. Len(current_node) : SubSeq(current_node, 1, n) \in DOMAIN scopes

\* Only inside a body can the current scope have returned: what has been parsed
\* of a condition or an expression is gone from the stack by then.
ReturnedInBody == scopes[current_node].has_return => TopOf(status_stack) \in InBody

ReturnedInv == Lineage /\ OnlyInnermostReturned /\ ReturnedInBody

\* A token is dispatched in a returned scope only to close it.
LEMMA NotReturned ==
  ASSUME IInv, ReturnedInv, NEW t \in Token, Dispatched(t)
  PROVE  /\ scope_count = 0
         /\ scopes[current_node].has_return =>
              t.key = "RBRACES" /\ CurrentStatus(t) \in InBody
<1>1. scope_count \in Nat
  BY DEF IInv, TypeOfStacks
<1>2. scope_count = 0
  BY <1>1 DEF Dispatched, Skipping
<1>3. ASSUME scopes[current_node].has_return
      PROVE  t.key = "RBRACES" /\ CurrentStatus(t) \in InBody
  <2>1. t.key = "RBRACES"
    BY <1>3 DEF Dispatched, Skipping
  <2>2. TopOf(status_stack) \in InBody
    BY <1>3 DEF ReturnedInv, ReturnedInBody
  <2>3. ~NoElse(t)
    BY <2>2 DEF NoElse, TopOf, Last, InBody
  <2>4. CurrentStatus(t) = TopOf(status_stack)
    BY SMTT(40), <2>3, Dispatch DEF Statuses
  <2> QED BY <2>1, <2>2, <2>4
<1> QED BY <1>2, <1>3

\* The scopes there were are still there, and have returned if they had.
Keeps(new) ==
  \A p \in DOMAIN scopes :
    p \in DOMAIN new /\ new[p].has_return = scopes[p].has_return

LEMMA PathPrefixes ==
  ASSUME NEW p \in Path
  PROVE  /\ Len(p) \in Nat /\ SubSeq(p, 1, Len(p)) = p
         /\ \A x \in NodeName :
              /\ Len(Append(p, x)) = Len(p) + 1
              /\ \A n \in 0 .. Len(p) : SubSeq(Append(p, x), 1, n) = SubSeq(p, 1, n)
         /\ Len(p) >= 1 =>
              /\ Len(Pop(p, 1)) = Len(p) - 1
              /\ \A n \in 0 .. Len(p) - 1 : SubSeq(Pop(p, 1), 1, n) = SubSeq(p, 1, n)
<1>1. p \in Seq(NodeName)
  BY DEF Path
<1>2. Len(p) \in Nat /\ SubSeq(p, 1, Len(p)) = p
  BY <1>1
<1>3. ASSUME NEW x \in NodeName, NEW n \in 0 .. Len(p)
      PROVE  SubSeq(Append(p, x), 1, n) = SubSeq(p, 1, n)
  <2>1. /\ SubSeq(Append(p, x), 1, n) \in Seq(NodeName) /\ SubSeq(p, 1, n) \in Seq(NodeName)
        /\ Len(SubSeq(Append(p, x), 1, n)) = n /\ Len(SubSeq(p, 1, n)) = n
        /\ \A i \in 1 .. n : SubSeq(Append(p, x), 1, n)[i] = SubSeq(p, 1, n)[i]
    BY <1>1, <1>2
  <2> QED BY <2>1, SeqEqual
<1>4. ASSUME Len(p) >= 1
      PROVE  /\ Len(Pop(p, 1)) = Len(p) - 1
             /\ \A n \in 0 .. Len(p) - 1 : SubSeq(Pop(p, 1), 1, n) = SubSeq(p, 1, n)
  <2> DEFINE q == SubSeq(p, 1, Len(p) - 1)
  <2>1. q \in Seq(NodeName) /\ Len(q) = Len(p) - 1 /\ \A i \in 1 .. Len(q) : q[i] = p[i]
    BY <1>1, <1>2, <1>4
  <2> HIDE DEF q
  <2>2. ASSUME NEW n \in 0 .. Len(p) - 1
        PROVE  SubSeq(q, 1, n) = SubSeq(p, 1, n)
    <3>1. /\ SubSeq(q, 1, n) \in Seq(NodeName) /\ SubSeq(p, 1, n) \in Seq(NodeName)
          /\ Len(SubSeq(q, 1, n)) = n /\ Len(SubSeq(p, 1, n)) = n
          /\ \A i \in 1 .. n : SubSeq(q, 1, n)[i] = SubSeq(p, 1, n)[i]
      BY <1>1, <1>2, <2>1
    <3> QED BY <3>1, SeqEqual
  <2> QED BY <2>1, <2>2 DEF Pop, q
<1>5. \A x \in NodeName : Len(Append(p, x)) = Len(p) + 1
  BY <1>1
<1> QED BY <1>2, <1>3, <1>4, <1>5

LEMMA StayReturned ==
  ASSUME InTree, ReturnedInv, Keeps(scopes'), current_node' = current_node,
         scope_count' = 0, ~scopes[current_node].has_return
  PROVE  ReturnedInv'
<1>1. Lineage'
  BY DEF ReturnedInv, Lineage, Keeps
<1>2. ~scopes'[current_node].has_return
  BY DEF InTree, Keeps
<1>3. \A n \in 0 .. Len(current_node) - 1 : ~scopes'[SubSeq(current_node, 1, n)].has_return
  <2>1. Len(current_node) \in Nat
    BY DEF InTree, TreeOf, Path
  <2>2. \A n \in 0 .. Len(current_node) - 1 : n \in 0 .. Len(current_node)
    BY <2>1
  <2> QED BY <2>2 DEF ReturnedInv, Lineage, OnlyInnermostReturned, Keeps
<1>4. OnlyInnermostReturned'
  BY <1>3 DEF OnlyInnermostReturned
<1>5. ReturnedInBody'
  BY <1>2 DEF ReturnedInBody
<1> QED BY <1>1, <1>4, <1>5 DEF ReturnedInv

LEMMA RangeEnd == \A k \in Nat : \A n \in 0 .. k : n = k \/ n \in 0 .. k - 1
  OBVIOUS

LEMMA EnterReturned ==
  ASSUME InTree, ReturnedInv, Keeps(scopes'), NEW x \in NodeName,
         current_node' = Append(current_node, x), current_node' \in DOMAIN scopes',
         scope_count' = 0, ~scopes[current_node].has_return,
         scopes'[current_node'].has_return => TopOf(status_stack') \in InBody
  PROVE  ReturnedInv'
<1> DEFINE k == Len(current_node)
<1>1. /\ current_node \in Path /\ k \in Nat /\ SubSeq(current_node, 1, k) = current_node
      /\ Len(current_node') = k + 1
      /\ \A n \in 0 .. k : SubSeq(current_node', 1, n) = SubSeq(current_node, 1, n)
  BY PathPrefixes DEF InTree, TreeOf
<1>2. SubSeq(current_node', 1, k + 1) = current_node'
  <2>1. current_node' \in Path
    BY <1>1, Children
  <2> QED BY <1>1, <2>1, PathPrefixes
<1>3. ASSUME NEW n \in 0 .. k + 1
      PROVE  SubSeq(current_node', 1, n) \in DOMAIN scopes'
  <2>1. CASE n = k + 1
    BY <1>2, <2>1
  <2>2. CASE n \in 0 .. k
    BY <1>1, <2>2 DEF ReturnedInv, Lineage, Keeps
  <2> QED BY <1>1, <2>1, <2>2
<1>4. ASSUME NEW n \in 0 .. k
      PROVE  ~scopes'[SubSeq(current_node', 1, n)].has_return
  <2>1. SubSeq(current_node, 1, n) \in DOMAIN scopes
    BY DEF ReturnedInv, Lineage
  <2>2. ~scopes[SubSeq(current_node, 1, n)].has_return
    <3>1. CASE n = k
      BY <1>1, <3>1
    <3>2. CASE n \in 0 .. k - 1
      BY <3>2 DEF ReturnedInv, OnlyInnermostReturned
    <3>3. n = k \/ n \in 0 .. k - 1
      BY <1>1, RangeEnd
    <3> QED BY <3>1, <3>2, <3>3
  <2> QED BY <1>1, <2>1, <2>2 DEF Keeps
<1>5. OnlyInnermostReturned'
  BY <1>1, <1>4 DEF OnlyInnermostReturned
<1>6. Lineage' /\ ReturnedInBody'
  BY <1>1, <1>3 DEF Lineage, ReturnedInBody
<1> QED BY <1>5, <1>6 DEF ReturnedInv

LEMMA LeaveReturned ==
  ASSUME InTree, ReturnedInv, Len(current_node) >= 1,
         current_node' = Pop(current_node, 1),
         \A p \in DOMAIN scopes :
           /\ p \in DOMAIN scopes'
           /\ p # current_node' => scopes'[p].has_return = scopes[p].has_return,
         scope_count' = 0,
         scopes'[current_node'].has_return => TopOf(status_stack') \in InBody
  PROVE  ReturnedInv'
<1> DEFINE k == Len(current_node)
<1>1. /\ current_node \in Path /\ k \in Nat /\ Len(current_node') = k - 1
      /\ \A n \in 0 .. k - 1 : SubSeq(current_node', 1, n) = SubSeq(current_node, 1, n)
      /\ current_node' = SubSeq(current_node, 1, k - 1)
  BY PathPrefixes DEF InTree, TreeOf, Pop
<1>2. ASSUME NEW n \in 0 .. k - 1
      PROVE  SubSeq(current_node', 1, n) \in DOMAIN scopes'
  <2>1. n \in 0 .. k
    BY <1>1
  <2> QED BY <1>1, <2>1 DEF ReturnedInv, Lineage
<1>3. ASSUME NEW n \in 0 .. k - 1 - 1
      PROVE  ~scopes'[SubSeq(current_node', 1, n)].has_return
  <2>1. n \in 0 .. k - 1 /\ n \in 0 .. k /\ k - 1 \in 0 .. k
    BY <1>1
  <2>2. SubSeq(current_node, 1, n) \in DOMAIN scopes /\ ~scopes[SubSeq(current_node, 1, n)].has_return
    BY <2>1 DEF ReturnedInv, Lineage, OnlyInnermostReturned
  <2>3. SubSeq(current_node, 1, n) # current_node'
    <3>1. Len(SubSeq(current_node, 1, n)) = n
      <4>1. current_node \in Seq(NodeName)
        BY <1>1 DEF Path
      <4> QED BY <2>1, <4>1
    <3> QED BY <1>1, <3>1
  <2> QED BY <1>1, <2>1, <2>2, <2>3
<1>4. OnlyInnermostReturned'
  BY <1>1, <1>3 DEF OnlyInnermostReturned
<1>5. Lineage' /\ ReturnedInBody'
  BY <1>1, <1>2 DEF Lineage, ReturnedInBody
<1> QED BY <1>4, <1>5 DEF ReturnedInv


\* An anonymous child is a new scope, which has not returned.
LEMMA EnterFresh ==
  ASSUME IInv, InTree, EnterAnonymous
  PROVE  /\ Keeps(scopes') /\ current_node' \in DOMAIN scopes'
         /\ \E x \in NodeName : current_node' = Append(current_node, x)
         /\ ~scopes'[current_node'].has_return
<1> DEFINE n == scopes[current_node].name_no
           child == Append(current_node, Anon(n))
           counted == [scopes EXCEPT ![current_node].name_no = @ + 1]
<1>1. n \in Nat /\ Anon(n) \in NodeName /\ current_node \in DOMAIN scopes
  BY ChildNames DEF InTree
<1>2. child \notin DOMAIN scopes
  <2>1. child \in DOMAIN scopes => n < n
    BY <1>1 DEF InTree, TreeOf
  <2> QED BY <1>1, <2>1
<1>3. scopes' = With(counted, child) /\ current_node' = child
  BY DEF EnterAnonymous
<1>4. /\ DOMAIN counted = DOMAIN scopes
      /\ \A p \in DOMAIN scopes : counted[p].has_return = scopes[p].has_return
  <2>1. \A p \in DOMAIN scopes : scopes[p] \in Node
    BY DEF InTree, TreeOf
  <2> QED BY <2>1 DEF Node
<1> HIDE DEF child, counted
<1>5. /\ DOMAIN With(counted, child) = DOMAIN scopes \cup {child}
      /\ \A p \in DOMAIN scopes : With(counted, child)[p] = counted[p]
      /\ With(counted, child)[child] = Fresh
  BY <1>2, <1>4 DEF With
<1> QED BY <1>1, <1>3, <1>4, <1>5, FreshNode DEF Keeps, child

\* The handlers that close a body.
Finisher == {"function_body_define_finished", "end_if_body1", "end_if_body2", "end_while_body"}

\* Any other handler runs, and any token is shifted, in a scope that has not returned.
LEMMA Alive ==
  ASSUME IInv, ReturnedInv, NEW t \in Token, Dispatched(t),
         \/ ShiftTo[CurrentStatus(t)][t.key] # -1
         \/ Handler[CurrentStatus(t)][t.key] \notin Finisher
  PROVE  scope_count = 0 /\ ~scopes[current_node].has_return
<1>1. ASSUME t.key = "RBRACES", CurrentStatus(t) \in InBody PROVE FALSE
  BY <1>1, ClosingRow DEF Finisher
<1> QED BY <1>1, NotReturned

LEMMA KeptReturned ==
  ASSUME ReturnedInv, UNCHANGED <<status_stack, scopes, current_node, scope_count>>
  PROVE  ReturnedInv'
  BY DEF ReturnedInv, Lineage, OnlyInnermostReturned, ReturnedInBody

LEMMA EndReturned ==
  ASSUME ReturnedInv, NEW o, End(o)
  PROVE  ReturnedInv'
  BY KeptReturned DEF End, stacks, tree

LEMMA IgnoreReturned ==
  ASSUME IInv, ReturnedInv, NEW t \in Token, Ignore(t)
  PROVE  ReturnedInv'
<1>1. scopes[current_node].has_return
  BY DEF Ignore, Dispatched, Skipping, ReturnedInv, OnlyInnermostReturned
<1>2. UNCHANGED <<status_stack, scopes, current_node>>
  BY DEF Ignore, stacks, tree
<1> QED BY <1>1, <1>2 DEF ReturnedInv, Lineage, OnlyInnermostReturned, ReturnedInBody

\* A scope in which storage is allocated, or nothing happens, is still open.
LEMMA EvaluateReturned ==
  ASSUME IInv, InTree, ReturnedInv, NEW t \in Token, Dispatched(t),
         \/ ShiftTo[CurrentStatus(t)][t.key] # -1
         \/ Handler[CurrentStatus(t)][t.key] \notin Finisher,
         UNCHANGED <<current_node, scope_count>>,
         NEW S, NEW m, scopes' = scopes \/ scopes' = TouchedBy(S, m)
  PROVE  ReturnedInv'
<1>1. Keeps(scopes')
  BY TouchTree DEF Keeps
<1> QED BY <1>1, Alive, StayReturned


\* Handlers that leave the tree as it is, but the stacks perhaps not.
LEMMA PlainReturned ==
  ASSUME IInv, InTree, ReturnedInv, NEW t \in Token, Dispatched(t),
         \/ ShiftTo[CurrentStatus(t)][t.key] # -1
         \/ Handler[CurrentStatus(t)][t.key] \notin Finisher,
         UNCHANGED <<scopes, current_node, scope_count>>
  PROVE  ReturnedInv'
  BY EvaluateReturned

LEMMA HeaderReturned ==
  ASSUME IInv, InTree, ReturnedInv, NEW t \in Token, Header(t)
  PROVE  ReturnedInv'
<1>1. Dispatched(t) /\ Handler[CurrentStatus(t)][t.key] \notin Finisher
  BY DEF Header, get_function_name, get_argument, wait_function_return_type,
         get_function_return_type, function_declear, On, Finisher
<1>2. \/ \E o : End(o)
      \/ UNCHANGED <<scopes, current_node, scope_count>>
  BY DEF Header, get_function_name, get_argument, wait_function_return_type,
         get_function_return_type, function_declear, tree
<1> QED BY <1>1, <1>2, EndReturned, PlainReturned

LEMMA VariableReturned ==
  ASSUME IInv, InTree, ReturnedInv, NEW t \in Token, Variable(t)
  PROVE  ReturnedInv'
<1>1. Dispatched(t) /\ Handler[CurrentStatus(t)][t.key] \notin Finisher
  BY DEF Variable, define_pointer, define_variable, define_again, define_finished, On, Finisher
<1>2. \/ \E o : End(o)
      \/ UNCHANGED <<scopes, current_node, scope_count>>
      \/ /\ scopes' = With(scopes, Append(current_node, Id(t.name)))
         /\ UNCHANGED <<current_node, scope_count>>
  BY DEF Variable, define_pointer, define_variable, define_again, define_finished, Define, tree
<1>3. Keeps(With(scopes, Append(current_node, Id(t.name))))
  BY DEF Keeps, With
<1> QED BY <1>1, <1>2, <1>3, EndReturned, PlainReturned, Alive, StayReturned

LEMMA ReturnReturned ==
  ASSUME IInv, InTree, Flat(status_stack), ReturnedInv, NEW t \in Token,
         NEW m \in 2 .. Len(symbol_stack), return_statement(t, m)
  PROVE  ReturnedInv'
<1> DEFINE ss == status_stack
           n == Len(status_stack)
           touched == TouchedBy(symbol_stack, m)
           new == [touched EXCEPT ![current_node].has_return = TRUE]
<1>1. /\ Dispatched(t) /\ Handler[CurrentStatus(t)][t.key] = "check_priority"
      /\ \/ \E o : End(o)
         \/ /\ scopes' = new /\ UNCHANGED <<current_node, scope_count>>
            /\ status_stack' = SubSeq(ss, 1, m - 2)
      /\ ss[m - 1] = 16
  BY DEF return_statement, OnSemicolon, On
<1>2. CurrentStatus(t) = 2
  <2>1. CurrentStatus(t) \in Status /\ t.key \in Key
    BY Dispatch, TokenIsSymbol
  <2> QED BY <1>1, <2>1, Registered DEF NoEntry
<1>3. /\ WellStacked(Len(conds), ss, symbol_stack) /\ ss \in Seq(Status \ {0})
      /\ Len(symbol_stack) = n /\ n \in Nat
  BY <1>2, InExpression
<1>4. m - 2 >= 1 /\ m - 2 \in 1 .. n /\ ss[m - 2] \in InBody
  <2>1. Fits(Below(ss, m - 2), ss[m - 1], symbol_stack[m - 1].key)
    <3>1. m - 1 \in 1 .. n /\ m - 1 - 1 = m - 2
      BY <1>3
    <3> QED BY <1>3, <3>1, Entry
  <2>2. Below(ss, m - 2) \in {15, 19, 22}
    BY <1>1, <2>1 DEF Fits, StandsOn
  <2>3. m - 2 # 0 /\ Below(ss, m - 2) = ss[m - 2]
    BY <2>2 DEF Below
  <2> QED BY <1>3, <2>2, <2>3 DEF InBody
<1>5. TopOf(SubSeq(ss, 1, m - 2)) \in InBody
  <2>1. /\ SubSeq(ss, 1, m - 2) # <<>> /\ Len(SubSeq(ss, 1, m - 2)) = m - 2
        /\ SubSeq(ss, 1, m - 2)[m - 2] = ss[m - 2]
    BY <1>3, <1>4
  <2> QED BY <1>4, <2>1 DEF TopOf
<1>6. scope_count = 0 /\ ~scopes[current_node].has_return
  BY <1>1, Alive DEF Finisher
<1>7. /\ DOMAIN touched = DOMAIN scopes
      /\ \A p \in DOMAIN scopes : /\ touched[p] \in Node
                                  /\ touched[p].has_return = scopes[p].has_return
  BY TouchTree
<1> HIDE DEF touched
<1>8. /\ DOMAIN new = DOMAIN scopes
      /\ \A p \in DOMAIN scopes :
           p # current_node => new[p].has_return = scopes[p].has_return
  <2>1. \A p \in DOMAIN touched : touched[p] \in Node
    BY <1>7
  <2> QED BY <1>7, <2>1, ReturnTree
<1> HIDE DEF new
<1>9. ASSUME scopes' = new, UNCHANGED <<current_node, scope_count>>,
             status_stack' = SubSeq(ss, 1, m - 2)
      PROVE  ReturnedInv'
  <2>1. Lineage'
    BY <1>8, <1>9 DEF ReturnedInv, Lineage
  <2>2. ReturnedInBody'
    BY <1>5, <1>9 DEF ReturnedInBody
  <2>3. ASSUME NEW k \in 0 .. Len(current_node) - 1
        PROVE  ~new[SubSeq(current_node, 1, k)].has_return
    <3>1. /\ Len(current_node) \in Nat /\ k \in 0 .. Len(current_node)
          /\ Len(SubSeq(current_node, 1, k)) = k
      <4>1. current_node \in Seq(NodeName)
        BY DEF InTree, TreeOf, Path
      <4> QED BY <4>1
    <3>2. SubSeq(current_node, 1, k) # current_node
      BY <3>1
    <3>3. SubSeq(current_node, 1, k) \in DOMAIN scopes
      BY <3>1 DEF ReturnedInv, Lineage
    <3> QED BY <1>8, <3>2, <3>3 DEF ReturnedInv, OnlyInnermostReturned
  <2>4. OnlyInnermostReturned'
    BY <1>6, <1>9, <2>3 DEF OnlyInnermostReturned
  <2> QED BY <2>1, <2>2, <2>4 DEF ReturnedInv
<1> QED BY <1>1, <1>9, EndReturned

LEMMA ExpressionReturned ==
  ASSUME IInv, InTree, Flat(status_stack), ReturnedInv, NEW t \in Token, Expression(t)
  PROVE  ReturnedInv'
<1>1. Dispatched(t) /\ Handler[CurrentStatus(t)][t.key] \notin Finisher
  BY DEF Expression, enter_parentheses, push_operator, solve_then_push_operator,
         OnOperator, expression_fails, parenthesis_fails, expression_statement,
         return_statement, OnSemicolon, reduce_condition_calculate, reduce_group,
         reduce_operatorbrace, OnParenthesis, On, Finisher
<1> DEFINE Evaluated == /\ \E m : scopes' = scopes \/ scopes' = TouchedBy(symbol_stack, m)
                        /\ UNCHANGED <<current_node, scope_count>>
<1>2. Evaluated => ReturnedInv'
  BY <1>1, EvaluateReturned
<1>3. CASE enter_parentheses(t) \/ push_operator(t) \/ solve_then_push_operator(t)
  <2>1. (\E o : End(o)) \/ Evaluated
    BY <1>3 DEF enter_parentheses, push_operator, solve_then_push_operator, Evaluate, tree
  <2> QED BY <1>2, <2>1, EndReturned
<1>4. CASE expression_fails(t) \/ parenthesis_fails(t)
  BY <1>4, EndReturned DEF expression_fails, LoopFails, parenthesis_fails
<1>5. ASSUME NEW m \in 2 .. Len(symbol_stack),
             \/ expression_statement(t, m) \/ reduce_condition_calculate(t, m)
             \/ reduce_group(t, m) \/ reduce_operatorbrace(t, m)
      PROVE  ReturnedInv'
  <2>1. (\E o : End(o)) \/ Evaluated
    BY <1>5 DEF expression_statement, reduce_condition_calculate, reduce_group,
                reduce_operatorbrace, Evaluate, tree
  <2> QED BY <1>2, <2>1, EndReturned
<1> HIDE DEF Evaluated
<1> QED BY SMTT(40), <1>3, <1>4, <1>5, ReturnReturned DEF Expression


LEMMA OpenKeeps ==
  ASSUME IInv, InTree, NEW entry \in Nat
  PROVE  Keeps(Opened(FunctionScope, func_param.arg, entry))
<1> DEFINE path == FunctionScope
           args == Arguments(path, func_param.arg)
           new == Opened(path, func_param.arg, entry)
<1>1. DOMAIN new = DOMAIN scopes \cup {path} \cup args
  BY DEF Opened
<1>2. ASSUME NEW p \in DOMAIN scopes PROVE new[p].has_return = scopes[p].has_return
  <2> DEFINE node == scopes[p]
  <2>1. node \in Node
    BY DEF InTree, TreeOf
  <2>2. new[p] = IF p = path THEN [node EXCEPT !.is_func_root = TRUE]
                 ELSE IF p \in args THEN [node EXCEPT !.address = entry, !.home = path]
                 ELSE node
    BY DEF Opened
  <2> HIDE DEF node, new, path, args
  <2>3. new[p].has_return = node.has_return
    BY <2>1, <2>2 DEF Node
  <2> QED BY <2>3 DEF node
<1> QED BY <1>1, <1>2 DEF Keeps

\* A body that is closed is inside the root.
LEMMA ClosedInside ==
  ASSUME IInv, InTree, Flat(status_stack), ScopesMatchStatuses, NEW t \in Token,
         process_token(t), CurrentStatus(t) \in InBody
  PROVE  Len(current_node) >= 1
<1> DEFINE ss == Statuses(t)
           N == Len(Statuses(t))
<1>1. ss \in Seq(Status \ {0}) /\ Flat(ss) /\ Depth(ss) = Depth(status_stack)
  BY Start
<1>2. \E n \in 0 .. N : Opens(ss, n, 1)
  <2>1. CASE CurrentStatus(t) \in {15, 22}
    BY <2>1, SecondCut
  <2>2. CASE CurrentStatus(t) \in {19, 24}
    BY <2>2, TopCut DEF Scoped
  <2> QED BY <2>1, <2>2 DEF InBody
<1>3. Depth(ss) >= 1
  <2>1. 1 \in {0, 1}
    OBVIOUS
  <2> QED BY <1>1, <1>2, <2>1, AfterCut
<1>4. Len(current_node) = Depth(status_stack)
  BY DEF ScopesMatchStatuses, Depth, ScopedIn, Scoped
<1> QED BY <1>1, <1>3, <1>4

\* The scope around one that is left has not returned.
LEMMA OuterOpen ==
  ASSUME InTree, ReturnedInv, Len(current_node) >= 1
  PROVE  /\ Pop(current_node, 1) \in DOMAIN scopes
         /\ ~scopes[Pop(current_node, 1)].has_return
<1>1. Len(current_node) \in Nat
  BY DEF InTree, TreeOf, Path
<1>2. Len(current_node) - 1 \in 0 .. Len(current_node) - 1
  BY <1>1
<1> QED BY <1>2, LeaveTree DEF ReturnedInv, OnlyInnermostReturned, Pop

LEMMA LeaveOpen ==
  ASSUME InTree, ReturnedInv, Len(current_node) >= 1,
         current_node' = Pop(current_node, 1), Keeps(scopes'), scope_count' = 0
  PROVE  ReturnedInv'
<1>1. ~scopes'[current_node'].has_return
  BY OuterOpen DEF Keeps
<1> QED BY <1>1, LeaveReturned DEF Keeps

LEMMA BodyReturned ==
  ASSUME IInv, InTree, Flat(status_stack), ScopesMatchStatuses, ReturnedInv,
         NEW t \in Token, process_token(t), Body(t)
  PROVE  ReturnedInv'
<1> DEFINE entry == Len(terms) + 1
           opened == Opened(FunctionScope, func_param.arg, entry)
<1>1. entry \in Nat
  BY DEF IInv, TypeOfCode
<1>2. Keeps(opened) /\ FunctionScope \in DOMAIN opened /\ TreeOf(opened)
  BY <1>1, OpenTree, OpenKeeps
<1>3. status_stack \in Seq(Status \ {0}) /\ Pop(status_stack, 1) \in Seq(Status \ {0})
  <2>1. status_stack \in Seq(Status \ {0})
    BY Dispatch DEF WellStacked
  <2> QED BY <2>1 DEF Pop
<1>4. \A s \in {status_stack, Pop(status_stack, 1)} : TopOf(Append(s, 15)) \in InBody
  <2>1. ASSUME NEW s \in Seq(Status \ {0}) PROVE TopOf(Append(s, 15)) \in InBody
    <3>1. Append(s, 15) # <<>> /\ Append(s, 15)[Len(Append(s, 15))] = 15
      OBVIOUS
    <3> QED BY <3>1 DEF TopOf, InBody
  <2> QED BY <1>3, <2>1
<1> HIDE DEF entry, opened
<1>5. ASSUME Dispatched(t), Handler[CurrentStatus(t)][t.key] \notin Finisher,
             Keeps(scopes'), FunctionScope \in DOMAIN scopes',
             current_node' = FunctionScope, scope_count' = scope_count,
             \E s \in {status_stack, Pop(status_stack, 1)} : status_stack' = Append(s, 15)
      PROVE  ReturnedInv'
  <2>1. scope_count = 0 /\ ~scopes[current_node].has_return
    BY <1>5, Alive
  <2>2. TopOf(status_stack') \in InBody
    BY <1>4, <1>5
  <2>3. Mangled(func_param.name, Len(func_param.arg)) \in NodeName
    BY ChildNames
  <2> QED BY <1>5, <2>1, <2>2, <2>3, EnterReturned DEF FunctionScope
<1>6. CASE function_body_define_strart(t)
  <2>1. Dispatched(t) /\ Handler[CurrentStatus(t)][t.key] \notin Finisher
    BY <1>6 DEF function_body_define_strart, On, Finisher
  <2>2. \/ End("undefined")
        \/ /\ scopes' = opened /\ current_node' = FunctionScope
           /\ scope_count' = scope_count /\ status_stack' = Append(status_stack, 15)
    BY <1>6 DEF function_body_define_strart, StartBody, opened, entry
  <2> QED BY <1>2, <1>5, <2>1, <2>2, EndReturned
<1>7. CASE has_return_type_function_define(t)
  <2> DEFINE new == [opened EXCEPT ![FunctionScope].function_ptr = Len(functions) + 1]
  <2>1. Dispatched(t) /\ Handler[CurrentStatus(t)][t.key] \notin Finisher
    BY <1>7 DEF has_return_type_function_define, On, Finisher
  <2>2. \/ End("undefined")
        \/ /\ scopes' = new /\ current_node' = FunctionScope
           /\ scope_count' = scope_count /\ status_stack' = Append(Pop(status_stack, 1), 15)
    BY <1>7 DEF has_return_type_function_define, StartBody, opened, entry
  <2>3. Keeps(new) /\ FunctionScope \in DOMAIN new
    <3>1. \A p \in DOMAIN opened : opened[p] \in Node
      BY <1>2 DEF TreeOf
    <3>2. DOMAIN new = DOMAIN opened /\ \A p \in DOMAIN opened : new[p].has_return = opened[p].has_return
      BY <3>1 DEF Node
    <3> HIDE DEF new
    <3> QED BY <1>2, <3>2 DEF Keeps
  <2> QED BY <1>5, <2>1, <2>2, <2>3, EndReturned
<1>8. CASE function_body_define_finished(t)
  <2> DEFINE fn == IF scopes[current_node].function_ptr # 0
                   THEN scopes[current_node].function_ptr ELSE Len(functions) + 1
             new == [scopes EXCEPT ![current_node].function_ptr = fn]
  <2>1. CurrentStatus(t) = 15 /\ Dispatched(t)
    <3>1. CurrentStatus(t) \in Status /\ t.key \in Key
      BY Dispatch, TokenIsSymbol
    <3> QED BY <1>8, <3>1, Registered DEF function_body_define_finished, On, NoEntry
  <2>2. /\ scopes' = new /\ current_node' = Pop(current_node, 1)
        /\ scope_count' = scope_count
    BY <1>8 DEF function_body_define_finished, leave_scope
  <2> HIDE DEF fn
  <2>3. Keeps(new)
    <3>1. \A p \in DOMAIN scopes : scopes[p] \in Node
      BY DEF InTree, TreeOf
    <3> QED BY <3>1 DEF Keeps, Node
  <2>4. Len(current_node) >= 1
    BY <2>1, ClosedInside DEF InBody
  <2>5. scope_count = 0
    BY <2>1, NotReturned
  <2> QED BY <2>2, <2>3, <2>4, <2>5, LeaveOpen
<1> QED BY <1>6, <1>7, <1>8 DEF Body


LEMMA StaysPositive == \A k \in Nat : k - 2 \in 0 .. k /\ k - 2 # 0 => k - 2 \in 1 .. k
  OBVIOUS

LEMMA TopOfCut ==
  ASSUME NEW S, NEW ss \in Seq(S), NEW n \in 1 .. Len(ss)
  PROVE  TopOf(SubSeq(ss, 1, n)) = ss[n]
<1>1. /\ SubSeq(ss, 1, n) # <<>> /\ Len(SubSeq(ss, 1, n)) = n
      /\ SubSeq(ss, 1, n)[n] = ss[n]
  OBVIOUS
<1> QED BY <1>1 DEF TopOf

LEMMA BranchingReturned ==
  ASSUME IInv, InTree, Flat(status_stack), ScopesMatchStatuses, ReturnedInv,
         NEW t \in Token, process_token(t), Branching(t)
  PROVE  ReturnedInv'
<1>1. CurrentStatus(t) \in Status /\ t.key \in Key
  BY Dispatch, TokenIsSymbol
<1>2. CASE start_while_condition(t) \/ start_if_condition(t) \/ check_if_body2(t)
  <2>1. /\ Dispatched(t) /\ Handler[CurrentStatus(t)][t.key] \notin Finisher
        /\ EnterAnonymous /\ scope_count' = scope_count
    BY <1>2 DEF start_while_condition, start_if_condition, check_if_body2, On, Finisher
  <2>2. scope_count = 0 /\ ~scopes[current_node].has_return
    BY <2>1, Alive
  <2>3. /\ Keeps(scopes') /\ current_node' \in DOMAIN scopes'
        /\ \E x \in NodeName : current_node' = Append(current_node, x)
        /\ ~scopes'[current_node'].has_return
    BY <2>1, EnterFresh
  <2> QED BY <2>1, <2>2, <2>3, EnterReturned
<1>3. CASE end_while_body(t) \/ end_if_body1(t)
  <2>1. CurrentStatus(t) \in InBody /\ Dispatched(t)
    BY <1>1, <1>3, Registered DEF end_while_body, end_if_body1, On, NoEntry, InBody
  <2>2. /\ current_node' = Pop(current_node, 1)
        /\ UNCHANGED <<scopes, scope_count>>
    BY <1>3 DEF end_while_body, end_if_body1, leave_scope
  <2>3. scope_count = 0 /\ Len(current_node) >= 1
    BY <2>1, NotReturned, ClosedInside
  <2>4. Keeps(scopes')
    BY <2>2 DEF Keeps
  <2> QED BY <2>2, <2>3, <2>4, LeaveOpen
<1>4. CASE end_if_body2(t)
  <2> DEFINE ss == Statuses(t)
             N == Len(Statuses(t))
             outer == Pop(current_node, 1)
             new == [scopes EXCEPT ![outer].has_return = TRUE]
  <2>1. CurrentStatus(t) = 22 /\ Dispatched(t)
    BY <1>1, <1>4, Registered DEF end_if_body2, On, NoEntry
  <2>2. \/ End("undefined")
        \/ /\ current_node' = outer /\ scopes' = new /\ scope_count' = scope_count
           /\ status_stack' = SubSeq(ss, 1, N - 2)
    BY <1>4 DEF end_if_body2, Pop
  <2>3. scope_count = 0 /\ Len(current_node) >= 1
    BY <2>1, NotReturned, ClosedInside DEF InBody
  <2>4. /\ N \in Nat /\ N = Len(ss) /\ N - 2 \in 0 .. N /\ ss[N - 1] = 21
        /\ WellStacked(Len(conds), ss, Symbols(t)) /\ ss \in Seq(Status \ {0})
    <3>1. N \in Nat /\ N = Len(ss) /\ N - 2 \in 0 .. N /\ ss[N - 1] = Under(22)
      BY <2>1, SecondCut
    <3>2. WellStacked(Len(conds), ss, Symbols(t)) /\ Under(22) = 21
      BY Dispatch DEF Under
    <3> QED BY <3>1, <3>2 DEF WellStacked
  <2>5. N - 2 # 0 /\ ss[N - 2] \in InBody
    <3>1. N - 1 \in 1 .. N /\ N - 1 - 1 = N - 2
      BY <2>4
    <3>2. Fits(Below(ss, N - 2), ss[N - 1], Symbols(t)[N - 1].key)
      BY <2>4, <3>1, Entry
    <3>3. Below(ss, N - 2) \in {15, 19, 22, 24}
      BY <2>4, <3>2 DEF Fits, StandsOn
    <3> QED BY <3>3 DEF Below, InBody
  <2>6. TopOf(SubSeq(ss, 1, N - 2)) \in InBody
    <3>1. N - 2 \in 1 .. N
      BY <2>4, <2>5, StaysPositive
    <3> QED BY <2>4, <2>5, <3>1, TopOfCut DEF ss
  <2>7. /\ DOMAIN new = DOMAIN scopes
        /\ \A p \in DOMAIN scopes : p # outer => new[p].has_return = scopes[p].has_return
    <3>1. \A p \in DOMAIN scopes : scopes[p] \in Node
      BY DEF InTree, TreeOf
    <3> QED BY <3>1, ReturnTree
  <2> HIDE DEF new, outer, ss, N
  <2>8. ASSUME current_node' = outer, scopes' = new, scope_count' = scope_count,
               status_stack' = SubSeq(ss, 1, N - 2)
        PROVE  ReturnedInv'
    <3>1. current_node' = Pop(current_node, 1) /\ scope_count' = 0
      BY <2>3, <2>8 DEF outer
    <3>2. TopOf(status_stack') \in InBody
      BY <2>6, <2>8
    <3>3. \A p \in DOMAIN scopes :
            /\ p \in DOMAIN scopes'
            /\ p # current_node' => scopes'[p].has_return = scopes[p].has_return
      BY <2>7, <2>8
    <3> QED BY <2>3, <3>1, <3>2, <3>3, LeaveReturned
  <2> QED BY <2>2, <2>8, EndReturned DEF ss, N
<1> QED BY <1>2, <1>3, <1>4 DEF Branching

LEMMA StepReturned ==
  ASSUME IInv, InTree, Flat(status_stack), ScopesMatchStatuses, ReturnedInv,
         NEW t \in Token, process_token(t)
  PROVE  ReturnedInv'
<1>1. CASE Shift(t)
  <2>1. /\ Dispatched(t) /\ ShiftTo[CurrentStatus(t)][t.key] # -1
        /\ UNCHANGED <<scopes, current_node, scope_count>>
    BY <1>1 DEF Shift, tree
  <2> QED BY <2>1, PlainReturned
<1>2. CASE NoRow(t) \/ Ignore(t)
  BY <1>2, EndReturned, IgnoreReturned DEF NoRow
<1>3. CASE skip(t)
  BY <1>3, KeptReturned DEF skip, vars, stacks, tree
<1>4. CASE Header(t) \/ Variable(t) \/ Expression(t)
  BY <1>4, HeaderReturned, VariableReturned, ExpressionReturned
<1>5. CASE Body(t) \/ Branching(t)
  BY <1>5, BodyReturned, BranchingReturned
<1> QED BY <1>1, <1>2, <1>3, <1>4, <1>5 DEF process_token, Reduce

-----------------------------------------------------------------------------
(* The invariant, and what follows from it. *)

TreeInv ==
  /\ IInv /\ InTree /\ functions \in Seq(Path)
  /\ Flat(status_stack) /\ ScopesMatchStatuses /\ ReturnedInv

LEMMA TreeInitially == ASSUME Init PROVE TreeInv
<1>1. IInv
  BY Initially
<1>2. /\ status_stack = <<>> /\ current_node = Root /\ functions = <<>>
      /\ DOMAIN scopes = {Root} \cup {<<Id(x)>> : x \in Type}
      /\ \A p \in DOMAIN scopes : scopes[p] = [Fresh EXCEPT !.is_type = (p # Root)]
      /\ scope_count = 0
  BY DEF Init
<1>3. Root \in Path /\ Len(Root) = 0 /\ SubSeq(Root, 1, 0) = Root /\ SubSeq(Root, 1, Len(Root) - 1) = Root
  BY DEF Root, Path
<1>4. \A x \in Type : Id(x) \in NodeName /\ Id(x).sort = "id"
  BY TokenAssumption DEF Id, NodeName
<1>5. \A p \in DOMAIN scopes :
        /\ scopes[p] \in Node /\ ~scopes[p].has_return /\ scopes[p].name_no = 0
  BY ZenonT(60), <1>2, FreshNode DEF Node
<1>6. \A y \in NodeName : <<y>> \in Path /\ SubSeq(<<y>>, 1, Len(<<y>>) - 1) = Root
  BY DEF Path, Root
<1>7. ASSUME NEW p \in DOMAIN scopes, NEW n \in Nat
      PROVE  Append(p, Anon(n)) \notin DOMAIN scopes
  <2>1. p \in Path
    BY <1>2, <1>3, <1>4, <1>6
  <2>2. /\ Len(Append(p, Anon(n))) = Len(p) + 1
        /\ Append(p, Anon(n))[Len(p) + 1] = Anon(n) /\ Len(p) \in Nat
    BY <2>1, AnonNames DEF Path
  <2>3. Append(p, Anon(n)) # Root
    BY SMTT(40), <1>3, <2>2
  <2>4. ASSUME NEW x \in Type, Append(p, Anon(n)) = <<Id(x)>> PROVE FALSE
    <3>1. Len(p) = 0
      BY <2>2, <2>4
    <3>2. Anon(n) = Id(x)
      BY <2>2, <2>4, <3>1
    <3> QED BY <3>2 DEF Anon, Id
  <2> QED BY <1>2, <2>3, <2>4
<1>8. TreeOf(scopes)
  <2>1. ASSUME NEW p \in DOMAIN scopes
        PROVE  p \in Path /\ SubSeq(p, 1, Len(p) - 1) \in DOMAIN scopes
    <3>1. CASE p = Root
      BY <1>2, <1>3, <3>1
    <3>2. ASSUME NEW x \in Type, p = <<Id(x)>>
          PROVE  p \in Path /\ SubSeq(p, 1, Len(p) - 1) \in DOMAIN scopes
      BY <1>2, <1>4, <1>6, <3>2, Zenon
    <3> QED BY <1>2, <3>1, <3>2
  <2> QED BY <1>5, <1>7, <2>1 DEF TreeOf
<1>9. Flat(status_stack) /\ ScopedIn(status_stack) = {}
  BY <1>2 DEF Flat, ScopedIn
<1>10. ScopesMatchStatuses
  <2>1. Cardinality(ScopedIn(status_stack)) = 0
    BY <1>9, FS_EmptySet
  <2> QED BY <1>2, <1>3, <2>1 DEF ScopesMatchStatuses, ScopedIn, Scoped
<1>11. ReturnedInv
  <2>1. ~scopes[current_node].has_return /\ Lineage
    BY <1>2, <1>3, <1>5 DEF Lineage
  <2> QED BY <1>2, <1>3, <2>1 DEF ReturnedInv, OnlyInnermostReturned, ReturnedInBody
<1> QED BY <1>1, <1>2, <1>8, <1>9, <1>10, <1>11 DEF TreeInv, InTree

LEMMA StepScopes ==
  ASSUME TreeInv, NEW t \in Token, process_token(t)
  PROVE  Flat(status_stack') /\ ScopesMatchStatuses'
<1>1. Moves
  BY StepMoves DEF TreeInv
<1>2. Len(current_node) = Depth(status_stack) /\ current_node \in Path
  BY DEF TreeInv, ScopesMatchStatuses, Depth, ScopedIn, Scoped, InTree, TreeOf
<1>3. /\ \A x \in NodeName : Len(Append(current_node, x)) = Len(current_node) + 1
      /\ Len(current_node) >= 1 => Len(Pop(current_node, 1)) = Len(current_node) - 1
  BY <1>2, PathPrefixes
<1>4. Len(current_node') = Depth(status_stack')
  BY <1>1, <1>2, <1>3 DEF Moves
<1> QED BY <1>1, <1>4 DEF Moves, ScopesMatchStatuses, Depth, ScopedIn, Scoped

LEMMA TreeKept ==
  ASSUME TreeInv, IInv', UNCHANGED <<status_stack, scope_count, scopes, current_node, functions>>
  PROVE  TreeInv'
  BY KeptReturned DEF TreeInv, InTree, Flat, ScopesMatchStatuses

LEMMA TreeInductive == TreeInv /\ [Next]_vars => TreeInv'
<1> SUFFICES ASSUME TreeInv, [Next]_vars PROVE TreeInv'
  OBVIOUS
<1>1. IInv'
  BY Inductive DEF TreeInv
<1>2. CASE UNCHANGED vars \/ EndOfInput
  BY <1>1, <1>2, TreeKept DEF vars, EndOfInput, End, stacks, tree, module
<1>3. ASSUME NEW t \in Token, process_token(t) PROVE TreeInv'
  <2>1. TreeStep
    BY <1>3, StepTree DEF TreeInv
  <2>2. Flat(status_stack') /\ ScopesMatchStatuses'
    BY <1>3, StepScopes
  <2>3. ReturnedInv'
    BY <1>3, StepReturned DEF TreeInv
  <2> QED BY <1>1, <2>1, <2>2, <2>3 DEF TreeInv, TreeStep, InTree
<1> QED BY <1>2, <1>3 DEF Next

\* The tree of scopes, the place of the parser in it and the statuses that opened the
\* scopes always agree: the handlers enter and leave scopes in step with the stacks.
THEOREM TreeInvariance == Spec => []TreeInv
<1> QED BY TreeInitially, TreeInductive, PTL DEF Spec


\* Every scope keeps its type and has its parent in the tree, whatever the
\* program defines, calls, opens and closes.
THEOREM TreeStaysTyped == Spec => []TypeOfTree
<1>1. TreeInv => TypeOfTree
  BY DEF TreeInv, InTree, TreeOf, TypeOfTree
<1> QED BY <1>1, TreeInvariance, PTL

\* enter_scope and leave_scope, called from different handlers than the ones
\* that push and pop, stay in step with the status stack at any nesting.
THEOREM ScopesStayMatched == Spec => []ScopesMatchStatuses
<1>1. TreeInv => ScopesMatchStatuses
  BY DEF TreeInv
<1> QED BY <1>1, TreeInvariance, PTL

\* No scope around the current one has returned, and braces are counted only
\* while the current one has: a return never makes code outside its scope dead
\* before that scope is left.
THEOREM OnlyInnermostReturns == Spec => []OnlyInnermostReturned
<1>1. TreeInv => OnlyInnermostReturned
  BY DEF TreeInv, ReturnedInv
<1> QED BY <1>1, TreeInvariance, PTL

\* The token that ends dead code is the "RBRACES" that closes its scope, and the row of the
\* status on top has the handler for it: skipping neither throws nor reads past
\* a row, whatever tokens are skipped.
LEMMA SkippingStep ==
  ASSUME TreeInv, [Next]_vars, outcome = "running", Skipping
  PROVE  outcome' \in {"running", "done"}
<1>1. CASE UNCHANGED vars \/ EndOfInput
  BY <1>1 DEF vars, EndOfInput, End
<1>2. ASSUME NEW t \in Token, Ignore(t) PROVE outcome' \in {"running", "done"}
  BY <1>2 DEF Ignore
<1>3. ASSUME NEW t \in Token, process_token(t), ~Ignore(t)
      PROVE  outcome' \in {"running", "done"}
  <2> DEFINE row == Handler[CurrentStatus(t)][t.key]
  <2>1. Dispatched(t)
    BY <1>3 DEF process_token, Shift, NoRow, Reduce, On, skip, Header, get_function_name,
                get_argument, wait_function_return_type, get_function_return_type,
                function_declear, Body, function_body_define_strart,
                has_return_type_function_define, function_body_define_finished, Variable,
                define_pointer, define_variable, define_again, define_finished, Branching,
                start_while_condition, end_while_body, start_if_condition, end_if_body1,
                check_if_body2, end_if_body2, Expression, enter_parentheses, push_operator,
                solve_then_push_operator, OnOperator, expression_fails, parenthesis_fails,
                expression_statement, return_statement, OnSemicolon,
                reduce_condition_calculate, reduce_group, reduce_operatorbrace, OnParenthesis
  <2>2. scopes[current_node].has_return /\ t.key = "RBRACES" /\ CurrentStatus(t) \in InBody
    <3>1. scope_count = 0
      BY <2>1, NotReturned DEF TreeInv
    <3>2. scopes[current_node].has_return
      BY <3>1 DEF Skipping
    <3> QED BY <2>1, <3>2, NotReturned DEF TreeInv
  <2>3. ShiftTo[CurrentStatus(t)][t.key] = -1 /\ row \in Finisher
    BY <2>2, ClosingRow DEF Finisher
  <2>4. ~Shift(t) /\ ~NoRow(t) /\ ~skip(t)
    BY <2>3 DEF Shift, NoRow, skip, On, NoEntry, Finisher
  <2>5. ~Header(t) /\ ~Variable(t)
    BY SMTT(40), <2>3 DEF Finisher, On, Header, get_function_name, get_argument,
                wait_function_return_type, get_function_return_type, function_declear,
                Variable, define_pointer, define_variable, define_again, define_finished
  <2>6. ~Expression(t)
    BY <2>3 DEF Finisher, On, Expression, enter_parentheses, push_operator,
                solve_then_push_operator, OnOperator, expression_fails, parenthesis_fails,
                expression_statement, return_statement, OnSemicolon,
                reduce_condition_calculate, reduce_group, reduce_operatorbrace, OnParenthesis
  <2>7. Body(t) \/ Branching(t)
    BY <1>3, <2>4, <2>5, <2>6 DEF process_token, Reduce
  <2>8. \/ function_body_define_finished(t)
        \/ end_while_body(t) \/ end_if_body1(t) \/ end_if_body2(t)
    BY <2>3, <2>7 DEF Finisher, On, Body, function_body_define_strart,
                      has_return_type_function_define, Branching, start_while_condition,
                      start_if_condition, check_if_body2
  <2> QED BY SMTT(40), <2>2, <2>8 DEF function_body_define_finished, end_while_body, end_if_body1,
                            end_if_body2
<1> QED BY <1>1, <1>2, <1>3 DEF Next

\* Skipping code after a return never fails: the parser reaches the end of the
\* source or the brace that closes the returned scope, and goes on from there.
THEOREM SkippingStaysSafe == Spec => SkippingNeverFails
<1>1. TreeInv /\ [Next]_vars =>
        [outcome = "running" /\ Skipping => outcome' \in {"running", "done"}]_vars
  BY SkippingStep
<1> QED BY <1>1, TreeInvariance, PTL DEF Spec, SkippingNeverFails


-----------------------------------------------------------------------------
(* What the invariants say of the stacks, before and after a step. *)

LEMMA StacksHold ==
  IInv => /\ WellStacked(Len(conds), status_stack, symbol_stack)
          /\ status_stack \in Seq(Status \ {0}) /\ symbol_stack \in Seq(Held(Len(conds)))
          /\ Len(status_stack) \in Nat /\ Len(symbol_stack) = Len(status_stack)
          /\ DOMAIN status_stack = 1 .. Len(status_stack)
          /\ Len(conds) \in Nat
<1> SUFFICES ASSUME IInv
             PROVE  /\ WellStacked(Len(conds), status_stack, symbol_stack)
                    /\ Len(conds) \in Nat
  BY DEF WellStacked, Matched
<1>1. symbol_stack \in Seq(Symbol)
  BY DEF IInv, TypeOfStacks
<1>2. \A i \in 1 .. Len(symbol_stack) : symbol_stack[i] \in Held(Len(conds))
  BY <1>1 DEF IInv, TypeOfCode, CondsExist, Held
<1>3. symbol_stack \in Seq(Held(Len(conds)))
  BY <1>1, <1>2
<1>4. conds \in Seq(CondOf(MaybeBlock)) /\ status_stack \in Seq(Status \ {0})
  BY DEF IInv, TypeOfCode, TypeOfStacks
<1>5. Len(conds) \in Nat
  BY <1>4
<1>6. Matched(status_stack, symbol_stack)
  BY DEF IInv, StacksMatch
<1> QED BY <1>3, <1>4, <1>5, <1>6 DEF WellStacked

LEMMA Stacks ==
  ASSUME IInv
  PROVE  /\ WellStacked(Len(conds), status_stack, symbol_stack)
         /\ status_stack \in Seq(Status \ {0}) /\ symbol_stack \in Seq(Held(Len(conds)))
         /\ Len(status_stack) \in Nat /\ Len(symbol_stack) = Len(status_stack)
         /\ DOMAIN status_stack = 1 .. Len(status_stack)
         /\ Len(conds) \in Nat
  BY StacksHold

LEMMA StacksNext ==
  ASSUME IInv'
  PROVE  /\ WellStacked(Len(conds'), status_stack', symbol_stack')
         /\ status_stack' \in Seq(Status \ {0}) /\ symbol_stack' \in Seq(Held(Len(conds')))
         /\ Len(status_stack') \in Nat /\ Len(symbol_stack') = Len(status_stack')
         /\ DOMAIN status_stack' = 1 .. Len(status_stack')
         /\ Len(conds') \in Nat
<1>1. (IInv => /\ WellStacked(Len(conds), status_stack, symbol_stack)
               /\ status_stack \in Seq(Status \ {0}) /\ symbol_stack \in Seq(Held(Len(conds)))
               /\ Len(status_stack) \in Nat /\ Len(symbol_stack) = Len(status_stack)
               /\ DOMAIN status_stack = 1 .. Len(status_stack)
               /\ Len(conds) \in Nat)'
  BY StacksHold, PTL
<1> QED BY <1>1

\* A finished "if" is on top of what the handlers get.
LEMMA Handed ==
  ASSUME IInv, NEW t \in Token
  PROVE  /\ Statuses(t) \in Seq(Status \ {0}) /\ Len(Statuses(t)) \in 0 .. Len(status_stack)
         /\ Symbols(t) \in Seq(Held(Len(conds))) /\ Len(Symbols(t)) = Len(Statuses(t))
         /\ \A i \in 1 .. Len(Statuses(t)) :
              Statuses(t)[i] = status_stack[i] /\ Symbols(t)[i] = symbol_stack[i]
         /\ \A i \in Len(Statuses(t)) + 1 .. Len(status_stack) : status_stack[i] = 20
<1>1. WellStacked(Len(conds), Statuses(t), Symbols(t))
  BY Dispatch
<1>2. /\ Statuses(t) \in Seq(Status \ {0}) /\ Symbols(t) \in Seq(Held(Len(conds)))
      /\ Len(Symbols(t)) = Len(Statuses(t))
  BY <1>1 DEF WellStacked, Matched
<1>3. /\ status_stack \in Seq(Status \ {0}) /\ symbol_stack \in Seq(Held(Len(conds)))
      /\ Len(status_stack) \in Nat /\ Len(symbol_stack) = Len(status_stack)
  BY Stacks
<1>4. CASE NoElse(t)
  <2> DEFINE n == Len(status_stack) - 1
  <2>1. /\ status_stack # <<>> /\ status_stack[n + 1] = 20
        /\ Statuses(t) = SubSeq(status_stack, 1, n) /\ Symbols(t) = SubSeq(symbol_stack, 1, n)
    BY <1>3, <1>4 DEF NoElse, Last, Statuses, Symbols, Front
  <2>2. n \in Nat /\ n + 1 = Len(status_stack)
    BY <1>3, <2>1
  <2> HIDE DEF n
  <2>3. /\ Len(SubSeq(status_stack, 1, n)) = n
        /\ \A i \in 1 .. n : SubSeq(status_stack, 1, n)[i] = status_stack[i]
        /\ \A i \in 1 .. n : SubSeq(symbol_stack, 1, n)[i] = symbol_stack[i]
    BY <1>3, <2>2
  <2> QED BY <1>2, <2>1, <2>2, <2>3
<1>5. CASE ~NoElse(t)
  BY <1>2, <1>3, <1>5 DEF Statuses, Symbols
<1> QED BY <1>4, <1>5

LEMMA PushTwo ==
  ASSUME NEW S, NEW s \in Seq(S), NEW x \in S, NEW y
  PROVE  /\ Len(Append(s \o <<x>>, y)) = Len(s) + 2
         /\ Append(s \o <<x>>, y)[Len(s) + 1] = x /\ Append(s \o <<x>>, y)[Len(s) + 2] = y
         /\ \A i \in 1 .. Len(s) : Append(s \o <<x>>, y)[i] = s[i]
<1>1. /\ Append(s, x) = s \o <<x>> /\ Append(s, x) \in Seq(S) /\ Len(Append(s, x)) = Len(s) + 1
      /\ Append(s, x)[Len(s) + 1] = x /\ \A i \in 1 .. Len(s) : Append(s, x)[i] = s[i]
      /\ Len(s) \in Nat
  BY AppendIsConcat
<1> DEFINE z == Append(s, x)
<1> HIDE DEF z
<1>2. ASSUME z \in Seq(S), Len(z) = Len(s) + 1
      PROVE  /\ Len(Append(z, y)) = Len(s) + 2 /\ Append(z, y)[Len(s) + 2] = y
             /\ \A i \in 1 .. Len(s) + 1 : Append(z, y)[i] = z[i]
  BY <1>1, <1>2
<1> QED BY <1>1, <1>2 DEF z


-----------------------------------------------------------------------------
(* Counting the open parentheses. *)

IsOpen(ss, ys, i) == ss[i] = 7 /\ ys[i].key = "("
NoneAbove(ss, ys, n) == \A i \in n + 1 .. Len(ss) : ~IsOpen(ss, ys, i)

LEMMA ParensAreFinite ==
  ASSUME NEW S, NEW ss \in Seq(S), NEW ys
  PROVE  /\ IsFiniteSet(OpenParentheses(ss, ys)) /\ Cardinality(OpenParentheses(ss, ys)) \in Nat
         /\ OpenParentheses(ss, ys) = {i \in 1 .. Len(ss) : IsOpen(ss, ys, i)}
<1>1. Len(ss) \in Nat /\ DOMAIN ss = 1 .. Len(ss)
  OBVIOUS
<1>2. IsFiniteSet(1 .. Len(ss)) /\ OpenParentheses(ss, ys) \in SUBSET (1 .. Len(ss))
  BY <1>1, FS_Interval DEF OpenParentheses
<1> QED BY <1>1, <1>2, FS_Subset, FS_CardinalityType DEF OpenParentheses, IsOpen

\* The lowest n entries of both stacks agree.
Agree(ss, ys, zs, ws, n) ==
  /\ n \in Nat /\ n <= Len(ss) /\ n <= Len(zs)
  /\ \A i \in 1 .. n : zs[i] = ss[i] /\ ws[i] = ys[i]

\* No parenthesis is open above what stays, or the one at q.
LEMMA ParensStay ==
  ASSUME NEW S, NEW ss \in Seq(S), NEW zs \in Seq(S), NEW ys, NEW ws,
         NEW n, Agree(ss, ys, zs, ws, n), NoneAbove(zs, ws, n)
  PROVE  /\ OpenParentheses(zs, ws) \subseteq OpenParentheses(ss, ys)
         /\ NoneAbove(ss, ys, n) => OpenParentheses(zs, ws) = OpenParentheses(ss, ys)
         /\ \A q \in n + 1 .. Len(ss) :
              IsOpen(ss, ys, q) /\ (\A i \in n + 1 .. Len(ss) : i # q => ~IsOpen(ss, ys, i)) =>
                /\ OpenParentheses(zs, ws) = OpenParentheses(ss, ys) \ {q}
                /\ q \in OpenParentheses(ss, ys)
<1>1. /\ OpenParentheses(ss, ys) = {i \in 1 .. Len(ss) : IsOpen(ss, ys, i)}
      /\ OpenParentheses(zs, ws) = {i \in 1 .. Len(zs) : IsOpen(zs, ws, i)}
      /\ Len(ss) \in Nat /\ Len(zs) \in Nat /\ n \in Nat
  BY ParensAreFinite DEF Agree
<1>2. \A i \in 1 .. n : IsOpen(zs, ws, i) <=> IsOpen(ss, ys, i)
  BY DEF Agree, IsOpen
<1>3. OpenParentheses(zs, ws) = {i \in 1 .. n : IsOpen(ss, ys, i)}
  <2>1. \A i \in 1 .. Len(zs) : i \in 1 .. n \/ i \in n + 1 .. Len(zs)
    BY <1>1
  <2>2. 1 .. n \subseteq 1 .. Len(zs)
    BY <1>1 DEF Agree
  <2> QED BY <1>1, <1>2, <2>1, <2>2 DEF NoneAbove
<1>4. (\A i \in 1 .. Len(ss) : i \in 1 .. n \/ i \in n + 1 .. Len(ss)) /\ 1 .. n \subseteq 1 .. Len(ss)
  BY <1>1 DEF Agree
<1>5. ASSUME NEW q \in n + 1 .. Len(ss), IsOpen(ss, ys, q),
             \A i \in n + 1 .. Len(ss) : i # q => ~IsOpen(ss, ys, i)
      PROVE  /\ OpenParentheses(zs, ws) = OpenParentheses(ss, ys) \ {q}
             /\ q \in OpenParentheses(ss, ys)
  <2>1. q \in 1 .. Len(ss) /\ q \notin 1 .. n
    BY <1>1
  <2> QED BY <1>1, <1>3, <1>4, <1>5, <2>1
<1> QED BY <1>1, <1>3, <1>4, <1>5 DEF NoneAbove

\* One entry is pushed.
LEMMA ParensOfPush ==
  ASSUME NEW S, NEW ss \in Seq(S), NEW T, NEW ys \in Seq(T), Len(ys) = Len(ss), NEW s \in S, NEW y \in T
  PROVE  LET old == OpenParentheses(ss, ys)
             new == OpenParentheses(Append(ss, s), Append(ys, y))
         IN  /\ ~(s = 7 /\ y.key = "(") => new = old
             /\ s = 7 /\ y.key = "(" => new = old \cup {Len(ss) + 1} /\ Len(ss) + 1 \notin old
<1> DEFINE zs == Append(ss, s)
           ws == Append(ys, y)
           k == Len(ss)
<1>1. /\ zs \in Seq(S) /\ Len(zs) = k + 1 /\ k \in Nat /\ zs[k + 1] = s /\ ws[k + 1] = y
      /\ \A i \in 1 .. k : zs[i] = ss[i] /\ ws[i] = ys[i]
  OBVIOUS
<1> HIDE DEF zs, ws
<1>2. /\ OpenParentheses(ss, ys) = {i \in 1 .. k : IsOpen(ss, ys, i)}
      /\ OpenParentheses(zs, ws) = {i \in 1 .. k + 1 : IsOpen(zs, ws, i)}
  BY <1>1, ParensAreFinite
<1>3. 1 .. k + 1 = (1 .. k) \cup {k + 1} /\ k + 1 \notin 1 .. k
  BY <1>1
<1>4. OpenParentheses(zs, ws) = OpenParentheses(ss, ys) \cup {i \in {k + 1} : s = 7 /\ y.key = "("}
  BY <1>1, <1>2, <1>3 DEF IsOpen
<1> QED BY <1>2, <1>3, <1>4 DEF zs, ws

-----------------------------------------------------------------------------
(* What a step does to the priorities. *)

\* A list is dropped with a parenthesis that is open in it.
DropsAList ==
  /\ Unpaired' > Unpaired /\ UNCHANGED priority_stack
  /\ \E i \in DOMAIN status_stack \ DOMAIN status_stack' :
       status_stack[i] = 2 /\ symbol_stack[i].key = "COMMA"

Leaves255 == TopOf(status_stack') \notin {2, 7} => last_priority' = 255

\* What a step has to show.
Paired ==
  /\ TypeOfPriorities'
  /\ Leaves255
  /\ Unpaired' = Unpaired \/ DropsAList

\* What a step starts from.
PrioInv == TypeOfPriorities /\ NothingLeaks

LEMMA TopIsLast ==
  ASSUME NothingLeaks
  PROVE  /\ TopOf(status_stack) \notin {2, 7} => last_priority = 255
         /\ TopOf(status_stack) \notin {3, 5} => pointer_level \in {0, UnsetPointerLevel}
         /\ Unpaired >= 0
  BY DEF NothingLeaks, TopOf, Last

\* The parentheses, the saved priorities and the last one stay.
LEMMA KeptPairs ==
  ASSUME TypeOfPriorities, UNCHANGED priority_stack,
         last_priority' \in 1 .. 255, Leaves255,
         OpenParentheses(status_stack', symbol_stack') = OpenParentheses(status_stack, symbol_stack)
  PROVE  Paired
<1>1. Unpaired' = Unpaired
  BY DEF Unpaired
<1> QED BY <1>1 DEF Paired, TypeOfPriorities

LEMMA NothingPairs ==
  ASSUME PrioInv, UNCHANGED <<status_stack, symbol_stack, priority_stack, last_priority>>
  PROVE  Paired
<1>1. Leaves255
  BY TopIsLast DEF PrioInv, Leaves255
<1> QED BY <1>1, KeptPairs DEF PrioInv, TypeOfPriorities

LEMMA EndPairs ==
  ASSUME PrioInv, NEW o, End(o)
  PROVE  Paired
  BY NothingPairs DEF End, stacks, priorities

\* Outside expressions no parenthesis is open.
Dry(ss) == \A i \in DOMAIN ss : ss[i] \notin {2, 7}

LEMMA DryStack ==
  ASSUME NEW S, NEW ss \in Seq(S), Flat(ss), TopOf(ss) \notin {2, 7}
  PROVE  Dry(ss)
<1>1. Len(ss) \in Nat /\ DOMAIN ss = 1 .. Len(ss)
  OBVIOUS
<1>2. \A i \in DOMAIN ss : Len(ss) \in i .. Len(ss) /\ ss # <<>>
  BY <1>1
<1> QED BY <1>1, <1>2 DEF Dry, Flat, TopOf

LEMMA DryCut ==
  ASSUME NEW S, NEW ss \in Seq(S), Dry(ss), NEW n \in 0 .. Len(ss), NEW s \in S, s \notin {2, 7}
  PROVE  /\ Dry(SubSeq(ss, 1, n)) /\ TopOf(SubSeq(ss, 1, n)) \notin {2, 7}
         /\ Dry(Append(SubSeq(ss, 1, n), s)) /\ TopOf(Append(SubSeq(ss, 1, n), s)) \notin {2, 7}
<1> DEFINE cut == SubSeq(ss, 1, n)
<1>1. /\ cut \in Seq(S) /\ Len(cut) = n /\ DOMAIN cut = 1 .. n /\ n \in Nat /\ DOMAIN ss = 1 .. Len(ss)
      /\ \A i \in 1 .. n : cut[i] = ss[i]
  OBVIOUS
<1>2. 1 .. n \subseteq 1 .. Len(ss)
  OBVIOUS
<1>3. Dry(cut)
  BY <1>1, <1>2 DEF Dry
<1> HIDE DEF cut
<1>4. TopOf(cut) \notin {2, 7}
  BY <1>1, <1>3 DEF Dry, TopOf
<1>5. /\ Append(cut, s) \in Seq(S) /\ Len(Append(cut, s)) = n + 1 /\ Append(cut, s)[n + 1] = s
      /\ DOMAIN Append(cut, s) = 1 .. n + 1
      /\ \A i \in 1 .. n : Append(cut, s)[i] = cut[i]
  BY <1>1
<1>6. \A i \in 1 .. n + 1 : i \in 1 .. n \/ i = n + 1
  BY <1>1
<1>7. Dry(Append(cut, s)) /\ TopOf(Append(cut, s)) \notin {2, 7}
  BY <1>1, <1>3, <1>5, <1>6 DEF Dry, TopOf
<1> QED BY <1>3, <1>4, <1>7 DEF cut

LEMMA DryPairs ==
  ASSUME PrioInv, Dry(status_stack), Dry(status_stack'), UNCHANGED priorities,
         TopOf(status_stack) \notin {2, 7}
  PROVE  Paired
<1>1. UNCHANGED <<priority_stack, last_priority>>
  BY DEF priorities
<1>2. /\ OpenParentheses(status_stack, symbol_stack) = {}
      /\ OpenParentheses(status_stack', symbol_stack') = {}
  BY DEF OpenParentheses, Dry
<1>3. last_priority = 255 /\ last_priority \in 1 .. 255
  BY TopIsLast DEF PrioInv
<1> QED BY <1>1, <1>2, <1>3, KeptPairs DEF Leaves255, PrioInv, TypeOfPriorities

\* A handler that runs outside expressions cuts the stack it was given and may push a
\* status that is of no expression.
LEMMA OutsidePairs ==
  ASSUME TreeInv, PrioInv, NEW t \in Token, CurrentStatus(t) \notin {2, 7}, UNCHANGED priorities,
         Dry(Statuses(t)) => Dry(status_stack')
  PROVE  Paired
<1>1. /\ Statuses(t) \in Seq(Status \ {0}) /\ status_stack \in Seq(Status \ {0})
      /\ Flat(Statuses(t)) /\ Flat(status_stack) /\ CurrentStatus(t) = TopOf(Statuses(t))
  BY Start, Dispatch, Stacks DEF TreeInv
<1>2. Dry(status_stack')
  BY <1>1, DryStack
<1>3. TopOf(status_stack) \notin {2, 7}
  <2>1. CASE NoElse(t)
    BY <2>1 DEF NoElse, TopOf, Last
  <2>2. CASE ~NoElse(t)
    BY <1>1, <2>2 DEF Statuses
  <2> QED BY <2>1, <2>2
<1>4. Dry(status_stack)
  BY <1>1, <1>3, DryStack
<1> QED BY <1>2, <1>3, <1>4, DryPairs

LEMMA CutPairs ==
  ASSUME TreeInv, PrioInv, NEW t \in Token, CurrentStatus(t) \notin {2, 7}, UNCHANGED priorities,
         NEW n \in 0 .. Len(Statuses(t)), status_stack' = SubSeq(Statuses(t), 1, n)
  PROVE  Paired
<1> DEFINE ss == Statuses(t)
           S == Status \ {0}
<1>1. ss \in Seq(S) /\ 1 \in S
  BY Dispatch DEF TreeInv, WellStacked, Status
<1>2. Dry(ss) => Dry(SubSeq(ss, 1, n))
  <2> HIDE DEF S
  <2> QED BY <1>1, DryCut
<1> QED BY <1>2, OutsidePairs

LEMMA PushPairs ==
  ASSUME TreeInv, PrioInv, NEW t \in Token, CurrentStatus(t) \notin {2, 7}, UNCHANGED priorities,
         NEW n \in 0 .. Len(Statuses(t)), NEW s \in Status \ {0, 2, 7},
         status_stack' = Append(SubSeq(Statuses(t), 1, n), s)
  PROVE  Paired
<1> DEFINE ss == Statuses(t)
           S == Status \ {0}
<1>1. ss \in Seq(S) /\ s \in S /\ s \notin {2, 7}
  BY Dispatch DEF TreeInv, WellStacked
<1>2. Dry(ss) => Dry(Append(SubSeq(ss, 1, n), s))
  <2> HIDE DEF S
  <2> QED BY <1>1, DryCut
<1> QED BY <1>2, OutsidePairs

LEMMA TopOfPush ==
  ASSUME NEW S, NEW ss \in Seq(S), NEW s \in S
  PROVE  TopOf(Append(ss, s)) = s
  BY DEF TopOf

\* There is room for what the handlers drop.
LEMMA Room ==
  ASSUME TreeInv, NEW t \in Token
  PROVE  LET N == Len(Statuses(t)) IN
         /\ CurrentStatus(t) # 0 => N - 1 \in 0 .. N
         /\ CurrentStatus(t) \in {10, 12, 15, 22} => N - 2 \in 0 .. N
         /\ CurrentStatus(t) \notin {15, 19, 22, 24} => Statuses(t) = status_stack
<1> DEFINE N == Len(Statuses(t))
<1>1. CurrentStatus(t) # 0 => N - 1 \in 0 .. N
  BY TopCut DEF TreeInv
<1>2. CurrentStatus(t) \in {10, 12, 15, 22} => N - 2 \in 0 .. N
  BY SecondCut DEF TreeInv
<1>3. CurrentStatus(t) \notin {15, 19, 22, 24} => Statuses(t) = status_stack
  BY Dispatch DEF TreeInv
<1> QED BY <1>1, <1>2, <1>3

\* The rows that are shifted: no parenthesis, and on an expression an operand.
LEMMA ShiftFacts ==
  ASSUME NEW s \in Status, NEW k \in Key, NEW n \in Status, <<s, k, n>> \in ShiftRows
  PROVE  n # 7 /\ s \notin {3, 5} /\ (s \in {2, 7} => n = 2) /\ (s \notin {2, 7} /\ n = 2 => s \in {0} \cup Opening)
  BY DEF ShiftRows, Opening

LEMMA ShiftPairs ==
  ASSUME TreeInv, PrioInv, NEW t \in Token, Shift(t)
  PROVE  Paired
<1> DEFINE s == CurrentStatus(t)
           next == ShiftTo[s][t.key]
<1>1. /\ s \in Status /\ t.key \in Key /\ Lexeme(t) \in Held(Len(conds))
      /\ CurrentStatus(t) = TopOf(Statuses(t))
  BY Dispatch, TokenIsSymbol DEF TreeInv
<1>2. /\ next # -1 /\ status_stack' = Append(Statuses(t), next)
      /\ symbol_stack' = Append(Symbols(t), Lexeme(t)) /\ UNCHANGED priorities
  BY DEF Shift
<1>3. next \in Status /\ <<s, t.key, next>> \in ShiftRows
  BY <1>1, <1>2, ShiftToRow
<1>4. next \in Status \ {0}
  BY <1>1, <1>3, ShiftFits
<1>5. next # 7 /\ (s \in {2, 7} => next = 2)
  BY <1>1, <1>3, ShiftFacts
<1> HIDE DEF next
<1>6. /\ Statuses(t) \in Seq(Status \ {0}) /\ Symbols(t) \in Seq(Held(Len(conds)))
      /\ Len(Symbols(t)) = Len(Statuses(t)) /\ Len(Statuses(t)) \in Nat
      /\ status_stack \in Seq(Status \ {0})
      /\ \A i \in 1 .. Len(Statuses(t)) :
           Statuses(t)[i] = status_stack[i] /\ Symbols(t)[i] = symbol_stack[i]
      /\ \A i \in Len(Statuses(t)) + 1 .. Len(status_stack) : status_stack[i] = 20
      /\ Len(Statuses(t)) <= Len(status_stack)
  <2>1. IInv
    BY DEF TreeInv
  <2>2. Len(Statuses(t)) \in 0 .. Len(status_stack)
    BY <2>1, Handed
  <2> QED BY <2>1, <2>2, Handed, Stacks
<1>7. OpenParentheses(status_stack', symbol_stack') = OpenParentheses(Statuses(t), Symbols(t))
  BY <1>1, <1>2, <1>4, <1>5, <1>6, ParensOfPush
<1>8. OpenParentheses(Statuses(t), Symbols(t)) = OpenParentheses(status_stack, symbol_stack)
  <2>1. Agree(status_stack, symbol_stack, Statuses(t), Symbols(t), Len(Statuses(t)))
    BY <1>6 DEF Agree
  <2>2. /\ NoneAbove(Statuses(t), Symbols(t), Len(Statuses(t)))
        /\ NoneAbove(status_stack, symbol_stack, Len(Statuses(t)))
    BY <1>6 DEF NoneAbove, IsOpen
  <2> QED BY <1>6, <2>1, <2>2, ParensStay
<1>9. TopOf(status_stack') = next
  BY <1>2, <1>4, <1>6, TopOfPush
<1>10. Leaves255
  <2>1. CASE next = 2
    BY <1>9, <2>1 DEF Leaves255
  <2>2. CASE s \notin {2, 7}
    <3>1. TopOf(status_stack) \notin {2, 7}
      <4>1. CASE NoElse(t)
        BY <4>1 DEF NoElse, TopOf, Last
      <4>2. CASE ~NoElse(t)
        BY <1>1, <2>2, <4>2 DEF Statuses
      <4> QED BY <4>1, <4>2
    <3> QED BY <1>2, <3>1, TopIsLast DEF PrioInv, Leaves255, priorities
  <2> QED BY <1>5, <2>1, <2>2
<1>11. last_priority' \in 1 .. 255 /\ UNCHANGED priority_stack
  BY <1>2 DEF PrioInv, TypeOfPriorities, priorities
<1> QED BY <1>7, <1>8, <1>10, <1>11, KeptPairs DEF PrioInv

LEMMA HeaderPairs ==
  ASSUME TreeInv, PrioInv, NEW t \in Token, Header(t)
  PROVE  Paired
<1> DEFINE N == Len(Statuses(t))
<1>1. CurrentStatus(t) \in Status /\ t.key \in Key
  BY Dispatch, TokenIsSymbol DEF TreeInv
<1>2. CASE \E o : End(o)
  BY <1>2, EndPairs
<1>3. ASSUME CurrentStatus(t) \in {9, 10, 12, 18}
      PROVE  /\ Statuses(t) = status_stack /\ CurrentStatus(t) \notin {2, 7}
             /\ N - 1 \in 0 .. N /\ (CurrentStatus(t) \in {10, 12} => N - 2 \in 0 .. N)
  BY <1>3, Room
<1>4. \A s \in {10, 14, 25} : s \in Status \ {0, 2, 7}
  BY DEF Status
<1>5. CASE get_function_name(t)
  <2>1. CurrentStatus(t) = 9
    BY <1>1, <1>5, Registered DEF get_function_name, On, NoEntry
  <2>2. status_stack' = Append(SubSeq(Statuses(t), 1, N - 1), 10) /\ UNCHANGED priorities
    BY <1>3, <1>5, <2>1 DEF get_function_name, Pop
  <2> QED BY <1>3, <1>4, <2>1, <2>2, CutPairs, PushPairs
<1>6. CASE get_argument(t)
  <2>1. CurrentStatus(t) = 12
    BY <1>1, <1>6, Registered DEF get_argument, On, NoEntry
  <2>2. \/ End("threw")
        \/ status_stack' = SubSeq(Statuses(t), 1, N - 2) /\ UNCHANGED priorities
    BY <1>3, <1>6, <2>1 DEF get_argument, Pop
  <2> QED BY <1>2, <1>3, <2>1, <2>2, CutPairs, PushPairs
<1>7. CASE wait_function_return_type(t)
  <2>1. CurrentStatus(t) = 10
    BY <1>1, <1>7, Registered DEF wait_function_return_type, On, NoEntry
  <2>2. status_stack' = Append(SubSeq(Statuses(t), 1, N - 2), 14) /\ UNCHANGED priorities
    BY <1>3, <1>7, <2>1 DEF wait_function_return_type, Pop
  <2> QED BY <1>3, <1>4, <2>1, <2>2, CutPairs, PushPairs
<1>8. CASE get_function_return_type(t)
  <2>1. CurrentStatus(t) = 18
    BY <1>1, <1>8, Registered DEF get_function_return_type, On, NoEntry
  <2>2. \/ End("threw")
        \/ status_stack' = Append(SubSeq(Statuses(t), 1, N - 1), 25) /\ UNCHANGED priorities
    BY <1>3, <1>8, <2>1 DEF get_function_return_type, Pop
  <2> QED BY <1>2, <1>3, <1>4, <2>1, <2>2, CutPairs, PushPairs
<1>9. CASE function_declear(t)
  BY <1>2, <1>9 DEF function_declear
<1> QED BY <1>5, <1>6, <1>7, <1>8, <1>9 DEF Header

LEMMA VariablePairs ==
  ASSUME TreeInv, PrioInv, NEW t \in Token, Variable(t)
  PROVE  Paired
<1> DEFINE N == Len(Statuses(t))
<1>1. CurrentStatus(t) \in Status /\ t.key \in Key
  BY Dispatch, TokenIsSymbol DEF TreeInv
<1>2. CASE \E o : End(o)
  BY <1>2, EndPairs
<1>3. ASSUME CurrentStatus(t) \in {3, 4, 5}
      PROVE  Statuses(t) = status_stack /\ CurrentStatus(t) \notin {2, 7} /\ N - 1 \in 0 .. N
  BY <1>3, Room
<1>4. 4 \in Status \ {0, 2, 7}
  BY DEF Status
<1>5. CASE define_pointer(t)
  BY <1>5, NothingPairs DEF define_pointer, stacks, priorities
<1>6. CASE define_variable(t)
  <2>1. CurrentStatus(t) = 3
    BY <1>1, <1>6, Registered DEF define_variable, On, NoEntry
  <2>2. \/ End("threw")
        \/ status_stack' = Append(SubSeq(Statuses(t), 1, N - 1), 4) /\ UNCHANGED priorities
    BY <1>3, <1>6, <2>1 DEF define_variable, Define, Pop
  <2> QED BY <1>2, <1>3, <1>4, <2>1, <2>2, CutPairs, PushPairs
<1>7. CASE define_again(t)
  <2>1. CurrentStatus(t) = 5
    BY <1>1, <1>7, Registered DEF define_again, On, NoEntry
  <2>2. \/ End("threw")
        \/ status_stack' = SubSeq(Statuses(t), 1, N - 1) /\ UNCHANGED priorities
    BY <1>3, <1>7, <2>1 DEF define_again, Define, Pop
  <2> QED BY <1>2, <1>3, <2>1, <2>2, CutPairs, PushPairs
<1>8. CASE define_finished(t)
  <2>1. CurrentStatus(t) = 4
    BY <1>1, <1>8, Registered DEF define_finished, On, NoEntry
  <2>2. status_stack' = SubSeq(Statuses(t), 1, N - 1) /\ UNCHANGED priorities
    BY <1>3, <1>8, <2>1 DEF define_finished, Pop
  <2> QED BY <1>3, <2>1, <2>2, CutPairs, PushPairs
<1> QED BY <1>5, <1>6, <1>7, <1>8 DEF Variable

LEMMA BodyPairs ==
  ASSUME TreeInv, PrioInv, NEW t \in Token, Body(t)
  PROVE  Paired
<1> DEFINE N == Len(Statuses(t))
<1>1. CurrentStatus(t) \in Status /\ t.key \in Key
  BY Dispatch, TokenIsSymbol DEF TreeInv
<1>2. CASE \E o : End(o)
  BY <1>2, EndPairs
<1>3. N \in 0 .. N /\ SubSeq(Statuses(t), 1, N) = Statuses(t)
  BY WholeStack DEF TreeInv
<1>4. 15 \in Status \ {0, 2, 7}
  BY DEF Status
<1>5. CASE function_body_define_strart(t)
  <2>1. CurrentStatus(t) = 14
    BY <1>1, <1>5, Registered DEF function_body_define_strart, On, NoEntry
  <2>2. Statuses(t) = status_stack
    BY <2>1, Dispatch DEF TreeInv
  <2>3. \/ End("undefined")
        \/ status_stack' = Append(SubSeq(Statuses(t), 1, N), 15) /\ UNCHANGED priorities
    BY <1>3, <1>5, <2>2 DEF function_body_define_strart, StartBody
  <2> QED BY SMTT(40), <1>2, <1>3, <1>4, <2>1, <2>3, CutPairs, PushPairs
<1>6. CASE has_return_type_function_define(t)
  <2>1. CurrentStatus(t) = 25
    BY <1>1, <1>6, Registered DEF has_return_type_function_define, On, NoEntry
  <2>2. Statuses(t) = status_stack /\ N - 1 \in 0 .. N
    BY <2>1, Room
  <2>3. \/ End("undefined")
        \/ status_stack' = Append(SubSeq(Statuses(t), 1, N - 1), 15) /\ UNCHANGED priorities
    BY <1>6, <2>2 DEF has_return_type_function_define, StartBody, Pop
  <2>4. CurrentStatus(t) \notin {2, 7} /\ 15 \in Status \ {0, 2, 7}
    BY <1>4, <2>1
  <2>5. CASE status_stack' = Append(SubSeq(Statuses(t), 1, N - 1), 15) /\ UNCHANGED priorities
    BY <2>2, <2>4, <2>5, PushPairs
  <2> QED BY <1>2, <2>3, <2>5
<1>7. CASE function_body_define_finished(t)
  <2>1. CurrentStatus(t) = 15
    BY <1>1, <1>7, Registered DEF function_body_define_finished, On, NoEntry
  <2>2. N - 2 \in 0 .. N
    BY <2>1, Room
  <2>3. status_stack' = SubSeq(Statuses(t), 1, N - 2) /\ UNCHANGED priorities
    BY <1>7 DEF function_body_define_finished, Pop
  <2> QED BY <2>1, <2>2, <2>3, CutPairs, PushPairs
<1> QED BY <1>5, <1>6, <1>7 DEF Body

LEMMA BranchingPairs ==
  ASSUME TreeInv, PrioInv, NEW t \in Token, Branching(t)
  PROVE  Paired
<1> DEFINE N == Len(Statuses(t))
<1>1. CurrentStatus(t) \in Status /\ t.key \in Key
  BY Dispatch, TokenIsSymbol DEF TreeInv
<1>2. CASE \E o : End(o)
  BY <1>2, EndPairs
<1>3. N \in 0 .. N /\ SubSeq(Statuses(t), 1, N) = Statuses(t)
  BY WholeStack DEF TreeInv
<1>4. \A s \in {17, 20, 21, 23} : s \in Status \ {0, 2, 7}
  BY DEF Status
<1>5. CASE start_while_condition(t) \/ start_if_condition(t)
  <2>1. CurrentStatus(t) \in {15, 19, 22, 24}
    BY <1>1, <1>5, Registered DEF start_while_condition, start_if_condition, On, NoEntry
  <2>2. \/ status_stack' = Append(SubSeq(Statuses(t), 1, N), 23) /\ UNCHANGED priorities
        \/ status_stack' = Append(SubSeq(Statuses(t), 1, N), 17) /\ UNCHANGED priorities
    BY <1>3, <1>5 DEF start_while_condition, start_if_condition
  <2>3. CurrentStatus(t) \notin {2, 7} /\ 23 \in Status \ {0, 2, 7} /\ 17 \in Status \ {0, 2, 7}
    BY <1>4, <2>1
  <2>4. ASSUME NEW s \in Status \ {0, 2, 7}, UNCHANGED priorities,
               status_stack' = Append(SubSeq(Statuses(t), 1, N), s)
        PROVE  Paired
    BY <1>3, <2>3, <2>4, PushPairs
  <2> QED BY <2>2, <2>3, <2>4
<1>6. CASE end_while_body(t)
  <2>1. CurrentStatus(t) = 24
    BY <1>1, <1>6, Registered DEF end_while_body, On, NoEntry
  <2>2. N - 1 \in 0 .. N
    BY <2>1, Room
  <2>3. status_stack' = SubSeq(Statuses(t), 1, N - 1) /\ UNCHANGED priorities
    BY <1>6 DEF end_while_body, Pop
  <2> QED BY <2>1, <2>2, <2>3, CutPairs, PushPairs
<1>7. CASE end_if_body1(t)
  <2>1. CurrentStatus(t) = 19
    BY <1>1, <1>7, Registered DEF end_if_body1, On, NoEntry
  <2>2. N - 1 \in 0 .. N
    BY <2>1, Room
  <2>3. status_stack' = Append(SubSeq(Statuses(t), 1, N - 1), 20) /\ UNCHANGED priorities
    BY <1>7 DEF end_if_body1, Pop
  <2>4. CurrentStatus(t) \notin {2, 7} /\ 20 \in Status \ {0, 2, 7}
    BY <1>4, <2>1
  <2> QED BY <2>2, <2>3, <2>4, PushPairs
<1>8. CASE check_if_body2(t)
  <2>1. CurrentStatus(t) = 20
    BY <1>1, <1>8, Registered DEF check_if_body2, On, NoEntry
  <2>2. N - 1 \in 0 .. N /\ Statuses(t) = status_stack
    BY <2>1, Room
  <2>3. status_stack' = Append(SubSeq(Statuses(t), 1, N - 1), 21) /\ UNCHANGED priorities
    BY <1>8, <2>2 DEF check_if_body2, Pop
  <2> QED BY <1>4, <2>1, <2>2, <2>3, CutPairs, PushPairs
<1>9. CASE end_if_body2(t)
  <2>1. CurrentStatus(t) = 22
    BY <1>1, <1>9, Registered DEF end_if_body2, On, NoEntry
  <2>2. N - 2 \in 0 .. N
    BY <2>1, Room
  <2>3. \/ End("undefined")
        \/ status_stack' = SubSeq(Statuses(t), 1, N - 2) /\ UNCHANGED priorities
    BY <1>9 DEF end_if_body2, Pop
  <2> QED BY <1>2, <2>1, <2>2, <2>3, CutPairs, PushPairs
<1> QED BY <1>5, <1>6, <1>7, <1>8, <1>9 DEF Branching

-----------------------------------------------------------------------------
(* The priorities in an expression. *)

LEMMA PriorityRange == \A k \in Prioritised : Priority[k] \in 1 .. 255
<1> SUFFICES ASSUME NEW k \in Prioritised PROVE Priority[k] \in 1 .. 255
  OBVIOUS
<1>1. PICK row \in PriorityRows : k = row[1]
  BY DEF Prioritised
<1>2. \E p \in 1 .. 15 : <<k, p>> \in PriorityRows
  <2>1. \A r \in PriorityRows : r = <<r[1], r[2]>> /\ r[2] \in 1 .. 15
    BY DEF PriorityRows
  <2> QED BY <1>1, <2>1
<1>3. Priority[k] \in 1 .. 15
  BY <1>2 DEF Priority
<1> QED BY <1>3

\* What has been evaluated without a fault holds operators and operands only.
LEMMA SolvedKeys ==
  ASSUME NEW S, Len(S) \in Nat, NEW m \in 1 .. Len(S), m # Len(S), ValueFaults(S, m) = {}
  PROVE  \A i \in m .. Len(S) : S[i].key # "("
<1> SUFFICES ASSUME NEW i \in m .. Len(S) PROVE S[i].key # "("
  OBVIOUS
<1>1. ~Uncomputable(S, m) /\ ~StrayIsRead(S, m) /\ ~StrayIsUnary(S, m)
  BY DEF ValueFaults
<1>2. "(" \notin Emitted /\ "(" \notin OperandKey
  BY DEF Emitted, OperandKey
<1>3. (i - m) % 2 \in {0, 1} /\ i - m \in Nat
  OBVIOUS
<1>4. CASE (i - m) % 2 = 1
  <2>1. i \in OperatorsFrom(S, m)
    BY <1>4 DEF OperatorsFrom
  <2> QED BY <1>1, <1>2, <2>1 DEF Uncomputable
<1>5. CASE (i - m) % 2 = 0 /\ i # m
  <2>1. i \in OperandsFrom(S, m) /\ i > m
    BY <1>5 DEF OperandsFrom
  <2>2. i \notin Strays(S, m)
    BY <1>1, <2>1 DEF StrayIsUnary
  <2> QED BY <1>2, <2>1, <2>2 DEF Strays
<1>6. CASE i = m
  <2>1. m \in OperandsFrom(S, m) /\ m + 1 \in OperatorsFrom(S, m)
    BY DEF OperandsFrom, OperatorsFrom
  <2>2. S[m + 1].key \in Emitted
    BY <1>1, <2>1 DEF Uncomputable
  <2>3. m \notin Strays(S, m)
    BY <1>1, <2>2 DEF StrayIsRead
  <2> QED BY <1>2, <1>6, <2>1, <2>3 DEF Strays
<1> QED BY <1>3, <1>4, <1>5, <1>6

\* What is above m - 1 is evaluated: no parenthesis is open there.
LEMMA SolvedPlain ==
  ASSUME TreeInv, NEW t \in Token, CurrentStatus(t) = 2, NEW m \in 2 .. Len(symbol_stack),
         StepFaults(symbol_stack, m) = {} \/ ValueFaults(symbol_stack, m) = {}
  PROVE  /\ NoneAbove(status_stack, symbol_stack, m - 1)
         /\ m \in 2 .. Len(status_stack) /\ m - 1 \in 1 .. Len(status_stack)
<1>1. /\ Len(symbol_stack) = Len(status_stack) /\ Len(status_stack) \in Nat
      /\ status_stack[Len(status_stack)] = 2
  BY InExpression DEF TreeInv
<1>2. m - 1 \in 1 .. Len(status_stack) /\ m - 1 + 1 = m /\ m \in 1 .. Len(symbol_stack)
  BY <1>1
<1>3. CASE m = Len(symbol_stack)
  BY <1>1, <1>2, <1>3 DEF NoneAbove, IsOpen
<1>4. CASE m # Len(symbol_stack)
  <2>1. ValueFaults(symbol_stack, m) = {}
    BY <1>4 DEF StepFaults
  <2>2. \A i \in m .. Len(symbol_stack) : symbol_stack[i].key # "("
    BY <1>1, <1>2, <1>4, <2>1, SolvedKeys
  <2> QED BY <1>1, <1>2, <2>2 DEF NoneAbove, IsOpen
<1> QED BY <1>1, <1>3, <1>4

\* Nothing that was open is dropped, and nothing is opened.
LEMMA StayPairs ==
  ASSUME TreeInv, IInv', PrioInv, NEW n,
         Agree(status_stack, symbol_stack, status_stack', symbol_stack', n),
         NoneAbove(status_stack, symbol_stack, n), NoneAbove(status_stack', symbol_stack', n),
         UNCHANGED priority_stack, last_priority' \in 1 .. 255, Leaves255
  PROVE  Paired
<1> DEFINE S == Status \ {0}
<1>1. status_stack \in Seq(S) /\ status_stack' \in Seq(S)
  BY Stacks, StacksNext DEF TreeInv
<1> HIDE DEF S
<1>2. OpenParentheses(status_stack', symbol_stack') = OpenParentheses(status_stack, symbol_stack)
  BY <1>1, ParensStay
<1> QED BY <1>2, KeptPairs DEF PrioInv

\* A statement is cut at n.
LEMMA StatementPairs ==
  ASSUME TreeInv, IInv', PrioInv, NEW n \in 0 .. Len(status_stack),
         NoneAbove(status_stack, symbol_stack, n), UNCHANGED priority_stack, last_priority' = 255,
         \/ /\ status_stack' = SubSeq(status_stack, 1, n)
            /\ symbol_stack' = SubSeq(symbol_stack, 1, n)
         \/ /\ \E s \in Status \ {0, 7} : status_stack' = Append(SubSeq(status_stack, 1, n), s)
            /\ n + 1 \in 0 .. Len(status_stack) /\ symbol_stack' = SubSeq(symbol_stack, 1, n + 1)
  PROVE  Paired
<1>1. /\ status_stack \in Seq(Status \ {0}) /\ symbol_stack \in Seq(Held(Len(conds)))
      /\ Len(symbol_stack) = Len(status_stack) /\ Len(status_stack) \in Nat /\ n \in Nat
  BY Stacks DEF TreeInv
<1>2. /\ SubSeq(status_stack, 1, n) \in Seq(Status \ {0}) /\ Len(SubSeq(status_stack, 1, n)) = n
      /\ \A i \in 1 .. n : SubSeq(status_stack, 1, n)[i] = status_stack[i]
      /\ \A i \in 1 .. n : SubSeq(symbol_stack, 1, n)[i] = symbol_stack[i]
  BY <1>1
<1>3. last_priority' \in 1 .. 255 /\ Leaves255
  BY DEF Leaves255
<1>4. CASE /\ status_stack' = SubSeq(status_stack, 1, n)
           /\ symbol_stack' = SubSeq(symbol_stack, 1, n)
  <2>1. Agree(status_stack, symbol_stack, status_stack', symbol_stack', n)
    BY <1>1, <1>2, <1>4 DEF Agree
  <2>2. NoneAbove(status_stack', symbol_stack', n)
    BY <1>1, <1>2, <1>4 DEF NoneAbove
  <2> QED BY <1>3, <2>1, <2>2, StayPairs
<1>5. ASSUME NEW s \in Status \ {0, 7}, status_stack' = Append(SubSeq(status_stack, 1, n), s),
             n + 1 \in 0 .. Len(status_stack), symbol_stack' = SubSeq(symbol_stack, 1, n + 1)
      PROVE  Paired
  <2>1. /\ Len(status_stack') = n + 1 /\ status_stack'[n + 1] = s
        /\ \A i \in 1 .. n : status_stack'[i] = status_stack[i]
    BY <1>2, <1>5
  <2>2. \A i \in 1 .. n : symbol_stack'[i] = symbol_stack[i]
    BY <1>1, <1>5
  <2>3. Agree(status_stack, symbol_stack, status_stack', symbol_stack', n)
    BY <1>1, <2>1, <2>2 DEF Agree
  <2>4. NoneAbove(status_stack', symbol_stack', n)
    <3>1. \A i \in n + 1 .. n + 1 : i = n + 1
      BY <1>1
    <3> QED BY <1>5, <2>1, <3>1 DEF NoneAbove, IsOpen
  <2> QED BY <1>3, <2>3, <2>4, StayPairs
<1> QED BY <1>4, <1>5

\* A "(" is pushed, and the priority is saved.
LEMMA EnterPairs ==
  ASSUME TreeInv, PrioInv, NEW t \in Token, enter_parentheses(t)
  PROVE  Paired
<1> DEFINE ss == status_stack
           ys == symbol_stack
           old == OpenParentheses(ss, ys)
           new == OpenParentheses(status_stack', symbol_stack')
<1>1. /\ ss \in Seq(Status \ {0}) /\ ys \in Seq(Held(Len(conds))) /\ Len(ys) = Len(ss)
      /\ Lexeme(t) \in Held(Len(conds)) /\ Lexeme(t).key = t.key
      /\ CurrentStatus(t) \in Status /\ t.key \in Key
  BY Stacks, TokenIsSymbol, Dispatch DEF TreeInv
<1>2. t.key = "("
  <2>1. Handler[CurrentStatus(t)][t.key] = "enter_parentheses"
    BY DEF enter_parentheses, On
  <2>2. "enter_parentheses" # NoEntry
    BY DEF NoEntry
  <2> QED BY ONLY <1>1, <2>1, <2>2, Registered
<1>3. /\ status_stack' = Append(ss, 7) /\ symbol_stack' = Append(ys, Lexeme(t))
      /\ priority_stack' = Append(priority_stack, last_priority) /\ last_priority' = 255
  BY DEF enter_parentheses
<1>4. new = old \cup {Len(ss) + 1} /\ Len(ss) + 1 \notin old
  <2> DEFINE S == Status \ {0}
             T == Held(Len(conds))
  <2>1. 7 \in S /\ ss \in Seq(S) /\ ys \in Seq(T) /\ Lexeme(t) \in T /\ Lexeme(t).key = "("
    BY <1>1, <1>2 DEF Status
  <2> HIDE DEF S, T
  <2>2. OpenParentheses(Append(ss, 7), Append(ys, Lexeme(t))) = old \cup {Len(ss) + 1} /\ Len(ss) + 1 \notin old
    BY <1>1, <2>1, ParensOfPush
  <2> QED BY <1>3, <2>2
<1>5. Cardinality(new) = Cardinality(old) + 1 /\ Cardinality(old) \in Nat
  BY <1>1, <1>4, ParensAreFinite, FS_AddElement
<1>6. /\ priority_stack \in Seq(1 .. 255) /\ last_priority \in 1 .. 255
      /\ priority_stack' \in Seq(1 .. 255) /\ Len(priority_stack') = Len(priority_stack) + 1
      /\ Len(priority_stack) \in Nat /\ last_priority' \in 1 .. 255
  BY <1>3 DEF PrioInv, TypeOfPriorities
<1>7. Unpaired' = Unpaired
  <2>1. /\ Unpaired = Len(priority_stack) - Cardinality(old)
        /\ Unpaired' = Len(priority_stack') - Cardinality(new)
    BY DEF Unpaired
  <2> HIDE DEF old, new
  <2> QED BY <1>5, <1>6, <2>1
<1>8. TypeOfPriorities' /\ Leaves255
  BY <1>3, <1>6 DEF TypeOfPriorities, Leaves255
<1> QED BY <1>7, <1>8 DEF Paired

\* An operator is pushed that is no parenthesis.
LEMMA OperatorKey ==
  ASSUME TreeInv, NEW t \in Token, OnOperator(t)
  PROVE  CurrentStatus(t) = 2 /\ t.key # "("
<1>1. CurrentStatus(t) \in Status /\ t.key \in Key
  BY Dispatch, TokenIsSymbol DEF TreeInv
<1> QED BY <1>1, Registered DEF OnOperator, On, NoEntry

LEMMA PushOperatorPairs ==
  ASSUME TreeInv, PrioInv, NEW t \in Token, push_operator(t)
  PROVE  Paired
<1>1. CASE t.key \notin Prioritised
  BY <1>1, EndPairs DEF push_operator
<1>2. CASE t.key \in Prioritised
  <2>1. /\ status_stack \in Seq(Status \ {0}) /\ symbol_stack \in Seq(Held(Len(conds)))
        /\ Len(symbol_stack) = Len(status_stack)
        /\ Lexeme(t) \in Held(Len(conds)) /\ Lexeme(t).key = t.key
    BY Stacks, TokenIsSymbol DEF TreeInv
  <2>2. t.key # "("
    BY OperatorKey DEF push_operator
  <2>3. /\ status_stack' = Append(status_stack, 7)
        /\ symbol_stack' = Append(symbol_stack, Lexeme(t))
        /\ last_priority' = Priority[t.key] /\ UNCHANGED priority_stack
    BY <1>2 DEF push_operator
  <2>4. 7 \in Status \ {0}
    BY DEF Status
  <2>5. OpenParentheses(status_stack', symbol_stack') = OpenParentheses(status_stack, symbol_stack)
    BY <2>1, <2>2, <2>3, <2>4, ParensOfPush
  <2>6. TopOf(status_stack') = 7
    BY <2>1, <2>3, <2>4, TopOfPush
  <2>7. last_priority' \in 1 .. 255
    BY <1>2, <2>3, PriorityRange
  <2> QED BY <2>3, <2>5, <2>6, <2>7, KeptPairs DEF Leaves255, PrioInv
<1> QED BY <1>1, <1>2

\* The suffix becomes a value, and the operator is pushed on it.
LEMMA SolvePairs ==
  ASSUME TreeInv, IInv', PrioInv, NEW t \in Token, solve_then_push_operator(t)
  PROVE  Paired
<1>1. CASE \E o : End(o)
  BY <1>1, EndPairs
<1>2. ASSUME NEW m \in 2 .. Len(symbol_stack),
             StepStart(symbol_stack, last_priority, m),
             StepFaults(symbol_stack, m) = {},
             last_priority' = StepPriority(symbol_stack, last_priority, m),
             symbol_stack' = Append(Reduced(symbol_stack, m, Value), Lexeme(t)),
             status_stack' = Append(Reduced(status_stack, m, 2), 7),
             UNCHANGED priority_stack
      PROVE  Paired
  <2>1. CurrentStatus(t) = 2 /\ t.key # "("
    BY OperatorKey DEF solve_then_push_operator
  <2>2. /\ status_stack \in Seq(Status \ {0}) /\ symbol_stack \in Seq(Held(Len(conds)))
        /\ Len(symbol_stack) = Len(status_stack) /\ Len(status_stack) \in Nat
        /\ Lexeme(t) \in Held(Len(conds)) /\ Lexeme(t).key = t.key
    BY Stacks, TokenIsSymbol DEF TreeInv
  <2>3. NoneAbove(status_stack, symbol_stack, m - 1) /\ m - 1 \in 1 .. Len(status_stack)
    BY SMTT(40), <1>2, <2>1, SolvedPlain
  <2>4. last_priority' \in 1 .. 255
    <3>1. last_priority \in 1 .. 255
      BY DEF PrioInv, TypeOfPriorities
    <3>2. m # Len(symbol_stack) => symbol_stack[m + 1].key \in Prioritised
      <4>1. m # Len(symbol_stack) => m + 1 \in OperatorsFrom(symbol_stack, m)
        BY <2>2 DEF OperatorsFrom
      <4> QED BY <1>2, <4>1 DEF StepStart, Reaches, Accepts
    <3> QED BY <1>2, <3>1, <3>2, PriorityRange DEF StepPriority
  <2>5. 7 \in Status \ {0} /\ 2 \in Status \ {0}
    BY DEF Status
  <2>6. CASE m = Len(symbol_stack)
    <3>1. status_stack' = Append(status_stack, 7) /\ symbol_stack' = Append(symbol_stack, Lexeme(t))
      BY <1>2, <2>2, <2>6 DEF Reduced
    <3>2. OpenParentheses(status_stack', symbol_stack') = OpenParentheses(status_stack, symbol_stack)
      BY <2>1, <2>2, <2>5, <3>1, ParensOfPush
    <3>3. TopOf(status_stack') = 7
      BY <2>2, <2>5, <3>1, TopOfPush
    <3> QED BY <1>2, <2>4, <3>2, <3>3, KeptPairs DEF Leaves255, PrioInv
  <2>7. CASE m # Len(symbol_stack)
    <3> DEFINE s == SubSeq(status_stack, 1, m - 1)
               y == SubSeq(symbol_stack, 1, m - 1)
               S == Status \ {0}
               T == Held(Len(conds))
    <3>1. /\ s \in Seq(S) /\ Len(s) = m - 1 /\ \A i \in 1 .. m - 1 : s[i] = status_stack[i]
          /\ y \in Seq(T) /\ Len(y) = m - 1 /\ \A i \in 1 .. m - 1 : y[i] = symbol_stack[i]
      <4>1. status_stack \in Seq(S) /\ symbol_stack \in Seq(T) /\ m - 1 \in 1 .. Len(symbol_stack)
        BY <2>2, <2>3
      <4> HIDE DEF S, T
      <4>2. \A U, z : z \in Seq(U) /\ m - 1 \in 1 .. Len(z) =>
                     /\ SubSeq(z, 1, m - 1) \in Seq(U) /\ Len(SubSeq(z, 1, m - 1)) = m - 1
                     /\ \A i \in 1 .. m - 1 : SubSeq(z, 1, m - 1)[i] = z[i]
        OBVIOUS
      <4> QED BY <2>3, <4>1, <4>2
    <3>2. /\ status_stack' = Append(s \o <<2>>, 7)
          /\ symbol_stack' = Append(y \o <<Value>>, Lexeme(t))
      BY <1>2, <2>2, <2>7 DEF Reduced
    <3>3. 2 \in S /\ Value \in T /\ m - 1 \in Nat
      BY <2>3, <2>5, ValueIsSymbol
    <3> HIDE DEF s, y, S, T
    <3>4. /\ Len(status_stack') = m + 1 /\ status_stack'[m] = 2 /\ status_stack'[m + 1] = 7
          /\ \A i \in 1 .. m - 1 : status_stack'[i] = status_stack[i]
      <4>1. /\ Len(status_stack') = Len(s) + 2 /\ status_stack'[Len(s) + 1] = 2
            /\ status_stack'[Len(s) + 2] = 7 /\ \A i \in 1 .. Len(s) : status_stack'[i] = s[i]
        <5>1. s \in Seq(S) /\ 2 \in S
          BY <3>1, <3>3
        <5>2. LET w == Append(s \o <<2>>, 7) IN
              /\ Len(w) = Len(s) + 2 /\ w[Len(s) + 1] = 2 /\ w[Len(s) + 2] = 7
              /\ \A i \in 1 .. Len(s) : w[i] = s[i]
          BY ONLY <5>1, PushTwo
        <5> QED BY <3>2, <5>2
      <4>2. m - 1 + 1 = m /\ m - 1 + 2 = m + 1
        OBVIOUS
      <4> QED BY <3>1, <4>1, <4>2
    <3>5. /\ symbol_stack'[m + 1].key # "("
          /\ \A i \in 1 .. m - 1 : symbol_stack'[i] = symbol_stack[i]
      <4>1. /\ symbol_stack'[Len(y) + 2] = Lexeme(t) /\ \A i \in 1 .. Len(y) : symbol_stack'[i] = y[i]
        BY <3>1, <3>2, <3>3, PushTwo
      <4>2. m - 1 + 2 = m + 1
        OBVIOUS
      <4> QED BY <2>1, <2>2, <3>1, <4>1, <4>2
    <3>6. Agree(status_stack, symbol_stack, status_stack', symbol_stack', m - 1)
      <4>1. m - 1 <= m + 1 /\ m - 1 <= Len(status_stack)
        BY <2>2, <2>3
      <4> QED BY <3>3, <3>4, <3>5, <4>1 DEF Agree
    <3>7. NoneAbove(status_stack', symbol_stack', m - 1)
      <4>1. \A i \in m - 1 + 1 .. m + 1 : i = m \/ i = m + 1
        OBVIOUS
      <4> QED BY <3>4, <3>5, <4>1 DEF NoneAbove, IsOpen
    <3>8. TopOf(status_stack') = 7
      <4>1. status_stack' # <<>>
        BY <3>4
      <4> QED BY <3>4, <4>1 DEF TopOf
    <3> QED BY <1>2, <2>3, <2>4, <3>6, <3>7, <3>8, StayPairs DEF Leaves255
  <2> QED BY <2>6, <2>7
<1> QED BY <1>1, <1>2, Zenon DEF solve_then_push_operator

\* A parenthesis that is dropped with a list has a comma right above it.
LEMMA DroppedList ==
  ASSUME TreeInv, NEW t \in Token, CurrentStatus(t) = 2, NEW m \in 2 .. Len(symbol_stack),
         NoneAbove(status_stack, symbol_stack, m - 1),
         NEW k \in 0 .. m - 1, m - 1 - 2 * k > 0,
         \A i \in 0 .. k - 1 : symbol_stack[m - 1 - 2 * i].key = "COMMA",
         NEW j \in m - 1 - 2 * k + 1 .. Len(status_stack), IsOpen(status_stack, symbol_stack, j)
  PROVE  /\ j + 1 \in m - 1 - 2 * k + 1 .. Len(status_stack)
         /\ status_stack[j + 1] = 2 /\ symbol_stack[j + 1].key = "COMMA"
<1> DEFINE ss == status_stack
           ys == symbol_stack
           n == Len(status_stack)
<1>1. /\ WellStacked(Len(conds), ss, ys) /\ Len(ys) = n /\ n \in Nat /\ ss[n] = 2
  BY InExpression DEF TreeInv
<1>2. m \in 2 .. n /\ k \in Nat /\ j \in 1 .. n
  BY <1>1
<1>3. j \in 1 .. m - 1
  <2>1. j \in m - 1 + 1 .. n \/ j \in 1 .. m - 1
    BY <1>2
  <2> QED BY <2>1 DEF NoneAbove
<1>4. PICK i \in 0 .. k - 1 : m - 1 - 2 * i = j \/ m - 1 - 2 * i = j + 1
  <2> DEFINE d == m - 1 - j
  <2>1. d \in 0 .. 2 * k - 1
    BY <1>2, <1>3
  <2>2. \E i \in 0 .. k - 1 : d = 2 * i \/ d = 2 * i + 1
    <3>1. d \in Nat
      BY <2>1
    <3> HIDE DEF d
    <3>2. d \div 2 \in 0 .. k - 1 /\ (d = 2 * (d \div 2) \/ d = 2 * (d \div 2) + 1)
      BY <1>2, <2>1, <3>1
    <3> QED BY <3>2
  <2>3. PICK i \in 0 .. k - 1 : d = 2 * i \/ d = 2 * i + 1
    BY <2>2
  <2>4. m - 1 - 2 * i = j \/ m - 1 - 2 * i = j + 1
    BY <1>2, <1>3, <2>3
  <2> QED BY <2>3, <2>4
<1>5. m - 1 - 2 * i # j
  <2> SUFFICES ASSUME m - 1 - 2 * i = j PROVE FALSE
    OBVIOUS
  <2>1. ys[j].key = "COMMA" /\ ys[j].key = "("
    BY DEF IsOpen
  <2> QED BY <2>1
<1>6. m - 1 - 2 * i = j + 1 /\ ys[j + 1].key = "COMMA"
  BY <1>4, <1>5
<1>7. j + 1 \in 1 .. n - 1 /\ j + 1 - 1 = j /\ j + 1 \in 1 .. n
  BY <1>1, <1>2, <1>3, <1>4, <1>6
<1>8. ss[j + 1] \in {2, 7}
  BY <1>1, <1>6, <1>7, OperatorCarries, Keys
<1>9. ss[j + 1] # 7
  <2>1. Fits(Below(ss, j), ss[j + 1], ys[j + 1].key)
    BY <1>1, <1>7, Entry
  <2>2. Below(ss, j) = 7
    BY <1>2 DEF Below, IsOpen
  <2> QED BY <1>6, <2>1, <2>2 DEF Fits
<1> QED BY <1>2, <1>6, <1>7, <1>8, <1>9

\* The end of a statement.
LEMMA ExpressionStatementPairs ==
  ASSUME TreeInv, IInv', PrioInv, NEW t \in Token, NEW m \in 2 .. Len(symbol_stack),
         expression_statement(t, m)
  PROVE  Paired
<1> DEFINE ss == status_stack
           ys == symbol_stack
           n == Len(status_stack)
           S == Status \ {0}
<1>1. CASE \E o : End(o)
  BY <1>1, EndPairs
<1>2. CurrentStatus(t) = 2
  <2>1. CurrentStatus(t) \in Status /\ t.key \in Key
    BY Dispatch, TokenIsSymbol DEF TreeInv
  <2> QED BY <2>1, Registered DEF expression_statement, OnSemicolon, On, NoEntry
<1>3. ss \in Seq(S) /\ n \in Nat /\ Len(ys) = n /\ m \in 2 .. n /\ ys \in Seq(Held(Len(conds)))
  BY Stacks DEF TreeInv
<1>4. ASSUME NEW k \in 0 .. m - 1, m - 1 - 2 * k > 0,
             \A i \in 0 .. k - 1 : symbol_stack[m - 1 - 2 * i].key = "COMMA",
             symbol_stack' = SubSeq(symbol_stack, 1, m - 1 - 2 * k),
             status_stack' = SubSeq(status_stack, 1, m - 1 - 2 * k),
             StepFaults(symbol_stack, m) = {}, last_priority' = 255, UNCHANGED priority_stack
      PROVE  Paired
  <2> DEFINE c == m - 1 - 2 * k
  <2>1. NoneAbove(ss, ys, m - 1)
    BY <1>2, <1>4, SolvedPlain
  <2>2. c \in 1 .. n /\ c \in Nat
    BY <1>3, <1>4
  <2>3. CASE NoneAbove(ss, ys, c)
    <3>1. c \in 0 .. Len(status_stack)
      BY <2>2
    <3> HIDE DEF c
    <3>2. symbol_stack' = SubSeq(symbol_stack, 1, c) /\ status_stack' = SubSeq(status_stack, 1, c)
      BY <1>4 DEF c
    <3> QED BY <1>4, <2>3, <3>1, <3>2, StatementPairs
  <2>4. CASE ~NoneAbove(ss, ys, c)
    <3>1. PICK j \in c + 1 .. n : IsOpen(ss, ys, j)
      BY <2>4 DEF NoneAbove
    <3>2. j + 1 \in c + 1 .. n /\ ss[j + 1] = 2 /\ ys[j + 1].key = "COMMA"
      BY <1>2, <1>4, <2>1, <3>1, DroppedList
    <3> HIDE DEF c, S
    <3>3. symbol_stack' = SubSeq(symbol_stack, 1, c) /\ status_stack' = SubSeq(status_stack, 1, c)
      BY <1>4 DEF c
    <3>4. /\ status_stack' \in Seq(S) /\ Len(status_stack') = c
          /\ DOMAIN status_stack' = 1 .. c /\ DOMAIN status_stack = 1 .. n
          /\ \A i \in 1 .. c : status_stack'[i] = ss[i] /\ symbol_stack'[i] = ys[i]
      BY <1>3, <2>2, <3>3
    <3> DEFINE old == OpenParentheses(status_stack, symbol_stack)
               new == OpenParentheses(status_stack', symbol_stack')
    <3>5. new \subseteq old
      <4>1. Agree(ss, ys, status_stack', symbol_stack', c)
        BY <2>2, <3>4 DEF Agree
      <4>2. NoneAbove(status_stack', symbol_stack', c)
        BY <2>2, <3>4 DEF NoneAbove
      <4> QED BY <1>3, <3>4, <4>1, <4>2, ParensStay
    <3>6. j \in old /\ j \notin new
      <4>1. old = {i \in 1 .. n : IsOpen(ss, ys, i)}
        BY <1>3, ParensAreFinite
      <4>2. new = {i \in 1 .. c : IsOpen(status_stack', symbol_stack', i)}
        BY <3>4, ParensAreFinite
      <4>3. j \in 1 .. n /\ j \notin 1 .. c
        BY <1>3, <2>2, <3>1
      <4> QED BY <3>1, <4>1, <4>2, <4>3
    <3>7. IsFiniteSet(old) /\ Cardinality(old) \in Nat /\ Cardinality(new) \in Nat
      BY <1>3, <3>4, ParensAreFinite
    <3>8. Cardinality(new) < Cardinality(old)
      <4> HIDE DEF old, new
      <4>1. Cardinality(new) <= Cardinality(old) /\ (Cardinality(old) = Cardinality(new) => new = old)
        BY <3>5, <3>7, FS_Subset
      <4> QED BY <3>6, <3>7, <4>1
    <3>9. Len(priority_stack) \in Nat
      BY DEF PrioInv, TypeOfPriorities
    <3>10. Unpaired' > Unpaired
      <4>1. /\ Unpaired = Len(priority_stack) - Cardinality(old)
            /\ Unpaired' = Len(priority_stack) - Cardinality(new)
        BY <1>4 DEF Unpaired
      <4> HIDE DEF old, new
      <4> QED BY <3>7, <3>8, <3>9, <4>1
    <3>11. j + 1 \in DOMAIN status_stack \ DOMAIN status_stack'
      BY <1>3, <2>2, <3>2, <3>4
    <3>12. DropsAList
      BY <1>4, <3>2, <3>10, <3>11 DEF DropsAList
    <3>13. TypeOfPriorities' /\ Leaves255
      BY <1>4 DEF PrioInv, TypeOfPriorities, Leaves255
    <3> QED BY <3>12, <3>13 DEF Paired
  <2> QED BY <2>3, <2>4
<1>5. \/ \E o : End(o)
      \/ /\ \E k \in 0 .. m - 1 :
              /\ m - 1 - 2 * k > 0
              /\ \A i \in 0 .. k - 1 : symbol_stack[m - 1 - 2 * i].key = "COMMA"
              /\ symbol_stack[m - 1 - 2 * k].key # "COMMA"
              /\ symbol_stack' = SubSeq(symbol_stack, 1, m - 1 - 2 * k)
              /\ status_stack' = SubSeq(status_stack, 1, m - 1 - 2 * k)
         /\ StepFaults(symbol_stack, m) = {} /\ last_priority' = 255 /\ UNCHANGED priority_stack
  BY Zenon DEF expression_statement
<1>6. ASSUME StepFaults(symbol_stack, m) = {}, last_priority' = 255, UNCHANGED priority_stack,
             NEW k \in 0 .. m - 1,
             /\ m - 1 - 2 * k > 0
             /\ \A i \in 0 .. k - 1 : symbol_stack[m - 1 - 2 * i].key = "COMMA"
             /\ symbol_stack' = SubSeq(symbol_stack, 1, m - 1 - 2 * k)
             /\ status_stack' = SubSeq(status_stack, 1, m - 1 - 2 * k)
      PROVE  Paired
  BY <1>4, <1>6
<1>7. CASE ~\E o : End(o)
  <2>1. /\ StepFaults(symbol_stack, m) = {} /\ last_priority' = 255 /\ UNCHANGED priority_stack
        /\ \E k \in 0 .. m - 1 :
             /\ m - 1 - 2 * k > 0
             /\ \A i \in 0 .. k - 1 : symbol_stack[m - 1 - 2 * i].key = "COMMA"
             /\ symbol_stack' = SubSeq(symbol_stack, 1, m - 1 - 2 * k)
             /\ status_stack' = SubSeq(status_stack, 1, m - 1 - 2 * k)
    BY <1>5, <1>7
  <2>2. PICK k \in 0 .. m - 1 :
          /\ m - 1 - 2 * k > 0
          /\ \A i \in 0 .. k - 1 : symbol_stack[m - 1 - 2 * i].key = "COMMA"
          /\ symbol_stack' = SubSeq(symbol_stack, 1, m - 1 - 2 * k)
          /\ status_stack' = SubSeq(status_stack, 1, m - 1 - 2 * k)
    BY <2>1
  <2> QED BY <1>6, <2>1, <2>2
<1> QED BY <1>1, <1>7

LEMMA ReturnPairs ==
  ASSUME TreeInv, IInv', PrioInv, NEW t \in Token, NEW m \in 2 .. Len(symbol_stack),
         return_statement(t, m)
  PROVE  Paired
<1>1. CASE \E o : End(o)
  BY <1>1, EndPairs
<1>2. CurrentStatus(t) = 2
  <2>1. CurrentStatus(t) \in Status /\ t.key \in Key
    BY Dispatch, TokenIsSymbol DEF TreeInv
  <2> QED BY <2>1, Registered DEF return_statement, OnSemicolon, On, NoEntry
<1>3. Len(symbol_stack) = Len(status_stack) /\ Len(status_stack) \in Nat
  BY Stacks DEF TreeInv
<1>4. CASE /\ ValueFaults(symbol_stack, m) = {}
           /\ symbol_stack' = SubSeq(symbol_stack, 1, m - 2)
           /\ status_stack' = SubSeq(status_stack, 1, m - 2)
           /\ last_priority' = 255 /\ UNCHANGED priority_stack
  <2>1. NoneAbove(status_stack, symbol_stack, m - 1)
    BY <1>2, <1>4, SolvedPlain
  <2>2. status_stack[m - 1] = 16
    BY DEF return_statement
  <2>3. m - 2 \in 0 .. Len(status_stack)
        /\ \A i \in m - 2 + 1 .. Len(status_stack) : i = m - 1 \/ i \in m - 1 + 1 .. Len(status_stack)
    BY <1>3
  <2>4. NoneAbove(status_stack, symbol_stack, m - 2)
    BY <2>1, <2>2, <2>3 DEF NoneAbove, IsOpen
  <2> DEFINE c == m - 2
  <2>5. /\ c \in 0 .. Len(status_stack) /\ NoneAbove(status_stack, symbol_stack, c)
        /\ symbol_stack' = SubSeq(symbol_stack, 1, c) /\ status_stack' = SubSeq(status_stack, 1, c)
    BY <1>4, <2>3, <2>4
  <2> HIDE DEF c
  <2> QED BY <1>4, <2>5, StatementPairs
<1> QED BY <1>1, <1>4 DEF return_statement

\* The "LBRACES" behind a condition.
LEMMA ConditionPairs ==
  ASSUME TreeInv, IInv', PrioInv, NEW t \in Token, NEW m \in 2 .. Len(symbol_stack),
         reduce_condition_calculate(t, m)
  PROVE  Paired
<1>1. CASE \E o : End(o)
  BY <1>1, EndPairs
<1>2. CurrentStatus(t) = 2
  <2>1. CurrentStatus(t) \in Status /\ t.key \in Key
    BY Dispatch, TokenIsSymbol DEF TreeInv
  <2>2. Handler[CurrentStatus(t)][t.key] = "reduce_condition_calculate"
    BY Zenon DEF reduce_condition_calculate, On
  <2> QED BY <2>1, <2>2, Registered DEF NoEntry
<1>3. Len(symbol_stack) = Len(status_stack) /\ Len(status_stack) \in Nat
  BY Stacks DEF TreeInv
<1>4. ASSUME ValueFaults(symbol_stack, m) = {}, symbol_stack[m - 1].key = "cond",
             symbol_stack' = SubSeq(symbol_stack, 1, m - 1),
             last_priority' = 255, UNCHANGED priority_stack,
             \/ status_stack' = Append(SubSeq(status_stack, 1, m - 2), 19)
             \/ status_stack' = Append(SubSeq(status_stack, 1, m - 2), 24)
             \/ status_stack' = SubSeq(status_stack, 1, m - 1)
      PROVE  Paired
  <2>1. NoneAbove(status_stack, symbol_stack, m - 1)
    BY <1>2, <1>4, SolvedPlain
  <2>2. /\ m - 2 \in 0 .. Len(status_stack) /\ m - 1 \in 0 .. Len(status_stack)
        /\ m - 2 + 1 = m - 1 /\ m - 2 + 1 \in 0 .. Len(status_stack)
        /\ \A i \in m - 2 + 1 .. Len(status_stack) : i = m - 1 \/ i \in m - 1 + 1 .. Len(status_stack)
    BY <1>3
  <2>3. NoneAbove(status_stack, symbol_stack, m - 2)
    BY <1>4, <2>1, <2>2 DEF NoneAbove, IsOpen
  <2>4. CASE status_stack' = SubSeq(status_stack, 1, m - 1)
    BY <1>4, <2>1, <2>2, <2>4, StatementPairs
  <2>5. CASE \E s \in {19, 24} : status_stack' = Append(SubSeq(status_stack, 1, m - 2), s)
    <3> DEFINE c == m - 2
    <3>1. \E s \in Status \ {0, 7} : status_stack' = Append(SubSeq(status_stack, 1, c), s)
      BY <2>5 DEF Status
    <3>2. /\ c \in 0 .. Len(status_stack) /\ NoneAbove(status_stack, symbol_stack, c)
          /\ c + 1 \in 0 .. Len(status_stack) /\ symbol_stack' = SubSeq(symbol_stack, 1, c + 1)
      BY <1>4, <2>2, <2>3
    <3> HIDE DEF c
    <3> QED BY <1>4, <3>1, <3>2, StatementPairs
  <2> QED BY <1>4, <2>4, <2>5
<1>5. \/ \E o : End(o)
      \/ /\ ValueFaults(symbol_stack, m) = {} /\ symbol_stack[m - 1].key = "cond"
         /\ symbol_stack' = SubSeq(symbol_stack, 1, m - 1)
         /\ last_priority' = 255 /\ UNCHANGED priority_stack
         /\ \/ status_stack' = Append(SubSeq(status_stack, 1, m - 2), 19)
            \/ status_stack' = Append(SubSeq(status_stack, 1, m - 2), 24)
            \/ status_stack' = SubSeq(status_stack, 1, m - 1)
  BY DEF reduce_condition_calculate
<1> QED BY <1>1, <1>4, <1>5

LEMMA PoppedOne ==
  ASSUME NEW S, NEW s \in Seq(S), Len(s) >= 1
  PROVE  /\ SubSeq(s, 1, Len(s) - 1) \in Seq(S) /\ Len(SubSeq(s, 1, Len(s) - 1)) = Len(s) - 1
         /\ s[Len(s)] \in S
<1>1. Len(s) \in 1 .. Len(s) /\ Len(s) - 1 \in 0 .. Len(s) /\ Len(s) - 1 \in Nat
  OBVIOUS
<1>2. s[Len(s)] \in S
  BY <1>1
<1>3. \A n \in 0 .. Len(s) : SubSeq(s, 1, n) \in Seq(S) /\ Len(SubSeq(s, 1, n)) = n
  OBVIOUS
<1> QED BY <1>1, <1>2, <1>3

LEMMA CutAndPushed ==
  ASSUME NEW S, NEW s \in Seq(S), NEW n \in 0 .. Len(s), NEW x
  PROVE  LET w == Append(SubSeq(s, 1, n), x) IN
         /\ Len(w) = n + 1 /\ w[n + 1] = x /\ w # <<>> /\ \A i \in 1 .. n : w[i] = s[i]
<1> DEFINE w == Append(SubSeq(s, 1, n), x)
<1>1. Len(w) = n + 1 /\ w[n + 1] = x /\ \A i \in 1 .. n : w[i] = s[i]
  OBVIOUS
<1>2. Len(w) # 0
  BY <1>1
<1> HIDE DEF w
<1>3. w # <<>>
  BY <1>2
<1> QED BY <1>1, <1>3 DEF w

\* The innermost parenthesis is closed, and its priority taken back.
LEMMA ClosePairs ==
  ASSUME TreeInv, IInv', PrioInv, NEW q \in 1 .. Len(status_stack), leave_parentheses,
         IsOpen(status_stack, symbol_stack, q), NoneAbove(status_stack, symbol_stack, q),
         NEW n, n \in 0 .. q - 1, n = q - 1 \/ n = q - 2,
         \A i \in n + 1 .. q - 1 : ~IsOpen(status_stack, symbol_stack, i),
         Agree(status_stack, symbol_stack, status_stack', symbol_stack', n),
         NoneAbove(status_stack', symbol_stack', n), TopOf(status_stack') = 2
  PROVE  Paired
<1> DEFINE S == Status \ {0}
           old == OpenParentheses(status_stack, symbol_stack)
           new == OpenParentheses(status_stack', symbol_stack')
<1>1. status_stack \in Seq(S) /\ status_stack' \in Seq(S) /\ Len(status_stack) \in Nat
  BY Stacks, StacksNext DEF TreeInv
<1>2. /\ q \in n + 1 .. Len(status_stack)
      /\ \A i \in n + 1 .. Len(status_stack) :
           i # q => i \in n + 1 .. q - 1 \/ i \in q + 1 .. Len(status_stack)
  BY <1>1
<1>3. \A i \in n + 1 .. Len(status_stack) : i # q => ~IsOpen(status_stack, symbol_stack, i)
  BY <1>2 DEF NoneAbove
<1>4. new = old \ {q} /\ q \in old
  <2> HIDE DEF S
  <2> QED BY <1>1, <1>2, <1>3, ParensStay
<1>5. IsFiniteSet(old) /\ Cardinality(old) \in Nat /\ Cardinality(new) = Cardinality(old) - 1
  <2>1. IsFiniteSet(old) /\ Cardinality(old) \in Nat
    BY <1>1, ParensAreFinite
  <2> HIDE DEF old, new
  <2> QED BY <1>4, <2>1, FS_RemoveElement
<1>6. priority_stack \in Seq(1 .. 255) /\ Len(priority_stack) \in Nat /\ Len(priority_stack) >= 1
  <2>1. priority_stack \in Seq(1 .. 255) /\ Len(priority_stack) \in Nat
    BY DEF PrioInv, TypeOfPriorities
  <2>2. Len(priority_stack) - Cardinality(old) >= 0
    BY DEF PrioInv, NothingLeaks, Unpaired
  <2>3. Cardinality(old) >= 1
    <3> HIDE DEF old
    <3>1. Cardinality(old) # 0
      BY <1>4, <1>5, FS_EmptySet
    <3> QED BY <1>5, <3>1
  <2> HIDE DEF old
  <2> QED BY <1>5, <2>1, <2>2, <2>3
<1>7. /\ priority_stack' \in Seq(1 .. 255) /\ Len(priority_stack') = Len(priority_stack) - 1
      /\ last_priority' \in 1 .. 255
  BY <1>6, PoppedOne DEF leave_parentheses, Pop, Last
<1>8. Unpaired' = Unpaired
  <2>1. /\ Unpaired = Len(priority_stack) - Cardinality(old)
        /\ Unpaired' = Len(priority_stack') - Cardinality(new)
    BY DEF Unpaired
  <2> HIDE DEF old, new
  <2> QED BY <1>5, <1>6, <1>7, <2>1
<1> QED BY <1>7, <1>8 DEF Paired, TypeOfPriorities, Leaves255

LEMMA ParenthesisPairs ==
  ASSUME TreeInv, IInv', PrioInv, NEW t \in Token, NEW q \in 2 .. Len(symbol_stack),
         reduce_group(t, q) \/ reduce_operatorbrace(t, q)
  PROVE  Paired
<1> DEFINE ss == status_stack
           ys == symbol_stack
<1>1. CASE \E o : End(o)
  BY <1>1, EndPairs
<1>2. /\ CurrentStatus(t) = 2 /\ ys[q].key = "("
      /\ \A i \in q + 1 .. Len(ys) : ys[i].key # "("
  <2>1. CurrentStatus(t) \in Status /\ t.key \in Key
    BY Dispatch, TokenIsSymbol DEF TreeInv
  <2>2. OnParenthesis(t, q)
    BY DEF reduce_group, reduce_operatorbrace
  <2> QED BY <2>1, <2>2, Registered DEF OnParenthesis, On, NoEntry
<1>3. /\ WellStacked(Len(conds), ss, ys) /\ Len(ys) = Len(ss) /\ Len(ss) \in Nat
      /\ ss \in Seq(Status \ {0}) /\ ys \in Seq(Held(Len(conds))) /\ ss[Len(ss)] = 2
  BY <1>2, InExpression DEF TreeInv
<1>4. q \in 1 .. Len(ss) /\ q < Len(ss) /\ ss[q] = 7
  BY <1>2, <1>3, OpenParenthesis
<1>5. IsOpen(ss, ys, q) /\ NoneAbove(ss, ys, q)
  BY <1>2, <1>3, <1>4 DEF IsOpen, NoneAbove
<1>6. ASSUME NEW n \in {q - 1, q - 2}, n = q - 2 => ys[q - 1].key # "(", leave_parentheses, NEW v, v.key # "(",
             status_stack' = Append(SubSeq(ss, 1, n), 2),
             symbol_stack' = Append(SubSeq(ys, 1, n), v)
      PROVE  Paired
  <2>1. n \in 0 .. q - 1 /\ n \in 0 .. Len(ss) /\ \A i \in n + 1 .. q - 1 : n = q - 2 /\ i = q - 1
    BY <1>3, <1>4
  <2>2. /\ Len(status_stack') = n + 1 /\ status_stack'[n + 1] = 2
        /\ status_stack' # <<>>
        /\ \A i \in 1 .. n : status_stack'[i] = ss[i]
        /\ \A i \in 1 .. n : symbol_stack'[i] = ys[i]
    <3>1. n \in 0 .. Len(ss) /\ n \in 0 .. Len(ys)
      BY <1>3, <2>1
    <3> DEFINE S == Status \ {0}
               T == Held(Len(conds))
    <3>2. ss \in Seq(S) /\ ys \in Seq(T)
      BY <1>3
    <3> HIDE DEF S, T
    <3>3. LET w == Append(SubSeq(ss, 1, n), 2) IN
          /\ Len(w) = n + 1 /\ w[n + 1] = 2 /\ w # <<>> /\ \A i \in 1 .. n : w[i] = ss[i]
      BY ONLY <3>1, <3>2, CutAndPushed
    <3>4. LET w == Append(SubSeq(ys, 1, n), v) IN \A i \in 1 .. n : w[i] = ys[i]
      BY ONLY <3>1, <3>2, CutAndPushed
    <3> QED BY <1>6, <3>3, <3>4
  <2>3. \A i \in n + 1 .. q - 1 : ~IsOpen(ss, ys, i)
    BY <1>6, <2>1 DEF IsOpen
  <2>4. Agree(ss, ys, status_stack', symbol_stack', n)
    BY <1>3, <2>1, <2>2 DEF Agree
  <2>5. NoneAbove(status_stack', symbol_stack', n)
    <3>1. \A i \in n + 1 .. n + 1 : i = n + 1
      BY <2>1
    <3> QED BY <2>2, <3>1 DEF NoneAbove, IsOpen
  <2>6. TopOf(status_stack') = 2
    BY <2>2 DEF TopOf
  <2> QED BY <1>4, <1>5, <1>6, <2>1, <2>3, <2>4, <2>5, <2>6, ClosePairs
<1>7. CASE reduce_group(t, q)
  <2> DEFINE v == IF q + 1 = Len(ys) THEN ys[q + 1] ELSE Value
  <2>1. \/ \E o : End(o)
        \/ /\ leave_parentheses
           /\ symbol_stack' = Append(SubSeq(ys, 1, q - 1), v)
           /\ status_stack' = Append(SubSeq(ss, 1, q - 1), 2)
    BY <1>7 DEF reduce_group
  <2>2. v.key # "("
    <3>1. q + 1 \in q + 1 .. Len(ys)
      BY <1>3, <1>4
    <3>2. Value.key # "("
      BY DEF Value
    <3> QED BY <1>2, <3>1, <3>2
  <2> HIDE DEF v
  <2>3. q - 1 # q - 2
    OBVIOUS
  <2> QED BY <1>1, <1>6, <2>1, <2>2, <2>3
<1>8. CASE reduce_operatorbrace(t, q)
  <2>1. \/ \E o : End(o)
        \/ /\ leave_parentheses
           /\ symbol_stack' = Append(SubSeq(ys, 1, q - 2), Value)
           /\ status_stack' = Append(SubSeq(ss, 1, q - 2), 2)
    BY <1>8 DEF reduce_operatorbrace
  <2>2. Value.key # "(" /\ ys[q - 1].key # "("
    BY <1>8 DEF Value, reduce_operatorbrace
  <2> QED BY <1>1, <1>6, <2>1, <2>2
<1> QED BY <1>7, <1>8

LEMMA ExpressionPairs ==
  ASSUME TreeInv, IInv', PrioInv, NEW t \in Token, Expression(t)
  PROVE  Paired
<1>1. CASE \E o : End(o)
  BY <1>1, EndPairs
<1>2. CASE expression_fails(t) \/ parenthesis_fails(t)
  <2>1. \E o : End(o)
    BY <1>2, Zenon DEF expression_fails, LoopFails, parenthesis_fails
  <2> QED BY <1>1, <2>1
<1>3. CASE enter_parentheses(t) \/ push_operator(t) \/ solve_then_push_operator(t)
  BY <1>3, EnterPairs, PushOperatorPairs, SolvePairs
<1>4. ASSUME NEW m \in 2 .. Len(symbol_stack),
             \/ expression_statement(t, m) \/ return_statement(t, m)
             \/ reduce_condition_calculate(t, m)
             \/ reduce_group(t, m) \/ reduce_operatorbrace(t, m)
      PROVE  Paired
  BY <1>4, ExpressionStatementPairs, ReturnPairs, ConditionPairs, ParenthesisPairs
<1> QED BY <1>2, <1>3, <1>4 DEF Expression

LEMMA StepPairs ==
  ASSUME TreeInv, IInv', PrioInv, NEW t \in Token, process_token(t)
  PROVE  Paired
<1>1. CASE NoRow(t)
  BY <1>1, EndPairs DEF NoRow
<1>2. CASE Ignore(t)
  BY <1>2, NothingPairs DEF Ignore, stacks, priorities
<1>3. CASE skip(t)
  <2>1. UNCHANGED <<status_stack, symbol_stack, priority_stack, last_priority>>
    BY <1>3 DEF skip, vars, stacks, priorities
  <2> QED BY <2>1, NothingPairs
<1>4. CASE Reduce(t)
  <2>1. \/ skip(t) \/ Header(t) \/ Body(t) \/ Variable(t) \/ Branching(t) \/ Expression(t)
    BY <1>4 DEF Reduce
  <2> QED BY <1>3, <2>1, HeaderPairs, BodyPairs, VariablePairs, BranchingPairs, ExpressionPairs
<1> QED BY <1>1, <1>2, <1>4, ShiftPairs DEF process_token

-----------------------------------------------------------------------------
(* The stars of a definition. *)

LEMMA PointerRow ==
  ASSUME NEW s \in Status, NEW k \in Key, Handler[s][k] = "define_pointer"
  PROVE  s \in {3, 5}
<1> DEFINE h == "define_pointer"
<1>1. <<s, k, h>> \in ReduceRows
  BY HandlerRow DEF NoEntry
<1>2. \/ <<s, k, h>> \in {0, 2, 14, 15, 19, 20, 21, 22, 24, 25} \X {"enter"} \X {"skip"}
      \/ <<s, k, h>> \in {<<10, "COMMA", "skip">>}
      \/ <<s, k, h>> \in {2} \X (Punchation \ {"(", ")", "LBRACES"}) \X {"check_priority"}
      \/ <<s, k, h>> \in {<<2, ")", "reduce_rparenthese">>,
                          <<2, "LBRACES", "reduce_condition_calculate">>}
      \/ <<s, k, h>> \in {2, 7} \X {"("} \X {"enter_parentheses"}
      \/ <<s, k, h>> \in {3, 5} \X {"*"} \X {"define_pointer"}
      \/ <<s, k, h>> \in {<<3, "id", "define_variable">>, <<5, "id", "define_again">>,
                          <<4, "SEMICOLON", "define_finished">>}
      \/ <<s, k, h>> \in {<<9, "(", "get_function_name">>,
                          <<10, ")", "wait_function_return_type">>,
                          <<12, "id", "get_argument">>,
                          <<14, "LBRACES", "function_body_define_strart">>,
                          <<18, "id", "get_function_return_type">>,
                          <<25, "LBRACES", "has_return_type_function_define">>,
                          <<25, "SEMICOLON", "function_declear">>,
                          <<15, "RBRACES", "function_body_define_finished">>}
      \/ <<s, k, h>> \in {15, 19, 22, 24} \X {"if"} \X {"start_if_condition"}
      \/ <<s, k, h>> \in {15, 19, 22, 24} \X {"while"} \X {"start_while_condition"}
      \/ <<s, k, h>> \in {<<19, "RBRACES", "end_if_body1">>, <<22, "RBRACES", "end_if_body2">>,
                          <<24, "RBRACES", "end_while_body">>}
      \/ <<s, k, h>> \in {20} \X (Key \ {"enter"}) \X {"check_if_body2"}
  BY <1>1, Zenon DEF ReduceRows
<1> QED BY <1>2

StarsUsed == TopOf(status_stack') \notin {3, 5} => pointer_level' \in {0, UnsetPointerLevel}

\* Three reasons for which no star is left.
LEMMA NoStar ==
  ASSUME TreeInv, PrioInv, NEW t \in Token,
         \/ UNCHANGED <<status_stack, pointer_level>>
         \/ pointer_level' = 0
         \/ CurrentStatus(t) \notin {3, 5} /\ UNCHANGED pointer_level
  PROVE  StarsUsed
<1>1. TopOf(status_stack) \notin {3, 5} => pointer_level \in {0, UnsetPointerLevel}
  BY TopIsLast DEF PrioInv
<1>2. CASE UNCHANGED <<status_stack, pointer_level>>
  BY <1>1, <1>2 DEF StarsUsed
<1>3. CASE pointer_level' = 0
  BY <1>3 DEF StarsUsed
<1>4. CASE CurrentStatus(t) \notin {3, 5} /\ UNCHANGED pointer_level
  <2>1. TopOf(status_stack) \notin {3, 5}
    <3>1. CASE NoElse(t)
      BY <3>1 DEF NoElse, TopOf, Last
    <3>2. CASE ~NoElse(t)
      <4>1. CurrentStatus(t) = TopOf(status_stack)
        BY <3>2 DEF CurrentStatus, Statuses, TopOf, Last
      <4> QED BY <1>4, <4>1
    <3> QED BY <3>1, <3>2
  <2> QED BY <1>1, <1>4, <2>1 DEF StarsUsed
<1> QED BY <1>2, <1>3, <1>4

LEMMA EndStars ==
  ASSUME TreeInv, PrioInv, NEW t \in Token, NEW o, End(o)
  PROVE  StarsUsed
  BY NoStar DEF End, stacks

LEMMA HeaderStars ==
  ASSUME TreeInv, PrioInv, NEW t \in Token, Header(t) \/ Body(t) \/ Branching(t)
  PROVE  StarsUsed
<1>1. CurrentStatus(t) \in Status /\ t.key \in Key
  BY Dispatch, TokenIsSymbol DEF TreeInv
<1>2. CASE \E o : End(o)
  BY <1>2, EndStars
<1>3. ASSUME NEW h \in {"get_function_name", "get_argument", "wait_function_return_type",
                        "get_function_return_type", "function_body_define_strart",
                        "has_return_type_function_define", "function_body_define_finished",
                        "start_while_condition", "end_while_body", "start_if_condition",
                        "end_if_body1", "check_if_body2", "end_if_body2"}, On(t, h)
      PROVE  CurrentStatus(t) \notin {3, 5}
  <2>1. Handler[CurrentStatus(t)][t.key] = h /\ h # NoEntry
    BY <1>3 DEF On, NoEntry
  <2> QED BY <1>1, <2>1, Registered
<1>4. CASE Header(t)
  <2>1. \/ \E o : End(o)
        \/ /\ UNCHANGED pointer_level
           /\ \/ On(t, "get_function_name") \/ On(t, "get_argument")
              \/ On(t, "wait_function_return_type") \/ On(t, "get_function_return_type")
    BY <1>4 DEF Header, get_function_name, get_argument, wait_function_return_type,
                get_function_return_type, function_declear
  <2> QED BY <1>2, <1>3, <2>1, NoStar
<1>5. CASE Body(t)
  <2>1. \/ \E o : End(o)
        \/ /\ UNCHANGED pointer_level
           /\ \/ On(t, "function_body_define_strart") \/ On(t, "has_return_type_function_define")
              \/ On(t, "function_body_define_finished")
    <3>1. CASE function_body_define_strart(t)
      BY <3>1 DEF function_body_define_strart, StartBody
    <3>2. CASE has_return_type_function_define(t)
      BY <3>2 DEF has_return_type_function_define, StartBody
    <3>3. CASE function_body_define_finished(t)
      BY <3>3 DEF function_body_define_finished
    <3> QED BY <1>5, <3>1, <3>2, <3>3 DEF Body
  <2> QED BY <1>2, <1>3, <2>1, NoStar
<1>6. CASE Branching(t)
  <2>1. \/ \E o : End(o)
        \/ /\ UNCHANGED pointer_level
           /\ \/ On(t, "start_while_condition") \/ On(t, "end_while_body")
              \/ On(t, "start_if_condition") \/ On(t, "end_if_body1")
              \/ On(t, "check_if_body2") \/ On(t, "end_if_body2")
    BY <1>6 DEF Branching, start_while_condition, end_while_body, start_if_condition,
                end_if_body1, check_if_body2, end_if_body2
  <2> QED BY <1>2, <1>3, <2>1, NoStar
<1> QED BY <1>4, <1>5, <1>6

LEMMA VariableStars ==
  ASSUME TreeInv, PrioInv, NEW t \in Token, Variable(t)
  PROVE  StarsUsed
<1>1. CurrentStatus(t) \in Status /\ t.key \in Key
  BY Dispatch, TokenIsSymbol DEF TreeInv
<1>2. CASE \E o : End(o)
  BY <1>2, EndStars
<1>3. CASE define_pointer(t)
  <2>1. CurrentStatus(t) \in {3, 5}
    BY <1>1, <1>3, PointerRow DEF define_pointer, On
  <2>2. CurrentStatus(t) = TopOf(status_stack)
    <3>1. Statuses(t) = status_stack
      BY <2>1, Room
    <3> QED BY <3>1 DEF CurrentStatus, TopOf, Last
  <2> QED BY <1>3, <2>1, <2>2 DEF define_pointer, stacks, StarsUsed
<1>4. CASE define_variable(t) \/ define_again(t)
  <2>1. pointer_level' = 0 \/ \E o : End(o)
    BY <1>4 DEF define_variable, define_again, Define
  <2> QED BY <1>2, <2>1, NoStar
<1>5. CASE define_finished(t)
  <2>1. CurrentStatus(t) = 4
    BY <1>1, <1>5, Registered DEF define_finished, On, NoEntry
  <2>2. UNCHANGED pointer_level
    BY <1>5 DEF define_finished
  <2> QED BY <2>1, <2>2, NoStar
<1> QED BY <1>3, <1>4, <1>5 DEF Variable

LEMMA ExpressionStars ==
  ASSUME TreeInv, PrioInv, NEW t \in Token, Expression(t)
  PROVE  StarsUsed
<1>1. CurrentStatus(t) \in Status /\ t.key \in Key
  BY Dispatch, TokenIsSymbol DEF TreeInv
<1>2. CASE \E o : End(o)
  BY <1>2, EndStars
<1>3. ASSUME NEW h \in {"enter_parentheses", "check_priority", "reduce_condition_calculate",
                        "reduce_rparenthese"}, On(t, h), UNCHANGED pointer_level
      PROVE  StarsUsed
  <2>1. Handler[CurrentStatus(t)][t.key] = h /\ h # NoEntry
    BY <1>3 DEF On, NoEntry
  <2>2. CurrentStatus(t) \notin {3, 5}
    BY <1>1, <2>1, Registered
  <2> QED BY <1>3, <2>2, NoStar
<1>4. CASE enter_parentheses(t) \/ push_operator(t)
  <2>1. \/ \E o : End(o)
        \/ UNCHANGED pointer_level /\ (On(t, "enter_parentheses") \/ On(t, "check_priority"))
    BY <1>4 DEF enter_parentheses, push_operator, OnOperator
  <2> QED BY <1>2, <1>3, <2>1
<1>5. CASE solve_then_push_operator(t)
  <2>1. (\E o : End(o)) \/ UNCHANGED pointer_level
    BY <1>5, Zenon DEF solve_then_push_operator
  <2>2. On(t, "check_priority")
    BY <1>5 DEF solve_then_push_operator, OnOperator
  <2> QED BY <1>2, <1>3, <2>1, <2>2
<1>6. CASE expression_fails(t) \/ parenthesis_fails(t)
  <2>1. \E o : End(o)
    BY <1>6, Zenon DEF expression_fails, LoopFails, parenthesis_fails
  <2> QED BY <1>2, <2>1
<1>7. ASSUME NEW m \in 2 .. Len(symbol_stack),
             \/ expression_statement(t, m) \/ return_statement(t, m)
             \/ reduce_condition_calculate(t, m)
             \/ reduce_group(t, m) \/ reduce_operatorbrace(t, m)
      PROVE  StarsUsed
  <2>1. CASE expression_statement(t, m)
    <3>1. (\E o : End(o)) \/ UNCHANGED pointer_level
      BY <2>1, Zenon DEF expression_statement
    <3>2. On(t, "check_priority")
      BY <2>1 DEF expression_statement, OnSemicolon
    <3> QED BY <1>2, <1>3, <3>1, <3>2
  <2>2. CASE return_statement(t, m)
    <3>1. (\E o : End(o)) \/ UNCHANGED pointer_level
      BY <2>2, Zenon DEF return_statement
    <3>2. On(t, "check_priority")
      BY <2>2 DEF return_statement, OnSemicolon
    <3> QED BY <1>2, <1>3, <3>1, <3>2
  <2>3. CASE reduce_condition_calculate(t, m)
    <3>1. (\E o : End(o)) \/ UNCHANGED pointer_level
      BY <2>3, Zenon DEF reduce_condition_calculate
    <3>2. On(t, "reduce_condition_calculate")
      BY <2>3, Zenon DEF reduce_condition_calculate
    <3> QED BY <1>2, <1>3, <3>1, <3>2
  <2>4. CASE reduce_group(t, m) \/ reduce_operatorbrace(t, m)
    <3>1. (\E o : End(o)) \/ UNCHANGED pointer_level
      BY <2>4, Zenon DEF reduce_group, reduce_operatorbrace
    <3>2. On(t, "reduce_rparenthese")
      BY <2>4 DEF reduce_group, reduce_operatorbrace, OnParenthesis
    <3> QED BY <1>2, <1>3, <3>1, <3>2
  <2> QED BY <1>7, <2>1, <2>2, <2>3, <2>4
<1> QED BY <1>4, <1>5, <1>6, <1>7 DEF Expression

LEMMA StepStars ==
  ASSUME TreeInv, PrioInv, NEW t \in Token, process_token(t)
  PROVE  StarsUsed
<1>1. CASE NoRow(t)
  BY <1>1, EndStars DEF NoRow
<1>2. CASE Ignore(t) \/ skip(t)
  <2>1. UNCHANGED <<status_stack, pointer_level>>
    <3>1. CASE Ignore(t)
      BY <3>1 DEF Ignore, stacks
    <3>2. CASE skip(t)
      BY <3>2 DEF skip, vars, stacks
    <3> QED BY <1>2, <3>1, <3>2
  <2> QED BY <2>1, NoStar
<1>3. CASE Shift(t)
  <2> DEFINE s == CurrentStatus(t)
  <2>1. s \in Status /\ t.key \in Key
    BY Dispatch, TokenIsSymbol DEF TreeInv
  <2>2. ShiftTo[s][t.key] # -1 /\ UNCHANGED pointer_level
    BY <1>3 DEF Shift
  <2>3. ShiftTo[s][t.key] \in Status /\ <<s, t.key, ShiftTo[s][t.key]>> \in ShiftRows
    BY <2>1, <2>2, ShiftToRow
  <2>4. s \notin {3, 5}
    BY <2>1, <2>3, ShiftFacts
  <2> QED BY <2>2, <2>4, NoStar
<1>4. CASE Reduce(t)
  <2>1. \/ skip(t) \/ Header(t) \/ Body(t) \/ Variable(t) \/ Branching(t) \/ Expression(t)
    BY <1>4 DEF Reduce
  <2> QED BY <1>2, <2>1, HeaderStars, VariableStars, ExpressionStars
<1> QED BY <1>1, <1>2, <1>3, <1>4 DEF process_token

-----------------------------------------------------------------------------
(* Nothing leaks. *)

LEMMA PrioInitially ==
  ASSUME Init
  PROVE  PrioInv
<1>1. OpenParentheses(status_stack, symbol_stack) = {}
  BY DEF Init, OpenParentheses
<1>2. Unpaired = 0
  <2>1. Cardinality({}) = 0
    BY FS_EmptySet
  <2> QED BY <1>1, <2>1 DEF Init, Unpaired
<1> QED BY <1>2 DEF Init, PrioInv, TypeOfPriorities, NothingLeaks

LEMMA UnpairedIsInteger ==
  ASSUME IInv, TypeOfPriorities
  PROVE  Unpaired \in Int
<1>1. status_stack \in Seq(Status \ {0})
  BY Stacks
<1>2. Cardinality(OpenParentheses(status_stack, symbol_stack)) \in Nat
  BY <1>1, ParensAreFinite
<1>3. Len(priority_stack) \in Nat
  BY DEF TypeOfPriorities
<1> QED BY <1>2, <1>3 DEF Unpaired

LEMMA UnpairedStaysInteger ==
  ASSUME IInv', TypeOfPriorities'
  PROVE  Unpaired' \in Int
<1>1. status_stack' \in Seq(Status \ {0})
  BY StacksNext
<1>2. Cardinality(OpenParentheses(status_stack', symbol_stack')) \in Nat
  BY <1>1, ParensAreFinite
<1>3. Len(priority_stack') \in Nat
  BY DEF TypeOfPriorities
<1> QED BY <1>2, <1>3 DEF Unpaired

LEMMA PrioKept ==
  ASSUME TreeInv, IInv', PrioInv, Paired, StarsUsed
  PROVE  PrioInv'
<1>1. TypeOfPriorities' /\ Leaves255 /\ (Unpaired' = Unpaired \/ Unpaired' > Unpaired)
  BY DEF Paired, DropsAList
<1>2. Unpaired \in Int /\ Unpaired' \in Int /\ Unpaired >= 0
  BY <1>1, UnpairedIsInteger, UnpairedStaysInteger, TopIsLast DEF PrioInv, TreeInv
<1>3. Unpaired' >= 0
  <2> SUFFICES ASSUME NEW a \in Int, NEW b \in Int, a >= 0, b = a \/ b > a PROVE b >= 0
    BY <1>1, <1>2
  <2> QED OBVIOUS
<1>4. NothingLeaks'
  <2>1. TopOf(status_stack') = IF status_stack' = <<>> THEN 0 ELSE Last(status_stack')
    BY DEF TopOf, Last
  <2>2. (TopOf(status_stack))' = TopOf(status_stack')
    BY DEF TopOf
  <2> QED BY <1>1, <1>3, <2>1 DEF NothingLeaks, Leaves255, StarsUsed
<1> QED BY <1>1, <1>4 DEF PrioInv

LEMMA PrioInductive ==
  ASSUME TreeInv, TreeInv', PrioInv, [Next]_vars
  PROVE  PrioInv' /\ Paired
<1>1. IInv'
  BY DEF TreeInv
<1>2. ASSUME NEW t \in Token, process_token(t) PROVE PrioInv' /\ Paired
  BY <1>1, <1>2, StepPairs, StepStars, PrioKept
<1>3. CASE EndOfInput \/ UNCHANGED vars
  <2>1. /\ UNCHANGED <<status_stack, symbol_stack, priority_stack, last_priority>>
        /\ UNCHANGED pointer_level
    <3>1. CASE EndOfInput
      BY <3>1 DEF EndOfInput, End, stacks, priorities
    <3>2. CASE UNCHANGED vars
      BY <3>2 DEF vars, stacks, priorities
    <3> QED BY <1>3, <3>1, <3>2
  <2>2. Paired
    BY <2>1, NothingPairs
  <2>3. StarsUsed
    BY <2>1, TopIsLast DEF StarsUsed, PrioInv
  <2> QED BY <1>1, <2>2, <2>3, PrioKept
<1> QED BY <1>2, <1>3 DEF Next

\* The saved priorities, the one of the expression being parsed and the parentheses
\* that are open in it agree with the stacks, whatever the handlers reduce or drop.
THEOREM PriorityInvariance == Spec => [](TreeInv /\ PrioInv)
<1>1. Init => TreeInv /\ PrioInv
  BY PrioInitially, TreeInitially
<1>2. TreeInv /\ TreeInv' /\ PrioInv /\ [Next]_vars => PrioInv'
  BY PrioInductive
<1> QED BY <1>1, <1>2, TreeInvariance, PTL DEF Spec

\* Nothing leaks from one statement into the next: priorities and stars are as they were
\* when a statement is over, and leave_parentheses always finds a priority it may take
\* from priority_stack, however deep the expression was.
THEOREM NothingEverLeaks == Spec => []NothingLeaks
<1>1. TreeInv /\ PrioInv => NothingLeaks
  BY DEF PrioInv
<1> QED BY <1>1, PriorityInvariance, PTL

\* The priority that enter_parentheses saves is the one leave_parentheses takes back; the
\* only step that leaves one behind is the end of a statement that drops a list.
THEOREM PrioritiesStayPaired == Spec => PrioritiesArePaired
<1>1. TreeInv /\ TreeInv' /\ PrioInv /\ [Next]_vars =>
        [\/ Unpaired' = Unpaired
         \/ /\ Unpaired' > Unpaired /\ UNCHANGED priority_stack
            /\ \E i \in DOMAIN status_stack \ DOMAIN status_stack' :
                 status_stack[i] = 2 /\ symbol_stack[i].key = "COMMA"]_vars
  BY PrioInductive DEF Paired, DropsAList
<1> QED BY <1>1, PriorityInvariance, PTL DEF Spec, PrioritiesArePaired

=============================================================================
