-------------------------- MODULE EvaluationProofs --------------------------
(***************************************************************************)
(* Proofs about the loops of the expression parser, for every expression   *)
(* over every choice of operands and operators.                            *)
(***************************************************************************)
EXTENDS EvaluationProperties, SequenceTheorems, FiniteSetTheorems, TLAPS

-----------------------------------------------------------------------------
(* The tables. *)

\* Where the handlers that an expression calls are registered.
LEMMA Registered ==
  ASSUME NEW s \in Status, NEW k \in Key
  PROVE  /\ Handler[s][k] = "check_priority" => s = 2
         /\ Handler[s][k] = "reduce_rparenthese" => s = 2
         /\ Handler[s][k] = "enter_parentheses" => s \in {2, 7}
<1> DEFINE h == Handler[s][k]
<1>1. h # NoEntry => <<s, k, h>> \in ReduceRows
  BY Zenon DEF Handler
<1>2. "check_priority" # NoEntry /\ "reduce_rparenthese" # NoEntry /\ "enter_parentheses" # NoEntry
  BY DEF NoEntry
<1> HIDE DEF h
<1>3. <<s, k, h>> \in ReduceRows =>
      \/ <<s, k, h>> \in {0, 2, 14, 15, 19, 20, 21, 22, 24, 25} \X {"enter"} \X {"skip"}
      \/ <<s, k, h>> \in {<<10, "COMMA", "skip">>}
      \/ <<s, k, h>> \in {2} \X (Punchation \ {"(", ")", "LBRACES"}) \X {"check_priority"}
      \/ <<s, k, h>> \in {<<2, ")", "reduce_rparenthese">>,
                          <<2, "LBRACES", "reduce_condition_calculate">>}
      \/ <<s, k, h>> \in {2, 7} \X {"("} \X {"enter_parentheses"}
      \/ <<s, k, h>> \in {3, 5} \X {"*"} \X {"define_pointer"}
      \/ <<s, k, h>> \in {<<3, "id", "define_variable">>, <<5, "id", "define_again">>,
                          <<4, "SEMICOLON", "define_finished">>}
      \/ <<s, k, h>> \in {<<9, "(", "get_function_name">>,
                          <<10, ")", "wait_function_return_type">>,
                          <<12, "id", "get_argument">>,
                          <<14, "LBRACES", "function_body_define_strart">>,
                          <<18, "id", "get_function_return_type">>,
                          <<25, "LBRACES", "has_return_type_function_define">>,
                          <<25, "SEMICOLON", "function_declear">>,
                          <<15, "RBRACES", "function_body_define_finished">>}
      \/ <<s, k, h>> \in {15, 19, 22, 24} \X {"if"} \X {"start_if_condition"}
      \/ <<s, k, h>> \in {15, 19, 22, 24} \X {"while"} \X {"start_while_condition"}
      \/ <<s, k, h>> \in {<<19, "RBRACES", "end_if_body1">>, <<22, "RBRACES", "end_if_body2">>,
                          <<24, "RBRACES", "end_while_body">>}
      \/ <<s, k, h>> \in {20} \X (Key \ {"enter"}) \X {"check_if_body2"}
  BY Zenon DEF ReduceRows
<1>4. <<s, k, h>> \in ReduceRows =>
        /\ h = "check_priority" => s = 2
        /\ h = "reduce_rparenthese" => s = 2
        /\ h = "enter_parentheses" => s \in {2, 7}
  BY <1>3
<1> QED BY <1>1, <1>2, <1>4 DEF h

OperandKey == {"id", "digit", "value"}
TextKey == Operand \cup Operator \cup {"(", ")", "SEMICOLON"}

\* What is said of the keys.
LEMMA Keys ==
  /\ TextKey \subseteq Key
  /\ Operand \subseteq OperandKey
  /\ "value" \in OperandKey
  /\ Prioritised \subseteq Punchation
  /\ \A k \in OperandKey \cup {"fn", "LBRACES", "return", "SEMICOLON", ""} : k \notin Prioritised
  /\ \A k \in Operator : k \in Prioritised /\ k \notin {"(", ")", "SEMICOLON"} /\ k \notin OperandKey
  /\ "(" \notin OperandKey /\ ")" \notin OperandKey /\ "SEMICOLON" \notin OperandKey
  /\ \A k \in OperandKey : k \notin Punchation
<1> DEFINE Kinds == {"[", "]", "(", ")", "->", ".", "*", "&", "!", "~", "/", "%", "+", "-", "<<", ">>",
                    ">", ">=", "<", "<=", "==", "!=", "^", "|", "||", "?", "COMMA"}
<1>1. Prioritised \subseteq Kinds \cup AssignOp
  <2>1. SUFFICES ASSUME NEW k \in Prioritised PROVE k \in Kinds \cup AssignOp
    OBVIOUS
  <2>2. PICK row \in PriorityRows : k = row[1]
    BY DEF Prioritised
  <2> QED BY <2>2 DEF PriorityRows
<1>2. Prioritised \subseteq Punchation
  BY <1>1 DEF Punchation
<1>3. \A k \in OperandKey \cup {"fn", "LBRACES", "return", "SEMICOLON", ""} : k \notin Prioritised
  BY <1>1, ZenonT(30) DEF OperandKey, AssignOp
<1>4. {"(", ")", "SEMICOLON"} \subseteq Key /\ {"id", "digit"} \subseteq Key /\ Punchation \subseteq Key
  BY DEF Key, Punchation
<1>5. "(" \notin OperandKey /\ ")" \notin OperandKey /\ "SEMICOLON" \notin OperandKey
  BY DEF OperandKey
<1>6. \A k \in OperandKey : k \notin Punchation
  BY DEF OperandKey, Punchation, AssignOp
<1>7. Operator \subseteq Prioritised /\ "(" \notin Operator /\ ")" \notin Operator
  BY TextAssumption
<1>8. Operand \subseteq OperandKey /\ "value" \in OperandKey /\ Operand \subseteq {"id", "digit"}
  BY TextAssumption DEF OperandKey
<1> QED BY <1>2, <1>3, <1>4, <1>5, <1>6, <1>7, <1>8 DEF TextKey

LEMMA PriorityRange == \A k \in Prioritised : Priority[k] \in 1 .. 255
<1>1. \A k \in Prioritised : \E p \in 1 .. 15 : <<k, p>> \in PriorityRows
  BY DEF Prioritised, PriorityRows
<1>2. \A k \in Prioritised : Priority[k] \in 1 .. 15
  BY <1>1 DEF Priority
<1> QED BY <1>2

-----------------------------------------------------------------------------
(* Sequences: cutting, pushing, turning round. *)

LEMMA CutIs ==
  ASSUME NEW A, NEW s \in Seq(A), NEW n \in 0 .. Len(s)
  PROVE  /\ SubSeq(s, 1, n) \in Seq(A)
         /\ Len(SubSeq(s, 1, n)) = n
         /\ \A i \in 1 .. n : SubSeq(s, 1, n)[i] = s[i]
  OBVIOUS

LEMMA PushIs ==
  ASSUME NEW A, NEW s \in Seq(A), NEW x \in A
  PROVE  /\ Append(s, x) \in Seq(A)
         /\ Len(Append(s, x)) = Len(s) + 1
         /\ \A i \in 1 .. Len(s) : Append(s, x)[i] = s[i]
         /\ Append(s, x)[Len(s) + 1] = x
  OBVIOUS

\* What is behind place q, turned round.
LEMMA TurnIs ==
  ASSUME NEW A, NEW s \in Seq(A), NEW q \in 0 .. Len(s), NEW r,
         r = Reverse(SubSeq(s, q + 1, Len(s)))
  PROVE  /\ r \in Seq(A)
         /\ Len(r) = Len(s) - q
         /\ \A i \in 1 .. Len(s) - q : r[i] = s[Len(s) + 1 - i]
<1> DEFINE z == SubSeq(s, q + 1, Len(s))
<1>1. Len(s) \in Nat /\ q \in Nat /\ q <= Len(s)
  OBVIOUS
<1>2. z \in Seq(A) /\ Len(z) = Len(s) - q /\ \A i \in 1 .. Len(s) - q : z[i] = s[q + i]
  BY <1>1
<1> HIDE DEF z
<1>3. r = [i \in 1 .. Len(z) |-> z[(Len(z) - i) + 1]]
  BY DEF z, Reverse
<1>4. \A i \in 1 .. Len(z) : (Len(z) - i) + 1 \in 1 .. Len(z) /\ q + ((Len(z) - i) + 1) = Len(s) + 1 - i
  BY <1>1, <1>2
<1>5. \A i \in 1 .. Len(z) : r[i] = s[Len(s) + 1 - i] /\ r[i] \in A
  <2>1. SUFFICES ASSUME NEW i \in 1 .. Len(z) PROVE r[i] = s[Len(s) + 1 - i] /\ r[i] \in A
    OBVIOUS
  <2> DEFINE j == (Len(z) - i) + 1
  <2>2. r[i] = z[j]
    BY <1>3
  <2>3. j \in 1 .. Len(z) /\ j \in 1 .. Len(s) - q /\ q + j = Len(s) + 1 - i
    BY <1>2, <1>4
  <2> HIDE DEF j
  <2>4. z[j] = s[q + j] /\ z[j] \in A
    BY <1>2, <2>3
  <2> QED BY <2>2, <2>3, <2>4
<1>6. Len(z) \in Nat
  BY <1>2
<1>7. r \in Seq(A) /\ Len(r) = Len(z)
  <2>1. r \in [1 .. Len(z) -> A]
    BY <1>3, <1>5
  <2> QED BY <1>6, <2>1
<1> QED BY <1>2, <1>5, <1>7

-----------------------------------------------------------------------------
(* The inductive invariant, part by part. *)

Symbols == [key : Key \cup {"value"}, from : Nat, to : Nat]
Statuses == {2, 7, 14, 15, 16}

Within(s, n) == s.from <= s.to /\ s.to <= n

\* A stack of symbols that stand for stretches of a text of length n.
Stretches(ss, n) == ss \in Seq(Symbols) /\ \A i \in 1 .. Len(ss) : Within(ss[i], n)

\* A symbol of the expression; an operator or a parenthesis is one token of it.
IsItem(s, tx) ==
  /\ s.from > 0
  /\ s.key \in OperandKey \cup Operator \cup {"("}
  /\ s.key \notin OperandKey => s.from = s.to /\ tx[s.from] = s.key

\* The b symbols at the bottom are those that the expression stands on.
Outermost(ss, st, b) ==
  /\ b \in 2 .. 3 /\ b <= Len(ss) /\ Len(st) = Len(ss)
  /\ \A i \in 1 .. b : /\ ss[i].from = 0 /\ ss[i].to = 0
                       /\ ss[i].key \in {"fn", "LBRACES", "return"}
                       /\ st[i] \in {14, 15, 16}

\* On them the symbols of the expression stand in order and without a gap, and
\* each status is that of its symbol.
Placed(ss, st, b, tx) ==
  \A i \in b + 1 .. Len(ss) :
    /\ IsItem(ss[i], tx)
    /\ st[i] = IF ss[i].key \in OperandKey THEN 2 ELSE 7
    /\ ss[i].key \in Operator => st[i - 1] = 2
    /\ ss[i].key = "(" => i > b + 1
    /\ ss[i].from = ss[i - 1].to + 1
    /\ \A j \in 1 .. i - 1 : ss[j].to < ss[i].from

Solid(ss, st, b, tx) ==
  /\ Stretches(ss, Len(tx)) /\ st \in Seq(Statuses)
  /\ Outermost(ss, st, b) /\ Placed(ss, st, b, tx)

\* process_stack holds symbols of the expression in the opposite order.
Turned(ps, tx) ==
  /\ Stretches(ps, Len(tx))
  /\ \A i \in 1 .. Len(ps) : IsItem(ps[i], tx)
  /\ Len(ps) > 0 => ps[1].key \in OperandKey
  /\ \A i \in 1 .. Len(ps) - 1 : ps[i].from = ps[i + 1].to + 1
  /\ \A i \in 1 .. Len(ps) : \A j \in i + 1 .. Len(ps) : ps[j].to < ps[i].from

\* It goes on where symbol_stack ends, and ends in front of the current token.
Joins(ss, ps, gap, read) ==
  Len(ps) > 0 /\ ps[1].to = read /\ ps[Len(ps)].from = ss[Len(ss)].to + gap

\* What was evaluated is inside one of the symbols, and no operator was twice.
In(a, s) == s.from <= a.from /\ a.to <= s.to
Covered(ap, ss, ps) ==
  \A a \in ap : /\ a.from < a.at /\ a.at < a.to
                /\ (\E i \in 1 .. Len(ss) : In(a, ss[i])) \/ (\E i \in 1 .. Len(ps) : In(a, ps[i]))
Once(ap) == \A a1, a2 \in ap : a1.at = a2.at => a1 = a2

\* There is a priority to go back to for every parenthesis that is open.
Parens(ss) == {i \in 1 .. Len(ss) : ss[i].key = "("}
Saved(ss, more, pr) == Cardinality(Parens(ss)) + more <= Len(pr)

Typed ==
  /\ Stretches(symbol_stack, Len(text)) /\ Stretches(process_stack, Len(text))
  /\ status_stack \in Seq(Statuses)
  /\ priority_stack \in Seq(1 .. 255) /\ last_priority \in 1 .. 255
  /\ flag \in BOOLEAN /\ pc \in Phase
  /\ text \in Seq(TextKey)
  /\ applied \subseteq [at : 1 .. Len(text), from : 1 .. Len(text),
                        to : 1 .. Len(text), grouped : BOOLEAN]

Base(b) ==
  /\ Solid(symbol_stack, status_stack, b, text) /\ Turned(process_stack, text)
  /\ Covered(applied, symbol_stack, process_stack) /\ Once(applied)

\* A handler is working on the last token.
Busy(keys) ==
  /\ Len(text) > 0 /\ text[Len(text)] \in keys
  /\ current_input = Symbol(text[Len(text)], Len(text), Len(text))

Ends == Operator \cup {"SEMICOLON"}

AtReading(b) ==
  /\ pc = "reading" /\ Base(b) /\ Len(process_stack) = 0
  /\ symbol_stack[Len(symbol_stack)].to = Len(text)
  /\ Saved(symbol_stack, 0, priority_stack)

\* An operand is on top until the walk has taken it, and then something is under it.
AtWalking(b) ==
  /\ pc = "walking" /\ Base(b) /\ Busy(Ends)
  /\ Len(symbol_stack) > b
  /\ IF flag THEN Joins(symbol_stack, process_stack, 1, Len(text) - 1)
     ELSE /\ Len(process_stack) = 0 /\ status_stack[Len(status_stack)] = 2
          /\ symbol_stack[Len(symbol_stack)].to = Len(text) - 1
  /\ Saved(symbol_stack, 0, priority_stack)

AtReturned(b) ==
  /\ pc = "returned" /\ Base(b) /\ Busy(Ends)
  /\ Len(symbol_stack) > b /\ Len(process_stack) = 0
  /\ status_stack[Len(status_stack)] = 2
  /\ symbol_stack[Len(symbol_stack)].to = Len(text) - 1
  /\ Saved(symbol_stack, 0, priority_stack)

\* The "(" that was just removed still has its priority, and leaves a gap.
Inside ==
  /\ Busy({")"})
  /\ Joins(symbol_stack, process_stack, 2, Len(text) - 1)
  /\ text[symbol_stack[Len(symbol_stack)].to + 1] = "("
  /\ Saved(symbol_stack, 1, priority_stack)

AtClearing(b) ==
  /\ pc = "clearing" /\ Base(b)
  /\ \/ Inside
     \/ /\ Busy(Ends) /\ Joins(symbol_stack, process_stack, 1, Len(text) - 1)
        /\ Saved(symbol_stack, 0, priority_stack)

AtCalling(b) ==
  /\ pc = "calling" /\ Base(b) /\ Inside
  /\ symbol_stack[Len(symbol_stack)].key = "id"

Phases(b) == AtReading(b) \/ AtWalking(b) \/ AtReturned(b) \/ AtClearing(b) \/ AtCalling(b)

EInv == Typed /\ (pc \in Running => \E b \in 2 .. 3 : Phases(b))

-----------------------------------------------------------------------------
(* The parts under a cut, a push, a token more, a turn. *)

LEMMA SymbolAt ==
  ASSUME NEW ss \in Seq(Symbols), NEW i \in 1 .. Len(ss)
  PROVE  ss[i] \in Symbols /\ ss[i].from \in Nat /\ ss[i].to \in Nat
<1>1. ss[i] \in Symbols
  OBVIOUS
<1> DEFINE x == ss[i]
<1> HIDE DEF x
<1>2. x \in Symbols => x.from \in Nat /\ x.to \in Nat
  BY DEF Symbols
<1> QED BY <1>1, <1>2 DEF x

LEMMA StretchesCut ==
  ASSUME NEW ss, NEW m \in Nat, Stretches(ss, m), NEW n \in 0 .. Len(ss)
  PROVE  Stretches(SubSeq(ss, 1, n), m)
  BY CutIs DEF Stretches

LEMMA StretchesPush ==
  ASSUME NEW ss, NEW m \in Nat, Stretches(ss, m), NEW x \in Symbols, Within(x, m)
  PROVE  Stretches(Append(ss, x), m)
<1>1. ss \in Seq(Symbols) /\ \A i \in 1 .. Len(ss) : Within(ss[i], m)
  BY DEF Stretches
<1>2. \A i \in 1 .. Len(ss) + 1 : i \in 1 .. Len(ss) \/ i = Len(ss) + 1
  BY <1>1
<1>3. Append(ss, x) \in Seq(Symbols) /\ Len(Append(ss, x)) = Len(ss) + 1
      /\ (\A i \in 1 .. Len(ss) : Append(ss, x)[i] = ss[i]) /\ Append(ss, x)[Len(ss) + 1] = x
  BY <1>1, PushIs
<1> DEFINE z == Append(ss, x)
<1> HIDE DEF z
<1>4. \A i \in 1 .. Len(z) : Within(z[i], m)
  BY <1>1, <1>2, <1>3 DEF z
<1> QED BY <1>3, <1>4 DEF Stretches, z

LEMMA StretchesMore ==
  ASSUME NEW ss, NEW m \in Nat, Stretches(ss, m)
  PROVE  Stretches(ss, m + 1)
<1>1. ss \in Seq(Symbols) /\ \A i \in 1 .. Len(ss) : Within(ss[i], m)
  BY DEF Stretches
<1>2. \A i \in 1 .. Len(ss) : Within(ss[i], m + 1)
  <2>1. SUFFICES ASSUME NEW i \in 1 .. Len(ss) PROVE Within(ss[i], m + 1)
    OBVIOUS
  <2>2. ss[i].from \in Nat /\ ss[i].to \in Nat /\ Within(ss[i], m)
    BY <1>1, SymbolAt
  <2> QED BY <2>2 DEF Within
<1> QED BY <1>1, <1>2, Zenon DEF Stretches

LEMMA SolidCut ==
  ASSUME NEW ss, NEW st, NEW b, NEW tx \in Seq(TextKey), Solid(ss, st, b, tx),
         NEW n \in b .. Len(ss)
  PROVE  Solid(SubSeq(ss, 1, n), SubSeq(st, 1, n), b, tx)
<1> DEFINE zs == SubSeq(ss, 1, n)
           zt == SubSeq(st, 1, n)
<1>1. ss \in Seq(Symbols) /\ st \in Seq(Statuses) /\ Len(st) = Len(ss) /\ b \in 2 .. 3
  BY DEF Solid, Stretches, Outermost
<1>2. n \in 0 .. Len(ss) /\ n \in Nat /\ Len(ss) \in Nat /\ n \in 0 .. Len(st)
  BY <1>1
<1>3. Len(zs) = n /\ Len(zt) = n /\ zt \in Seq(Statuses)
      /\ (\A i \in 1 .. n : zs[i] = ss[i]) /\ (\A i \in 1 .. n : zt[i] = st[i])
  BY <1>1, <1>2, CutIs
<1>4. Stretches(zs, Len(tx))
  BY <1>2, StretchesCut DEF Solid
<1> HIDE DEF zs, zt
<1>5. Outermost(zs, zt, b)
  BY <1>1, <1>2, <1>3 DEF Outermost, Solid
<1>6. Placed(zs, zt, b, tx)
  <2>1. SUFFICES ASSUME NEW i \in b + 1 .. n
                 PROVE  /\ zs[i] = ss[i] /\ zt[i] = st[i] /\ zs[i - 1] = ss[i - 1] /\ zt[i - 1] = st[i - 1]
                        /\ i \in b + 1 .. Len(ss)
                        /\ \A j \in 1 .. i - 1 : zs[j] = ss[j]
    BY <1>3, ZenonT(30) DEF Placed, Solid
  <2>2. i \in 1 .. n /\ i - 1 \in 1 .. n /\ i \in b + 1 .. Len(ss) /\ \A j \in 1 .. i - 1 : j \in 1 .. n
    BY <1>1, <1>2
  <2> QED BY <1>3, <2>2
<1> QED BY <1>3, <1>4, <1>5, <1>6 DEF Solid, zs, zt

LEMMA SolidPush ==
  ASSUME NEW ss, NEW st, NEW b, NEW tx \in Seq(TextKey), Solid(ss, st, b, tx),
         NEW x \in Symbols, NEW c,
         Within(x, Len(tx)), IsItem(x, tx), c = (IF x.key \in OperandKey THEN 2 ELSE 7),
         x.key \in Operator => st[Len(st)] = 2,
         x.key = "(" => Len(ss) > b,
         x.from = ss[Len(ss)].to + 1
  PROVE  Solid(Append(ss, x), Append(st, c), b, tx)
<1> DEFINE zs == Append(ss, x)
           zt == Append(st, c)
           m == Len(ss)
<1>1. ss \in Seq(Symbols) /\ st \in Seq(Statuses) /\ Len(st) = m /\ b \in 2 .. 3 /\ b <= m /\ m \in Nat
  BY DEF Solid, Stretches, Outermost
<1>2. c \in Statuses
  BY DEF Statuses
<1>3. zs \in Seq(Symbols) /\ Len(zs) = m + 1 /\ (\A i \in 1 .. m : zs[i] = ss[i]) /\ zs[m + 1] = x
  BY <1>1, PushIs
<1>4. zt \in Seq(Statuses) /\ Len(zt) = m + 1 /\ (\A i \in 1 .. m : zt[i] = st[i]) /\ zt[m + 1] = c
  BY <1>1, <1>2, PushIs
<1>5. Len(tx) \in Nat
  OBVIOUS
<1>6. Stretches(zs, Len(tx))
  BY <1>5, StretchesPush DEF Solid
<1> HIDE DEF zs, zt, m
<1>7. Outermost(zs, zt, b)
  <2>1. \A i \in 1 .. b : i \in 1 .. m
    BY <1>1
  <2>2. b \in 2 .. 3 /\ b <= Len(zs) /\ Len(zt) = Len(zs)
    BY <1>1, <1>3, <1>4
  <2> QED BY <1>3, <1>4, <2>1, <2>2, Zenon DEF Outermost, Solid
<1>8. \A j \in 1 .. m : ss[j].to < x.from
  <2>1. \A j \in 1 .. m : ss[j].to \in Nat /\ ss[j].from \in Nat
    BY <1>1, SymbolAt DEF m
  <2>2. m \in 1 .. m /\ x.from = ss[m].to + 1
    BY <1>1 DEF m
  <2>0. \A a, d \in Nat : a <= d => a < d + 1
    OBVIOUS
  <2>3. SUFFICES ASSUME NEW j \in 1 .. m PROVE ss[j].to <= ss[m].to
    BY <2>0, <2>1, <2>2, Zenon
  <2>4. CASE j = m
    BY <2>1, <2>2, <2>4
  <2>5. CASE j # m /\ m > b
    <3>1. m \in b + 1 .. Len(ss) /\ j \in 1 .. m - 1 /\ m \in 1 .. Len(ss)
      BY <1>1, <2>5 DEF m
    <3>2. ss[j].to < ss[m].from /\ Within(ss[m], Len(tx))
      BY <3>1, Zenon DEF Solid, Placed, Stretches
    <3> QED BY <2>1, <2>2, <3>2 DEF Within
  <2>6. CASE m = b
    <3>1. j \in 1 .. b /\ b \in 1 .. b
      BY <1>1, <2>6
    <3>2. ss[j].to = 0 /\ ss[b].to = 0
      BY <3>1, Zenon DEF Solid, Outermost
    <3> QED BY <2>6, <3>2
  <2> QED BY <1>1, <2>4, <2>5, <2>6
<1>9. Placed(zs, zt, b, tx)
  <2>1. SUFFICES ASSUME NEW i \in b + 1 .. m + 1
                 PROVE  /\ IsItem(zs[i], tx)
                        /\ zt[i] = IF zs[i].key \in OperandKey THEN 2 ELSE 7
                        /\ zs[i].key \in Operator => zt[i - 1] = 2
                        /\ zs[i].key = "(" => i > b + 1
                        /\ zs[i].from = zs[i - 1].to + 1
                        /\ \A j \in 1 .. i - 1 : zs[j].to < zs[i].from
    BY <1>3 DEF Placed
  <2>2. CASE i = m + 1
    <3>1. i - 1 = m /\ m \in 1 .. m /\ m > 0
      BY <1>1, <2>2
    <3> QED BY <1>1, <1>3, <1>4, <1>8, <2>2, <3>1 DEF m
  <2>3. CASE i # m + 1
    <3>1. i \in b + 1 .. Len(ss) /\ i \in 1 .. m /\ i - 1 \in 1 .. m /\ \A j \in 1 .. i - 1 : j \in 1 .. m
      BY <1>1, <2>3 DEF m
    <3>2. /\ IsItem(ss[i], tx)
          /\ st[i] = IF ss[i].key \in OperandKey THEN 2 ELSE 7
          /\ ss[i].key \in Operator => st[i - 1] = 2
          /\ ss[i].key = "(" => i > b + 1
          /\ ss[i].from = ss[i - 1].to + 1
          /\ \A j \in 1 .. i - 1 : ss[j].to < ss[i].from
      BY <3>1, Zenon DEF Solid, Placed
    <3> QED BY <1>3, <1>4, <3>1, <3>2
  <2> QED BY <2>2, <2>3
<1> QED BY <1>4, <1>6, <1>7, <1>9 DEF Solid, zs, zt

LEMMA TextIs ==
  ASSUME NEW tx \in Seq(TextKey), NEW k \in TextKey
  PROVE  /\ Append(tx, k) \in Seq(TextKey)
         /\ Len(Append(tx, k)) = Len(tx) + 1 /\ Len(tx) \in Nat
         /\ \A i \in 1 .. Len(tx) : Append(tx, k)[i] = tx[i]
         /\ Append(tx, k)[Len(tx) + 1] = k
  BY PushIs

LEMMA SolidRead ==
  ASSUME NEW ss, NEW st, NEW b, NEW tx \in Seq(TextKey), NEW k \in TextKey, Solid(ss, st, b, tx)
  PROVE  Solid(ss, st, b, Append(tx, k))
<1> DEFINE z == Append(tx, k)
<1>1. Len(z) = Len(tx) + 1 /\ Len(tx) \in Nat /\ \A i \in 1 .. Len(tx) : z[i] = tx[i]
  BY TextIs
<1> HIDE DEF z
<1>2. Stretches(ss, Len(z))
  BY <1>1, StretchesMore DEF Solid
<1>3. ss \in Seq(Symbols) /\ b \in 2 .. 3
  BY DEF Solid, Stretches, Outermost
<1>4. \A i \in b + 1 .. Len(ss) : IsItem(ss[i], z)
  <2>1. SUFFICES ASSUME NEW i \in b + 1 .. Len(ss) PROVE IsItem(ss[i], z)
    OBVIOUS
  <2>2. i \in 1 .. Len(ss) /\ ss[i] \in Symbols
    BY <1>3
  <2>3. IsItem(ss[i], tx) /\ Within(ss[i], Len(tx))
    BY <2>2 DEF Solid, Placed, Stretches
  <2>4. ss[i].from \in 1 .. Len(tx)
    BY <1>1, <2>2, <2>3 DEF IsItem, Within, Symbols
  <2>5. z[ss[i].from] = tx[ss[i].from]
    BY <1>1, <2>4
  <2> QED BY <2>3, <2>5, Zenon DEF IsItem
<1>5. Placed(ss, st, b, z)
  BY <1>4, Zenon DEF Solid, Placed
<1> QED BY <1>2, <1>5, Zenon DEF Solid, z

LEMMA NothingTurned ==
  ASSUME NEW ps, Len(ps) = 0, ps \in Seq(Symbols), NEW tx
  PROVE  Turned(ps, tx)
<1>1. \A i : i \notin 1 .. Len(ps)
  OBVIOUS
<1>2. \A i : i \notin 1 .. Len(ps) - 1
  OBVIOUS
<1>3. ~(Len(ps) > 0)
  OBVIOUS
<1> QED BY <1>1, <1>2, <1>3, Zenon DEF Turned, Stretches

\* The symbols above place q, turned round.
LEMMA TurnedOf ==
  ASSUME NEW ss, NEW st, NEW b, NEW tx \in Seq(TextKey), Solid(ss, st, b, tx),
         NEW q \in b .. Len(ss), q < Len(ss), ss[Len(ss)].key \in OperandKey,
         NEW r, r = Reverse(SubSeq(ss, q + 1, Len(ss)))
  PROVE  /\ Turned(r, tx) /\ Len(r) = Len(ss) - q
         /\ \A i \in 1 .. Len(r) : r[i] = ss[Len(ss) + 1 - i]
<1> DEFINE m == Len(ss)
           n == m - q
<1>1. ss \in Seq(Symbols) /\ b \in 2 .. 3 /\ m \in Nat /\ q \in 0 .. m /\ q \in b .. m /\ q < m /\ b \in Nat
  BY DEF Solid, Stretches, Outermost
<1>2. r \in Seq(Symbols) /\ Len(r) = n /\ \A i \in 1 .. n : r[i] = ss[m + 1 - i]
  <2>1. ss \in Seq(Symbols) /\ q \in 0 .. Len(ss)
    BY <1>1
  <2>2. r = Reverse(SubSeq(ss, q + 1, Len(ss)))
    OBVIOUS
  <2> QED BY ONLY <2>1, <2>2, TurnIs
<1>3. \A i \in 1 .. n : m + 1 - i \in b + 1 .. m /\ m + 1 - i \in 1 .. m
  BY <1>1
<1>4. n \in Nat /\ n > 0
  BY <1>1
<1> HIDE DEF n, m
<1>5. \A i \in b + 1 .. m : /\ IsItem(ss[i], tx) /\ ss[i].from = ss[i - 1].to + 1
                            /\ \A j \in 1 .. i - 1 : ss[j].to < ss[i].from
  BY Zenon DEF Solid, Placed, m
<1>6. Stretches(r, Len(tx))
  <2>1. \A i \in 1 .. m : Within(ss[i], Len(tx))
    BY Zenon DEF Solid, Stretches, m
  <2> QED BY <1>2, <1>3, <2>1, Zenon DEF Stretches
<1>7. \A i \in 1 .. n : IsItem(r[i], tx)
  BY <1>2, <1>3, <1>5, Zenon
<1>8. r[1].key \in OperandKey
  <2>1. 1 \in 1 .. n /\ m + 1 - 1 = m
    BY <1>1, <1>4
  <2>2. r[1] = ss[m]
    BY <1>2, <2>1
  <2> QED BY <2>2 DEF m
<1>9. \A i \in 1 .. n - 1 : r[i].from = r[i + 1].to + 1
  <2>1. SUFFICES ASSUME NEW i \in 1 .. n - 1 PROVE r[i].from = r[i + 1].to + 1
    OBVIOUS
  <2>2. i \in 1 .. n /\ i + 1 \in 1 .. n /\ m + 1 - (i + 1) = (m + 1 - i) - 1
    BY <1>1, <1>4
  <2>3. r[i] = ss[m + 1 - i] /\ r[i + 1] = ss[(m + 1 - i) - 1]
    BY <1>2, <2>2
  <2> DEFINE k == m + 1 - i
  <2>4. k \in b + 1 .. m
    BY <1>3, <2>2
  <2> HIDE DEF k
  <2>5. ss[k].from = ss[k - 1].to + 1
    BY <1>5, <2>4
  <2> QED BY <2>3, <2>5 DEF k
<1>10. \A i \in 1 .. n : \A j \in i + 1 .. n : r[j].to < r[i].from
  <2>1. SUFFICES ASSUME NEW i \in 1 .. n, NEW j \in i + 1 .. n PROVE r[j].to < r[i].from
    OBVIOUS
  <2> DEFINE k == m + 1 - i
             l == m + 1 - j
  <2>2. j \in 1 .. n /\ k \in b + 1 .. m /\ l \in 1 .. k - 1
    BY <1>1, <1>3, <1>4
  <2>3. r[i] = ss[k] /\ r[j] = ss[l]
    BY <1>2, <2>2
  <2> HIDE DEF k, l
  <2> QED BY <1>5, <2>2, <2>3
<1> QED BY <1>2, <1>6, <1>7, <1>8, <1>9, <1>10, Zenon DEF Turned, n, m

LEMMA TurnedCut ==
  ASSUME NEW ps, NEW tx \in Seq(TextKey), Turned(ps, tx), NEW n \in 0 .. Len(ps)
  PROVE  Turned(SubSeq(ps, 1, n), tx)
<1> DEFINE z == SubSeq(ps, 1, n)
<1>1. ps \in Seq(Symbols) /\ n \in Nat /\ Len(ps) \in Nat /\ n <= Len(ps)
  BY DEF Turned, Stretches
<1>2. Len(z) = n /\ \A i \in 1 .. n : z[i] = ps[i]
  BY <1>1, CutIs
<1>3. Stretches(z, Len(tx))
  BY StretchesCut DEF Turned
<1> HIDE DEF z
<1>4. n > 0 => 1 \in 1 .. n /\ Len(ps) > 0
  BY <1>1
<1>5. \A i \in 1 .. n : i \in 1 .. Len(ps) /\ \A j \in i + 1 .. n : j \in i + 1 .. Len(ps) /\ j \in 1 .. n
  BY <1>1
<1>6. \A i \in 1 .. n - 1 : i \in 1 .. Len(ps) - 1 /\ i \in 1 .. n /\ i + 1 \in 1 .. n
  BY <1>1
<1> QED BY <1>2, <1>3, <1>4, <1>5, <1>6, Zenon DEF Turned, z

LEMMA TurnedPush ==
  ASSUME NEW ps, NEW tx \in Seq(TextKey), Turned(ps, tx), NEW x \in Symbols,
         Within(x, Len(tx)), IsItem(x, tx),
         Len(ps) = 0 => x.key \in OperandKey,
         Len(ps) > 0 => ps[Len(ps)].from = x.to + 1
  PROVE  Turned(Append(ps, x), tx)
<1> DEFINE z == Append(ps, x)
           n == Len(ps)
<1>1. ps \in Seq(Symbols) /\ n \in Nat /\ \A i \in 1 .. n : Within(ps[i], Len(tx))
  BY DEF Turned, Stretches
<1>2. Len(z) = n + 1 /\ (\A i \in 1 .. n : z[i] = ps[i]) /\ z[n + 1] = x
  BY <1>1, PushIs
<1>3. Stretches(z, Len(tx))
  BY StretchesPush DEF Turned
<1> HIDE DEF z, n
<1>4. /\ \A i \in 1 .. n : IsItem(ps[i], tx)
      /\ n > 0 => ps[1].key \in OperandKey
      /\ \A i \in 1 .. n - 1 : ps[i].from = ps[i + 1].to + 1
      /\ \A i \in 1 .. n : \A j \in i + 1 .. n : ps[j].to < ps[i].from
  BY Zenon DEF Turned, n
<1>5. \A i \in 1 .. n + 1 : i \in 1 .. n \/ i = n + 1
  BY <1>1
<1>6. \A i \in 1 .. n + 1 : IsItem(z[i], tx)
  BY <1>2, <1>4, <1>5, Zenon
<1>7. z[1].key \in OperandKey
  <2>1. CASE n = 0
    BY <1>2, <2>1 DEF n
  <2>2. CASE n > 0
    <3>1. 1 \in 1 .. n
      BY <1>1, <2>2
    <3> QED BY <1>2, <1>4, <2>2, <3>1
  <2> QED BY <1>1, <2>1, <2>2
<1>8. \A i \in 1 .. (n + 1) - 1 : z[i].from = z[i + 1].to + 1
  <2>1. SUFFICES ASSUME NEW i \in 1 .. n PROVE z[i].from = z[i + 1].to + 1
    BY <1>1
  <2>2. CASE i = n
    <3>1. n > 0 /\ n \in 1 .. n
      BY <2>2, <1>1
    <3> QED BY <1>2, <2>2, <3>1 DEF n
  <2>3. CASE i # n
    <3>1. i \in 1 .. n - 1 /\ i + 1 \in 1 .. n
      BY <1>1, <2>3
    <3> QED BY <1>2, <1>4, <3>1
  <2> QED BY <2>2, <2>3
<1>9. \A i \in 1 .. n : x.to < ps[i].from
  <2>1. SUFFICES ASSUME NEW i \in 1 .. n PROVE x.to < ps[i].from
    OBVIOUS
  <2> DEFINE u == ps[n]
             v == ps[i]
             t == x.to
  <2>2. n \in 1 .. n /\ n > 0
    BY <1>1
  <2>3. u.from = t + 1 /\ t \in Nat
    BY <2>2, Zenon DEF n, Symbols
  <2>4. v.from \in Nat /\ u.from \in Nat /\ u.to \in Nat /\ u.from <= u.to
    BY <1>1, <2>2, SymbolAt DEF n, Within
  <2>5. CASE i = n
    BY <2>3, <2>5
  <2>6. CASE i # n
    <3>1. n \in i + 1 .. n
      BY <1>1, <2>6
    <3>2. u.to < v.from
      BY <1>4, <3>1
    <3> HIDE DEF u, v, t
    <3>3. t < v.from
      BY <2>3, <2>4, <3>2
    <3> QED BY <3>3 DEF u, v, t
  <2> QED BY <2>5, <2>6
<1>10. \A i \in 1 .. n + 1 : \A j \in i + 1 .. n + 1 : z[j].to < z[i].from
  <2>1. SUFFICES ASSUME NEW i \in 1 .. n + 1, NEW j \in i + 1 .. n + 1 PROVE z[j].to < z[i].from
    OBVIOUS
  <2>2. i \in 1 .. n
    BY <1>1
  <2>3. CASE j = n + 1
    BY <1>2, <1>9, <2>2, <2>3
  <2>4. CASE j # n + 1
    <3>1. j \in i + 1 .. n /\ j \in 1 .. n
      BY <1>1, <2>4
    <3> QED BY <1>2, <1>4, <2>2, <3>1
  <2> QED BY <2>3, <2>4
<1> QED BY <1>2, <1>3, <1>6, <1>7, <1>8, <1>10, Zenon DEF Turned, z, n

\* How many parentheses are open.
LEMMA ParensCount ==
  ASSUME NEW ss \in Seq(Symbols)
  PROVE  IsFiniteSet(Parens(ss)) /\ Cardinality(Parens(ss)) \in Nat
<1>1. IsFiniteSet(1 .. Len(ss))
  BY FS_Interval
<1>2. Parens(ss) \subseteq 1 .. Len(ss)
  BY DEF Parens
<1> QED BY <1>1, <1>2, FS_Subset, FS_CardinalityType

LEMMA ParensCut ==
  ASSUME NEW ss \in Seq(Symbols), NEW n \in 0 .. Len(ss), NEW z, z = SubSeq(ss, 1, n)
  PROVE  /\ Cardinality(Parens(z)) \in Nat
         /\ Cardinality(Parens(z)) <= Cardinality(Parens(ss))
         /\ \A q \in n + 1 .. Len(ss) :
              ss[q].key = "(" => Cardinality(Parens(z)) + 1 <= Cardinality(Parens(ss))
<1>1. z \in Seq(Symbols) /\ Len(z) = n /\ \A i \in 1 .. n : z[i] = ss[i]
  BY CutIs
<1>2. IsFiniteSet(Parens(z)) /\ IsFiniteSet(Parens(ss))
      /\ Cardinality(Parens(z)) \in Nat /\ Cardinality(Parens(ss)) \in Nat
  BY <1>1, ParensCount
<1>3. Parens(z) \subseteq Parens(ss)
  BY <1>1 DEF Parens
<1>4. Cardinality(Parens(z)) <= Cardinality(Parens(ss))
  BY <1>2, <1>3, FS_Subset
<1>5. ASSUME NEW q \in n + 1 .. Len(ss), ss[q].key = "("
      PROVE  Cardinality(Parens(z)) + 1 <= Cardinality(Parens(ss))
  <2>1. q \in Parens(ss) /\ q \notin Parens(z)
    BY <1>1, <1>5 DEF Parens
  <2>2. Cardinality(Parens(z)) # Cardinality(Parens(ss))
    BY <1>2, <1>3, <2>1, FS_Subset
  <2> QED BY <1>2, <1>4, <2>2
<1> QED BY <1>2, <1>4, <1>5

LEMMA ParensPush ==
  ASSUME NEW ss \in Seq(Symbols), NEW x \in Symbols, NEW z, z = Append(ss, x)
  PROVE  Cardinality(Parens(z)) = Cardinality(Parens(ss)) + (IF x.key = "(" THEN 1 ELSE 0)
<1>1. Len(z) = Len(ss) + 1 /\ (\A i \in 1 .. Len(ss) : z[i] = ss[i]) /\ z[Len(ss) + 1] = x
  BY PushIs
<1>2. \A i : i \in 1 .. Len(ss) + 1 <=> i \in 1 .. Len(ss) \/ i = Len(ss) + 1
  OBVIOUS
<1>3. IsFiniteSet(Parens(ss)) /\ Cardinality(Parens(ss)) \in Nat /\ Len(ss) + 1 \notin Parens(ss)
  BY ParensCount DEF Parens
<1>4. CASE x.key = "("
  <2>1. Parens(z) = Parens(ss) \cup {Len(ss) + 1}
    BY <1>1, <1>2, <1>4 DEF Parens
  <2>2. Cardinality(Parens(ss) \cup {Len(ss) + 1}) = Cardinality(Parens(ss)) + 1
    BY <1>3, FS_AddElement
  <2> QED BY <1>4, <2>1, <2>2
<1>5. CASE x.key # "("
  <2>1. Parens(z) = Parens(ss)
    BY <1>1, <1>2, <1>5 DEF Parens
  <2> QED BY <1>3, <1>5, <2>1
<1> QED BY <1>4, <1>5

\* What was evaluated stays inside a symbol when every symbol does.
LEMMA CoveredMoves ==
  ASSUME NEW ap, NEW ss, NEW ps, NEW zs, NEW zp, Covered(ap, ss, ps),
         \A a \in ap : \A i \in 1 .. Len(ss) : In(a, ss[i]) =>
           (\E j \in 1 .. Len(zs) : In(a, zs[j])) \/ (\E j \in 1 .. Len(zp) : In(a, zp[j])),
         \A a \in ap : \A i \in 1 .. Len(ps) : In(a, ps[i]) =>
           (\E j \in 1 .. Len(zs) : In(a, zs[j])) \/ (\E j \in 1 .. Len(zp) : In(a, zp[j]))
  PROVE  Covered(ap, zs, zp)
  BY Zenon DEF Covered

LEMMA CoveredPush ==
  ASSUME NEW ap, NEW ss \in Seq(Symbols), NEW ps, NEW x \in Symbols, NEW zs, zs = Append(ss, x),
         Covered(ap, ss, ps)
  PROVE  Covered(ap, zs, ps)
<1>1. Len(zs) = Len(ss) + 1 /\ \A i \in 1 .. Len(ss) : zs[i] = ss[i]
  BY PushIs
<1>2. \A i \in 1 .. Len(ss) : i \in 1 .. Len(zs)
  BY <1>1
<1> QED BY <1>1, <1>2, CoveredMoves, ZenonT(30)

-----------------------------------------------------------------------------
(* The tokens. *)

LEMMA TypesAre ==
  ASSUME Typed
  PROVE  /\ symbol_stack \in Seq(Symbols) /\ process_stack \in Seq(Symbols)
         /\ status_stack \in Seq(Statuses) /\ priority_stack \in Seq(1 .. 255)
         /\ text \in Seq(TextKey) /\ Len(text) \in Nat
         /\ last_priority \in 1 .. 255
<1> SUFFICES /\ symbol_stack \in Seq(Symbols) /\ process_stack \in Seq(Symbols)
             /\ status_stack \in Seq(Statuses) /\ priority_stack \in Seq(1 .. 255)
             /\ text \in Seq(TextKey)
             /\ last_priority \in 1 .. 255
  OBVIOUS
<1> QED BY Zenon DEF Typed, Stretches

\* A handler has read a token and left the stacks alone so far.
LEMMA AfterRead ==
  ASSUME Typed, NEW k \in TextKey, Read(k)
  PROVE  /\ text' \in Seq(TextKey) /\ Len(text') = Len(text) + 1 /\ text'[Len(text')] = k
         /\ text' = Append(text, k)
         /\ current_input' = Symbol(k, Len(text'), Len(text')) /\ current_input'.key = k
         /\ Stretches(symbol_stack, Len(text')) /\ Stretches(process_stack, Len(text'))
         /\ applied \subseteq [at : 1 .. Len(text'), from : 1 .. Len(text'),
                               to : 1 .. Len(text'), grouped : BOOLEAN]
         /\ \A b : Solid(symbol_stack, status_stack, b, text) =>
                     Solid(symbol_stack, status_stack, b, text')
<1>1. text' = Append(text, k) /\ current_input' = Symbol(k, Len(text) + 1, Len(text) + 1)
  BY Zenon DEF Read
<1>2. text \in Seq(TextKey) /\ Len(text) \in Nat
  BY TypesAre
<1>3. text' \in Seq(TextKey) /\ Len(text') = Len(text) + 1 /\ text'[Len(text) + 1] = k
  BY <1>1, <1>2, TextIs
<1>4. Stretches(symbol_stack, Len(text')) /\ Stretches(process_stack, Len(text'))
  BY <1>2, <1>3, StretchesMore DEF Typed
<1>5. applied \subseteq [at : 1 .. Len(text'), from : 1 .. Len(text'),
                         to : 1 .. Len(text'), grouped : BOOLEAN]
  <2>1. 1 .. Len(text) \subseteq 1 .. Len(text')
    BY <1>2, <1>3
  <2>2. applied \subseteq [at : 1 .. Len(text), from : 1 .. Len(text),
                           to : 1 .. Len(text), grouped : BOOLEAN]
    BY DEF Typed
  <2> QED BY <2>1, <2>2
<1>6. \A b : Solid(symbol_stack, status_stack, b, text) => Solid(symbol_stack, status_stack, b, text')
  BY <1>1, <1>2, SolidRead
<1>7. current_input'.key = k
  BY <1>1 DEF Symbol
<1> QED BY <1>1, <1>3, <1>4, <1>5, <1>6, <1>7

\* What the phase says.
LEMMA ReadingIs ==
  ASSUME EInv, pc = "reading"
  PROVE  Typed /\ \E b \in 2 .. 3 : AtReading(b)
  BY Zenon DEF EInv, Running, Phases, AtReading, AtWalking, AtReturned, AtClearing, AtCalling

\* A token that is pushed: shift, enter_parentheses, push_operator.
LEMMA Shifts ==
  ASSUME Typed, NEW b \in 2 .. 3, AtReading(b), NEW k \in TextKey, NEW c,
         Read(k), Pushed(current_input', c),
         k \in OperandKey \cup Operator \cup {"("},
         c = (IF k \in OperandKey THEN 2 ELSE 7),
         k \in Operator => status_stack[Len(status_stack)] = 2,
         k = "(" => Len(symbol_stack) > b,
         process_stack' = process_stack, pc' = pc, applied' = applied, flag' = flag,
         priority_stack' \in Seq(1 .. 255), last_priority' \in 1 .. 255,
         Len(priority_stack') = Len(priority_stack) + (IF k = "(" THEN 1 ELSE 0)
  PROVE  EInv'
<1> DEFINE x == current_input'
           n == Len(text')
<1>1. /\ text' \in Seq(TextKey) /\ n = Len(text) + 1 /\ text'[n] = k
      /\ x = Symbol(k, n, n)
      /\ Stretches(symbol_stack, n) /\ Stretches(process_stack, n)
      /\ applied \subseteq [at : 1 .. n, from : 1 .. n, to : 1 .. n, grouped : BOOLEAN]
      /\ Solid(symbol_stack, status_stack, b, text) => Solid(symbol_stack, status_stack, b, text')
  BY AfterRead, Zenon
<1>2. /\ symbol_stack \in Seq(Symbols) /\ process_stack \in Seq(Symbols)
      /\ status_stack \in Seq(Statuses) /\ Len(text) \in Nat /\ priority_stack \in Seq(1 .. 255)
  BY TypesAre
<1>3. symbol_stack' = Append(symbol_stack, x) /\ status_stack' = Append(status_stack, c)
  BY DEF Pushed
<1> HIDE DEF x, n
<1>4. n \in Nat /\ n > 0
  BY <1>1, <1>2
<1>5. x \in Symbols /\ x.key = k /\ x.from = n /\ x.to = n
  <2>1. k \in Key \cup {"value"}
    BY Keys, Zenon
  <2>2. x = Symbol(k, n, n)
    BY <1>1, Zenon
  <2> QED BY ONLY <1>4, <2>1, <2>2 DEF Symbol, Symbols
<1>6. Within(x, n)
  BY <1>4, <1>5 DEF Within
<1>7. IsItem(x, text')
  BY <1>1, <1>4, <1>5, Zenon DEF IsItem
<1>8. Base(b) /\ Len(process_stack) = 0 /\ symbol_stack[Len(symbol_stack)].to = Len(text)
      /\ Saved(symbol_stack, 0, priority_stack) /\ pc = "reading"
  BY Zenon DEF AtReading
<1>9. Solid(symbol_stack', status_stack', b, text')
  <2>1. Solid(symbol_stack, status_stack, b, text')
    BY <1>1, <1>8, Zenon DEF Base
  <2>2. x.from = symbol_stack[Len(symbol_stack)].to + 1
    BY <1>1, <1>5, <1>8
  <2> QED BY <1>1, <1>3, <1>5, <1>6, <1>7, <2>1, <2>2, SolidPush DEF n
<1>10. Turned(process_stack', text')
  BY <1>2, <1>8, NothingTurned
<1>11. Covered(applied', symbol_stack', process_stack') /\ Once(applied')
  BY <1>2, <1>3, <1>5, <1>8, CoveredPush, Zenon DEF Base
<1>12. Saved(symbol_stack', 0, priority_stack')
  <2>1. Cardinality(Parens(symbol_stack')) =
          Cardinality(Parens(symbol_stack)) + (IF k = "(" THEN 1 ELSE 0)
    BY <1>2, <1>3, <1>5, ParensPush
  <2>2. Cardinality(Parens(symbol_stack)) \in Nat /\ Len(priority_stack) \in Nat
    BY <1>2, ParensCount
  <2> QED BY <1>8, <2>1, <2>2 DEF Saved
<1>13. symbol_stack'[Len(symbol_stack')].to = Len(text')
  BY <1>2, <1>3, <1>5, PushIs DEF n
<1>14. AtReading(b)'
  BY <1>8, <1>9, <1>10, <1>11, <1>12, <1>13, Zenon DEF AtReading, Base
<1>15. Typed'
  BY <1>1, <1>9, <1>10, Zenon DEF Typed, Solid, Turned, n
<1> QED BY <1>14, <1>15, Zenon DEF EInv, Phases

LEMMA StepShift == ASSUME EInv, shift PROVE EInv'
<1>1. Typed /\ \E b \in 2 .. 3 : AtReading(b)
  BY ReadingIs, Zenon DEF shift, Read
<1>2. PICK b \in 2 .. 3 : AtReading(b)
  BY <1>1
<1>3. PICK k \in Operand : Read(k)
  BY DEF shift
<1>4. k \in TextKey /\ k \in OperandKey /\ k # "(" /\ k \notin Operator
  BY Keys, Zenon DEF TextKey
<1>5. Pushed(current_input', 2)
      /\ UNCHANGED <<process_stack, priority_stack, last_priority, flag, pc, applied>>
  BY Zenon DEF shift
<1>6. priority_stack \in Seq(1 .. 255) /\ last_priority \in 1 .. 255
  BY <1>1, TypesAre
<1>7. Len(priority_stack') = Len(priority_stack) + 0
  BY <1>5, <1>6
<1> QED BY <1>1, <1>2, <1>3, <1>4, <1>5, <1>6, <1>7, Shifts, Zenon

\* The status of the expression's symbols tells them from those under it.
LEMMA StatusOnTop ==
  ASSUME NEW ss, NEW st, NEW b, NEW tx, Solid(ss, st, b, tx), st[Len(st)] \in {2, 7}
  PROVE  /\ Len(ss) > b
         /\ st[Len(st)] = 2 => ss[Len(ss)].key \in OperandKey
<1>1. ss \in Seq(Symbols) /\ Outermost(ss, st, b) /\ Placed(ss, st, b, tx)
  BY DEF Solid, Stretches
<1>2. b \in 2 .. 3 /\ b <= Len(ss) /\ Len(st) = Len(ss) /\ Len(ss) \in Nat
  BY <1>1 DEF Outermost
<1>3. b \in 1 .. b
  BY <1>2
<1>4. st[b] \in {14, 15, 16}
  BY <1>1, <1>3 DEF Outermost
<1>5. Len(ss) # b
  BY <1>2, <1>4
<1>6. Len(ss) \in b + 1 .. Len(ss)
  BY <1>2, <1>5
<1>7. st[Len(ss)] = IF ss[Len(ss)].key \in OperandKey THEN 2 ELSE 7
  BY <1>1, <1>6 DEF Placed
<1> QED BY <1>2, <1>5, <1>7

\* The handler that a row of the table calls.
LEMMA RowIs ==
  ASSUME NEW b \in 2 .. 3, AtReading(b), NEW k \in TextKey, current_input'.key = k
  PROVE  /\ Row("check_priority") => status_stack[Len(status_stack)] = 2
         /\ Row("reduce_rparenthese") => status_stack[Len(status_stack)] = 2
         /\ Row("enter_parentheses") => status_stack[Len(status_stack)] \in {2, 7}
<1> DEFINE s == status_stack[Len(status_stack)]
<1>1. Last(status_stack) = s
  BY DEF Last
<1>2. s \in Status /\ k \in Key
  <2>1. status_stack \in Seq(Statuses) /\ Len(status_stack) > 0
    <3>1. Solid(symbol_stack, status_stack, b, text)
      BY DEF AtReading, Base
    <3> QED BY <3>1 DEF Solid, Outermost, Stretches
  <2>2. s \in Statuses
    BY <2>1
  <2>3. k \in Key
    BY Keys
  <2> QED BY <2>2, <2>3 DEF Statuses, Status
<1> HIDE DEF s
<1>3. \A h : Row(h) => Handler[s][k] = h
  BY <1>1, Zenon DEF Row
<1> QED BY <1>2, <1>3, Registered, Zenon DEF s

LEMMA StepEnter == ASSUME EInv, enter_parentheses PROVE EInv'
<1>1. Typed /\ \E b \in 2 .. 3 : AtReading(b)
  BY ReadingIs, Zenon DEF enter_parentheses, Read
<1>2. PICK b \in 2 .. 3 : AtReading(b)
  BY <1>1
<1>3. Read("(") /\ Row("enter_parentheses") /\ Pushed(current_input', 7)
      /\ priority_stack' = Append(priority_stack, last_priority) /\ last_priority' = 255
      /\ UNCHANGED <<process_stack, flag, pc, applied>>
  BY Zenon DEF enter_parentheses
<1>4. "(" \in TextKey /\ "(" \notin OperandKey /\ "(" \notin Operator
  BY Keys, Zenon DEF TextKey
<1>5. current_input'.key = "("
  BY <1>1, <1>3, <1>4, AfterRead
<1>6. status_stack[Len(status_stack)] \in {2, 7}
  BY <1>2, <1>3, <1>4, <1>5, RowIs, Zenon
<1>7. Len(symbol_stack) > b
  BY <1>2, <1>6, StatusOnTop, Zenon DEF AtReading, Base
<1>8. priority_stack \in Seq(1 .. 255) /\ last_priority \in 1 .. 255
  BY <1>1, TypesAre
<1>9. priority_stack' \in Seq(1 .. 255) /\ Len(priority_stack') = Len(priority_stack) + 1
      /\ last_priority' \in 1 .. 255
  BY <1>3, <1>8
<1> QED BY <1>1, <1>2, <1>3, <1>4, <1>7, <1>9, Shifts, Zenon

LEMMA StepPush == ASSUME EInv, push_operator PROVE EInv'
<1>1. Typed /\ \E b \in 2 .. 3 : AtReading(b)
  BY ReadingIs, Zenon DEF push_operator, Read
<1>2. PICK b \in 2 .. 3 : AtReading(b)
  BY <1>1
<1>3. PICK k \in Operator : Read(k)
  BY DEF push_operator
<1>4. Row("check_priority") /\ Pushed(current_input', 7)
      /\ last_priority' = Priority[current_input'.key]
      /\ UNCHANGED <<process_stack, priority_stack, flag, pc, applied>>
  BY Zenon DEF push_operator
<1>5. k \in TextKey /\ k \notin OperandKey /\ k # "(" /\ k \in Prioritised
  BY Keys, Zenon DEF TextKey
<1>6. current_input'.key = k
  BY <1>1, <1>3, <1>5, AfterRead
<1>7. status_stack[Len(status_stack)] = 2
  BY <1>2, <1>4, <1>5, <1>6, RowIs, Zenon
<1>8. last_priority' \in 1 .. 255
  BY <1>4, <1>5, <1>6, PriorityRange
<1>9. priority_stack \in Seq(1 .. 255)
  BY <1>1, TypesAre
<1>10. priority_stack' \in Seq(1 .. 255) /\ Len(priority_stack') = Len(priority_stack) + 0
  BY <1>4, <1>9
<1> QED BY <1>1, <1>2, <1>3, <1>4, <1>5, <1>7, <1>8, <1>10, Shifts, Zenon

LEMMA StepSolve == ASSUME EInv, solve_first PROVE EInv'
<1>1. Typed /\ \E b \in 2 .. 3 : AtReading(b)
  BY ReadingIs, Zenon DEF solve_first, Read
<1>2. PICK b \in 2 .. 3 : AtReading(b)
  BY <1>1
<1>3. PICK k \in Ends : Read(k)
  BY DEF solve_first, Ends
<1>4. Row("check_priority") /\ pc' = "walking" /\ flag' = FALSE
      /\ UNCHANGED <<symbol_stack, status_stack, process_stack, priority_stack,
                     last_priority, applied>>
  BY Zenon DEF solve_first, Call
<1>5. k \in TextKey
  BY Zenon DEF TextKey, Ends
<1>6. /\ text' \in Seq(TextKey) /\ Len(text') = Len(text) + 1 /\ text'[Len(text')] = k
      /\ current_input' = Symbol(k, Len(text'), Len(text')) /\ current_input'.key = k
      /\ Stretches(symbol_stack, Len(text')) /\ Stretches(process_stack, Len(text'))
      /\ applied \subseteq [at : 1 .. Len(text'), from : 1 .. Len(text'),
                            to : 1 .. Len(text'), grouped : BOOLEAN]
      /\ Solid(symbol_stack, status_stack, b, text) => Solid(symbol_stack, status_stack, b, text')
  BY <1>1, <1>3, <1>5, AfterRead, Zenon
<1>7. status_stack[Len(status_stack)] = 2
  BY <1>2, <1>4, <1>5, <1>6, RowIs, Zenon
<1>8. Base(b) /\ Len(process_stack) = 0 /\ symbol_stack[Len(symbol_stack)].to = Len(text)
      /\ Saved(symbol_stack, 0, priority_stack)
  BY <1>2, Zenon DEF AtReading
<1>9. Len(symbol_stack) > b
  BY <1>7, <1>8, StatusOnTop, Zenon DEF Base
<1>10. Len(text) \in Nat /\ process_stack \in Seq(Symbols)
  BY <1>1, TypesAre
<1>11. symbol_stack[Len(symbol_stack)].to = Len(text') - 1 /\ Len(text') > 0
  BY <1>6, <1>8, <1>10
<1>12. Busy(Ends)'
  BY <1>3, <1>6, <1>11, Zenon DEF Busy
<1>13. Base(b)'
  <2>1. Turned(process_stack, text')
    BY <1>8, <1>10, NothingTurned
  <2> QED BY <1>4, <1>6, <1>8, <2>1, Zenon DEF Base
<1>14. AtWalking(b)'
  BY <1>4, <1>7, <1>8, <1>9, <1>11, <1>12, <1>13, Zenon DEF AtWalking
<1>15. "walking" \in Phase
  BY DEF Phase
<1>16. Typed'
  BY <1>1, <1>4, <1>6, <1>15, Zenon DEF Typed
<1> QED BY <1>14, <1>16, Zenon DEF EInv, Phases

\* What was evaluated is given by three numbers.
Numbered(ap) == \A a \in ap : a.at \in Nat /\ a.from \in Nat /\ a.to \in Nat

LEMMA AppliedIs ==
  ASSUME NEW ap, NEW n \in Nat,
         ap \subseteq [at : 1 .. n, from : 1 .. n, to : 1 .. n, grouped : BOOLEAN]
  PROVE  Numbered(ap)
<1> SUFFICES ASSUME NEW a \in ap PROVE a.at \in Nat /\ a.from \in Nat /\ a.to \in Nat
  BY DEF Numbered
<1>1. a \in [at : 1 .. n, from : 1 .. n, to : 1 .. n, grouped : BOOLEAN]
  OBVIOUS
<1>2. a.at \in 1 .. n /\ a.from \in 1 .. n /\ a.to \in 1 .. n
  BY <1>1
<1> QED BY <1>2

LEMMA OneTokenHoldsNothing ==
  ASSUME NEW ap, Numbered(ap), NEW a \in ap,
         a.from < a.at, a.at < a.to, NEW x \in Symbols, x.from = x.to
  PROVE  ~In(a, x)
<1>1. a.at \in Nat /\ a.from \in Nat /\ a.to \in Nat
  BY DEF Numbered
<1>2. x.from \in Nat /\ x.to \in Nat
  BY DEF Symbols
<1> QED BY <1>1, <1>2 DEF In

Below(s, q) == SubSeq(s, 1, q - 1)
Above(s, q) == Reverse(SubSeq(s, q + 1, Len(s)))

\* A parenthesis is closed: place q of the stack is its "(".
LEMMA ClosedIs ==
  ASSUME NEW ss, NEW st, NEW b, NEW tx \in Seq(TextKey), Solid(ss, st, b, tx),
         NEW q \in 1 .. Len(ss), ss[q].key = "(", ss[Len(ss)].key \in OperandKey,
         NEW ap, Numbered(ap), Covered(ap, ss, <<>>),
         NEW zs, zs = Below(ss, q), NEW zt, zt = Below(st, q),
         NEW r, r = Above(ss, q)
  PROVE  /\ Solid(zs, zt, b, tx) /\ Turned(r, tx)
         /\ Covered(ap, zs, r)
         /\ Joins(zs, r, 2, ss[Len(ss)].to)
         /\ tx[zs[Len(zs)].to + 1] = "("
         /\ Len(zs) = q - 1 /\ zs[q - 1] = ss[q - 1]
<1>1. /\ ss \in Seq(Symbols) /\ b \in 2 .. 3 /\ b <= Len(ss) /\ Len(ss) \in Nat
      /\ \A i \in 1 .. b : ss[i].key \in {"fn", "LBRACES", "return"}
  <2>1. /\ ss \in Seq(Symbols) /\ b \in 2 .. 3 /\ b <= Len(ss)
        /\ \A i \in 1 .. b : ss[i].key \in {"fn", "LBRACES", "return"}
    BY Zenon DEF Solid, Stretches, Outermost
  <2> QED BY <2>1
<1>2. q \in b + 1 .. Len(ss)
  <2>1. q \notin 1 .. b
    BY <1>1
  <2> QED BY <1>1, <2>1
<1>3. \A i \in b + 1 .. Len(ss) :
        /\ IsItem(ss[i], tx)
        /\ ss[i].key = "(" => i > b + 1
        /\ ss[i].from = ss[i - 1].to + 1
  BY Zenon DEF Solid, Placed
<1>4. q > b + 1
  BY <1>2, <1>3
<1>5. q # Len(ss)
  BY Keys
<1>6. q - 1 \in b .. Len(ss) /\ q \in b .. Len(ss) /\ q < Len(ss) /\ q + 1 \in b + 1 .. Len(ss)
      /\ q - 1 \in 1 .. Len(ss) /\ q \in Nat
  BY <1>1, <1>2, <1>4, <1>5
<1>0. zs = SubSeq(ss, 1, q - 1) /\ zt = SubSeq(st, 1, q - 1)
      /\ r = Reverse(SubSeq(ss, q + 1, Len(ss)))
  BY DEF Below, Above
<1>7. Solid(zs, zt, b, tx)
  BY <1>0, <1>6, SolidCut
<1>8. /\ Turned(r, tx) /\ Len(r) = Len(ss) - q
      /\ \A i \in 1 .. Len(r) : r[i] = ss[Len(ss) + 1 - i]
  <2>1. q \in b .. Len(ss) /\ q < Len(ss)
    BY <1>6
  <2>2. Solid(ss, st, b, tx) /\ ss[Len(ss)].key \in OperandKey /\ tx \in Seq(TextKey)
    OBVIOUS
  <2>3. r = Reverse(SubSeq(ss, q + 1, Len(ss)))
    BY <1>0
  <2> QED BY ONLY <2>1, <2>2, <2>3, TurnedOf
<1>9. Len(zs) = q - 1 /\ \A i \in 1 .. q - 1 : zs[i] = ss[i]
  <2>1. q - 1 \in 0 .. Len(ss)
    BY <1>6
  <2> QED BY <1>0, <1>1, <2>1, CutIs
<1>10. zs[q - 1] = ss[q - 1]
  <2>1. q - 1 \in 1 .. q - 1
    BY <1>6
  <2> QED BY <1>9, <2>1
<1>11. /\ ss[q + 1].from = ss[q].to + 1 /\ ss[q].from = ss[q - 1].to + 1
       /\ ss[q].from = ss[q].to /\ tx[ss[q].from] = "("
  <2>1. ss[q].key \notin OperandKey
    BY Keys
  <2>2. IsItem(ss[q], tx) /\ ss[q].from = ss[q - 1].to + 1
    BY <1>2, <1>3
  <2>3. ss[q + 1].from = ss[(q + 1) - 1].to + 1 /\ (q + 1) - 1 = q
    BY <1>3, <1>6
  <2> QED BY <2>1, <2>2, <2>3 DEF IsItem
<1>12. Joins(zs, r, 2, ss[Len(ss)].to)
  <2>1. Len(r) > 0 /\ 1 \in 1 .. Len(r) /\ Len(r) \in 1 .. Len(r)
        /\ Len(ss) + 1 - 1 = Len(ss) /\ Len(ss) + 1 - Len(r) = q + 1
    <3>1. \A m \in Nat : \A u \in Nat : q < m /\ u = m - q =>
            u > 0 /\ 1 \in 1 .. u /\ u \in 1 .. u /\ m + 1 - 1 = m /\ m + 1 - u = q + 1
      BY <1>6
    <3>2. Len(ss) \in Nat /\ q < Len(ss) /\ Len(r) = Len(ss) - q /\ Len(r) \in Nat
      <4>1. Len(r) = Len(ss) - q
        BY <1>8
      <4> QED BY <1>1, <1>6, <4>1
    <3> QED BY <3>1, <3>2, Zenon
  <2>2. r[1] = ss[Len(ss)] /\ r[Len(r)] = ss[q + 1]
    BY <1>8, <2>1
  <2>3. ss[q - 1].to \in Nat
    BY <1>1, <1>6, SymbolAt
  <2>4. ss[q + 1].from = ss[q - 1].to + 2
    BY <1>11, <2>3
  <2> QED BY <1>9, <1>10, <2>1, <2>2, <2>4 DEF Joins
<1>13. tx[zs[Len(zs)].to + 1] = "("
  BY <1>9, <1>10, <1>11
<1>14. Covered(ap, zs, r)
  <2>1. ASSUME NEW a \in ap, NEW i \in 1 .. Len(ss), In(a, ss[i])
        PROVE  (\E j \in 1 .. Len(zs) : In(a, zs[j])) \/ (\E j \in 1 .. Len(r) : In(a, r[j]))
    <3>1. CASE i <= q - 1
      <4>1. i \in 1 .. Len(zs) /\ zs[i] = ss[i]
        BY <1>6, <1>9, <3>1
      <4> QED BY <2>1, <4>1
    <3>2. CASE i = q
      <4>1. a.from < a.at /\ a.at < a.to
        BY Zenon DEF Covered
      <4>2. ss[q] \in Symbols
        BY <1>1
      <4> QED BY <1>11, <2>1, <3>2, <4>1, <4>2, OneTokenHoldsNothing
    <3>3. CASE i >= q + 1
      <4> DEFINE j == Len(ss) + 1 - i
      <4>1. j \in 1 .. Len(r) /\ Len(ss) + 1 - j = i
        BY <1>1, <1>6, <1>8, <3>3
      <4>2. r[j] = ss[i]
        BY <1>8, <4>1
      <4> HIDE DEF j
      <4> QED BY <2>1, <4>1, <4>2
    <3> QED BY <1>6, <3>1, <3>2, <3>3
  <2>2. \A i : i \notin 1 .. Len(<<>>)
    OBVIOUS
  <2> QED BY <2>1, <2>2, CoveredMoves, Zenon
<1> QED BY <1>7, <1>8, <1>9, <1>10, <1>12, <1>13, <1>14

LEMMA StepClose == ASSUME EInv, reduce_rparenthese PROVE EInv'
<1>1. Typed /\ \E b \in 2 .. 3 : AtReading(b)
  BY ReadingIs, Zenon DEF reduce_rparenthese, Read
<1>2. PICK b \in 2 .. 3 : AtReading(b)
  BY <1>1
<1>3. Read(")") /\ Row("reduce_rparenthese")
      /\ UNCHANGED <<priority_stack, last_priority, flag, applied>>
  BY Zenon DEF reduce_rparenthese
<1>4. ")" \in TextKey
  BY Zenon DEF TextKey
<1>5. /\ text' \in Seq(TextKey) /\ Len(text') = Len(text) + 1 /\ text'[Len(text')] = ")"
      /\ current_input' = Symbol(")", Len(text'), Len(text')) /\ current_input'.key = ")"
      /\ Stretches(symbol_stack, Len(text')) /\ Stretches(process_stack, Len(text'))
      /\ applied \subseteq [at : 1 .. Len(text'), from : 1 .. Len(text'),
                            to : 1 .. Len(text'), grouped : BOOLEAN]
      /\ Solid(symbol_stack, status_stack, b, text) => Solid(symbol_stack, status_stack, b, text')
  BY <1>1, <1>3, <1>4, AfterRead, Zenon
<1>6. status_stack[Len(status_stack)] = 2
  BY <1>2, <1>3, <1>4, <1>5, RowIs, Zenon
<1>7. Base(b) /\ Len(process_stack) = 0 /\ symbol_stack[Len(symbol_stack)].to = Len(text)
      /\ Saved(symbol_stack, 0, priority_stack)
  BY <1>2, Zenon DEF AtReading
<1>8. Len(symbol_stack) > b /\ symbol_stack[Len(symbol_stack)].key \in OperandKey
  BY <1>6, <1>7, StatusOnTop, Zenon DEF Base
<1>9. /\ symbol_stack \in Seq(Symbols) /\ process_stack \in Seq(Symbols)
      /\ status_stack \in Seq(Statuses) /\ Len(text) \in Nat /\ priority_stack \in Seq(1 .. 255)
      /\ Len(text') \in Nat /\ Len(status_stack) = Len(symbol_stack)
  <2>1. Len(status_stack) = Len(symbol_stack)
    BY <1>7, Zenon DEF Base, Solid, Outermost
  <2> QED BY <1>1, <1>5, <2>1, TypesAre
<1>10. process_stack = <<>>
  BY <1>7, <1>9
<1>11. Typed' <=> /\ Stretches(symbol_stack', Len(text')) /\ Stretches(process_stack', Len(text'))
                  /\ status_stack' \in Seq(Statuses) /\ pc' \in Phase
  BY <1>1, <1>3, <1>5, Zenon DEF Typed
<1>12. CASE \E q \in DOMAIN symbol_stack : Opens(q)
  <2>1. PICK q \in DOMAIN symbol_stack :
          /\ Opens(q)
          /\ process_stack' =
               process_stack \o Reverse(SubSeq(symbol_stack, q + 1, Len(symbol_stack)))
          /\ symbol_stack' = SubSeq(symbol_stack, 1, q - 1)
          /\ status_stack' = SubSeq(status_stack, 1, q - 1)
          /\ pc' = CASE symbol_stack[q - 1].key = "id" -> "calling"
                     [] symbol_stack[q - 1].key = "value" -> "threw"
                     [] OTHER -> "clearing"
    BY <1>12, Zenon DEF reduce_rparenthese
  <2>2. q \in 1 .. Len(symbol_stack) /\ symbol_stack[q].key = "("
    BY <1>9, <2>1 DEF Opens
  <2> DEFINE r == Reverse(SubSeq(symbol_stack, q + 1, Len(symbol_stack)))
  <2> HIDE DEF r
  <2>3. /\ Solid(symbol_stack', status_stack', b, text') /\ Turned(r, text')
        /\ Covered(applied, symbol_stack', r)
        /\ Joins(symbol_stack', r, 2, symbol_stack[Len(symbol_stack)].to)
        /\ text'[symbol_stack'[Len(symbol_stack')].to + 1] = "("
        /\ Len(symbol_stack') = q - 1 /\ symbol_stack'[q - 1] = symbol_stack[q - 1]
    <3>1. Solid(symbol_stack, status_stack, b, text')
      BY <1>5, <1>7, Zenon DEF Base
    <3>2. Covered(applied, symbol_stack, <<>>)
      BY <1>7, <1>10, Zenon DEF Base
    <3>3. text' \in Seq(TextKey)
          /\ symbol_stack[Len(symbol_stack)].key \in OperandKey
      BY <1>5, <1>7, <1>8, <1>9, Zenon
    <3>4. Numbered(applied)
      BY <1>5, <1>9, AppliedIs
    <3>5. symbol_stack' = Below(symbol_stack, q) /\ status_stack' = Below(status_stack, q)
      BY <2>1, Zenon DEF Below
    <3>6. r = Above(symbol_stack, q)
      BY DEF r, Above
    <3> QED BY ONLY <2>2, <3>1, <3>2, <3>3, <3>4, <3>5, <3>6, ClosedIs, SMTT(30)
  <2>4. process_stack' = r
    <3>1. r \in Seq(Symbols)
      BY <2>3, Zenon DEF Turned, Stretches
    <3>2. process_stack' = <<>> \o r
      BY <1>10, <2>1, Zenon DEF r
    <3> QED BY <3>1, <3>2
  <2>5. pc' \in {"calling", "threw", "clearing"} /\ (pc' = "calling" => symbol_stack[q - 1].key = "id")
    BY <2>1
  <2>6. Typed'
    <3>1. pc' \in Phase
      BY <2>5 DEF Phase
    <3> QED BY <1>11, <2>3, <2>4, <3>1, Zenon DEF Solid, Turned
  <2>7. Base(b)'
    <3>1. Once(applied')
      BY <1>3, <1>7, Zenon DEF Base
    <3> QED BY <1>3, <2>3, <2>4, <3>1, Zenon DEF Base
  <2>8. Inside'
    <3>1. symbol_stack[Len(symbol_stack)].to = Len(text') - 1 /\ Len(text') > 0
      BY <1>5, <1>7, <1>9
    <3>2. Busy({")"})'
      BY <1>5, <3>1, Zenon DEF Busy
    <3>3. q - 1 \in 0 .. Len(symbol_stack) /\ q \in (q - 1) + 1 .. Len(symbol_stack)
      BY <1>9, <2>2
    <3>4. Cardinality(Parens(symbol_stack')) \in Nat
          /\ Cardinality(Parens(symbol_stack')) + 1 <= Cardinality(Parens(symbol_stack))
      BY <1>9, <2>1, <2>2, <3>3, ParensCut
    <3>5. Cardinality(Parens(symbol_stack)) \in Nat /\ Len(priority_stack) \in Nat
      BY <1>9, ParensCount
    <3>6. Saved(symbol_stack', 1, priority_stack')
      BY <1>3, <1>7, <3>4, <3>5 DEF Saved
    <3> QED BY <2>3, <2>4, <3>1, <3>2, <3>6, Zenon DEF Inside
  <2>9. CASE pc' = "clearing"
    <3>1. AtClearing(b)'
      BY <2>7, <2>8, <2>9, Zenon DEF AtClearing
    <3> QED BY <2>6, <3>1, Zenon DEF EInv, Phases
  <2>10. CASE pc' = "calling"
    <3>1. AtCalling(b)'
      BY <2>3, <2>5, <2>7, <2>8, <2>10, Zenon DEF AtCalling
    <3> QED BY <2>6, <3>1, Zenon DEF EInv, Phases
  <2>11. CASE pc' = "threw"
    BY <2>6, <2>11 DEF EInv, Running
  <2> QED BY <2>5, <2>9, <2>10, <2>11
<1>13. CASE ~\E q \in DOMAIN symbol_stack : Opens(q)
  <2>1. /\ pc' = "threw" /\ process_stack' = process_stack \o Reverse(symbol_stack)
        /\ symbol_stack' = <<>> /\ status_stack' = <<>>
    BY <1>13, Zenon DEF reduce_rparenthese
  <2>2. Stretches(process_stack', Len(text'))
    <3> DEFINE m == Len(symbol_stack)
               r == Reverse(symbol_stack)
    <3>1. symbol_stack = SubSeq(symbol_stack, 0 + 1, Len(symbol_stack)) /\ 0 \in 0 .. Len(symbol_stack)
      BY <1>9
    <3>2. r \in Seq(Symbols) /\ Len(r) = m - 0
          /\ \A i \in 1 .. m - 0 : r[i] = symbol_stack[m + 1 - i]
      <4>1. r = Reverse(SubSeq(symbol_stack, 0 + 1, Len(symbol_stack)))
        BY <3>1, Zenon
      <4>2. symbol_stack \in Seq(Symbols)
        BY <1>9, Zenon
      <4> QED BY ONLY <3>1, <4>1, <4>2, TurnIs, SMTT(30)
    <3> HIDE DEF r
    <3>3. process_stack' = r
      BY <1>10, <2>1, <3>2 DEF r
    <3>4. \A i \in 1 .. m - 0 : m + 1 - i \in 1 .. m
      BY <1>9
    <3> HIDE DEF m
    <3>5. \A i \in 1 .. m : Within(symbol_stack[i], Len(text'))
      BY <1>5, Zenon DEF Stretches, m
    <3> QED BY <3>2, <3>3, <3>4, <3>5, Zenon DEF Stretches
  <2>3. Stretches(<<>>, Len(text'))
    BY DEF Stretches
  <2>4. <<>> \in Seq(Statuses) /\ "threw" \in Phase /\ "threw" \notin Running
    BY DEF Phase, Running
  <2> QED BY <1>11, <2>1, <2>2, <2>3, <2>4, Zenon DEF EInv
<1> QED BY <1>12, <1>13

-----------------------------------------------------------------------------
(* back_ward_solve_expr. *)

LEMMA WalkingIs ==
  ASSUME EInv, pc = "walking"
  PROVE  Typed /\ \E b \in 2 .. 3 : AtWalking(b)
  BY Zenon DEF EInv, Running, Phases, AtReading, AtWalking, AtReturned, AtClearing, AtCalling

LEMMA ReturnedIs ==
  ASSUME EInv, pc = "returned"
  PROVE  Typed /\ \E b \in 2 .. 3 : AtReturned(b)
  BY Zenon DEF EInv, Running, Phases, AtReading, AtWalking, AtReturned, AtClearing, AtCalling

LEMMA ClearingIs ==
  ASSUME EInv, pc = "clearing"
  PROVE  Typed /\ \E b \in 2 .. 3 : AtClearing(b)
  BY Zenon DEF EInv, Running, Phases, AtReading, AtWalking, AtReturned, AtClearing, AtCalling

LEMMA CallingIs ==
  ASSUME EInv, pc = "calling"
  PROVE  Typed /\ \E b \in 2 .. 3 : AtCalling(b)
  BY Zenon DEF EInv, Running, Phases, AtReading, AtWalking, AtReturned, AtClearing, AtCalling

LEMMA PopIs ==
  ASSUME NEW A, NEW s \in Seq(A), NEW n \in Nat, n <= Len(s)
  PROVE  /\ Pop(s, n) \in Seq(A) /\ Len(Pop(s, n)) = Len(s) - n
         /\ \A i \in 1 .. Len(s) - n : Pop(s, n)[i] = s[i]
         /\ Pop(s, n) = SubSeq(s, 1, Len(s) - n) /\ Len(s) - n \in 0 .. Len(s)
<1>1. Len(s) - n \in 0 .. Len(s)
  OBVIOUS
<1> QED BY <1>1, CutIs DEF Pop

\* The symbol on top of the expression, and the one below it.
LEMMA TopIs ==
  ASSUME NEW ss, NEW st, NEW b, NEW tx, Solid(ss, st, b, tx), Len(ss) > b
  PROVE  /\ Len(ss) \in b + 1 .. Len(ss) /\ Len(ss) \in 1 .. Len(ss)
         /\ Len(ss) - 1 \in b .. Len(ss) /\ Len(ss) - 1 \in 1 .. Len(ss)
         /\ b \in Nat /\ Len(ss) \in Nat
         /\ ss[Len(ss)] \in Symbols /\ ss[Len(ss) - 1] \in Symbols
         /\ Within(ss[Len(ss)], Len(tx)) /\ IsItem(ss[Len(ss)], tx)
         /\ ss[Len(ss)].from = ss[Len(ss) - 1].to + 1
<1>1. ss \in Seq(Symbols) /\ b \in 2 .. 3
  BY Zenon DEF Solid, Stretches, Outermost
<1>2. /\ Len(ss) \in b + 1 .. Len(ss) /\ Len(ss) \in 1 .. Len(ss)
      /\ Len(ss) - 1 \in b .. Len(ss) /\ Len(ss) - 1 \in 1 .. Len(ss)
      /\ b \in Nat /\ Len(ss) \in Nat
  BY <1>1
<1>3. ss[Len(ss)] \in Symbols /\ ss[Len(ss) - 1] \in Symbols
  BY <1>1, <1>2, SymbolAt
<1>4. Within(ss[Len(ss)], Len(tx))
  BY <1>2, Zenon DEF Solid, Stretches
<1>5. IsItem(ss[Len(ss)], tx) /\ ss[Len(ss)].from = ss[Len(ss) - 1].to + 1
  BY <1>2, Zenon DEF Solid, Placed
<1> QED BY <1>2, <1>3, <1>4, <1>5

\* A symbol that stands for something is no symbol of those at the bottom.
LEMMA NotAtTheBottom ==
  ASSUME NEW ss, NEW st, NEW b, NEW tx, Solid(ss, st, b, tx), NEW i \in b .. Len(ss),
         ss[i].key \notin {"fn", "LBRACES", "return"}
  PROVE  i \in b + 1 .. Len(ss)
<1>1. ss \in Seq(Symbols) /\ b \in 2 .. 3 /\ \A j \in 1 .. b : ss[j].key \in {"fn", "LBRACES", "return"}
  BY Zenon DEF Solid, Stretches, Outermost
<1>2. i \notin 1 .. b
  BY <1>1
<1> QED BY <1>1, <1>2

Taken(ss, ps) == Append(ps, ss[Len(ss)])

\* The symbol on top goes over to process_stack.
LEMMA MoveTop ==
  ASSUME NEW ss, NEW st, NEW b, NEW tx \in Seq(TextKey), Solid(ss, st, b, tx), Len(ss) > b,
         NEW ps, Turned(ps, tx),
         Len(ps) = 0 => ss[Len(ss)].key \in OperandKey,
         Len(ps) > 0 => ps[Len(ps)].from = ss[Len(ss)].to + 1,
         NEW ap, Covered(ap, ss, ps)
  PROVE  /\ Solid(Pop(ss, 1), Pop(st, 1), b, tx) /\ Turned(Taken(ss, ps), tx)
         /\ Covered(ap, Pop(ss, 1), Taken(ss, ps))
         /\ Len(ps) = 0 => Joins(Pop(ss, 1), Taken(ss, ps), 1, ss[Len(ss)].to)
         /\ Len(ps) # 0 => Joins(Pop(ss, 1), Taken(ss, ps), 1, ps[1].to)
         /\ Len(Pop(ss, 1)) = Len(ss) - 1
         /\ Pop(ss, 1)[Len(ss) - 1] = ss[Len(ss) - 1]
         /\ Cardinality(Parens(Pop(ss, 1))) \in Nat
         /\ Cardinality(Parens(Pop(ss, 1))) <= Cardinality(Parens(ss))
<1> DEFINE zs == Pop(ss, 1)
           zt == Pop(st, 1)
           zp == Append(ps, ss[Len(ss)])
<1> DEFINE m == Len(ss)
           n == Len(ps)
           x == ss[m]
<1>1. /\ m \in b + 1 .. m /\ m \in 1 .. m /\ m - 1 \in b .. m /\ m - 1 \in 1 .. m
      /\ b \in Nat /\ m \in Nat /\ x \in Symbols
      /\ Within(x, Len(tx)) /\ IsItem(x, tx) /\ x.from = ss[m - 1].to + 1
  BY TopIs
<1>2. ss \in Seq(Symbols) /\ ps \in Seq(Symbols) /\ st \in Seq(Statuses) /\ Len(st) = m
  BY Zenon DEF Solid, Turned, Stretches, Outermost
<1>3. /\ zs = SubSeq(ss, 1, m - 1) /\ zt = SubSeq(st, 1, m - 1)
      /\ Len(zs) = m - 1 /\ Len(zt) = m - 1
      /\ (\A i \in 1 .. m - 1 : zs[i] = ss[i]) /\ (\A i \in 1 .. m - 1 : zt[i] = st[i])
  <2>1. 1 \in Nat /\ 1 <= Len(ss) /\ 1 <= Len(st)
    BY <1>1, <1>2
  <2>2. /\ zs = SubSeq(ss, 1, m - 1) /\ Len(zs) = m - 1
        /\ \A i \in 1 .. m - 1 : zs[i] = ss[i]
    BY <1>2, <2>1, PopIs, Zenon
  <2>3. /\ Pop(st, 1) = SubSeq(st, 1, Len(st) - 1) /\ Len(Pop(st, 1)) = Len(st) - 1
        /\ \A i \in 1 .. Len(st) - 1 : Pop(st, 1)[i] = st[i]
    BY <1>2, <2>1, PopIs, Zenon
  <2>4. Len(st) - 1 = m - 1
    BY <1>2
  <2> QED BY <2>2, <2>3, <2>4, Zenon
<1>4. n \in Nat /\ Len(zp) = n + 1 /\ (\A i \in 1 .. n : zp[i] = ps[i]) /\ zp[n + 1] = x
  BY <1>1, <1>2, PushIs
<1>5. Solid(zs, zt, b, tx)
  BY <1>1, <1>3, SolidCut
<1>6. Turned(zp, tx)
  BY <1>1, TurnedPush
<1>7. Cardinality(Parens(zs)) \in Nat /\ Cardinality(Parens(zs)) <= Cardinality(Parens(ss))
  <2>1. m - 1 \in 0 .. Len(ss)
    BY <1>1
  <2> QED BY <1>2, <1>3, <2>1, ParensCut
<1>8. zs[m - 1] = ss[m - 1]
  BY <1>1, <1>3
<1> HIDE DEF m, n, x, zs, zt, zp
<1>9. Joins(zs, zp, 1, IF n = 0 THEN x.to ELSE ps[1].to)
  <2>1. zp[1] = IF n = 0 THEN x ELSE ps[1]
    <3>1. n # 0 => 1 \in 1 .. n
      BY <1>4
    <3> QED BY <1>4, <3>1
  <2>2. Len(zp) > 0 /\ zp[Len(zp)] = x
    BY <1>4
  <2> QED BY <1>1, <1>3, <1>8, <2>1, <2>2 DEF Joins
<1>10. Covered(ap, zs, zp)
  <2>1. ASSUME NEW a \in ap, NEW i \in 1 .. m, In(a, ss[i])
        PROVE  (\E j \in 1 .. Len(zs) : In(a, zs[j])) \/ (\E j \in 1 .. Len(zp) : In(a, zp[j]))
    <3>1. CASE i = m
      <4>1. n + 1 \in 1 .. Len(zp)
        BY <1>4
      <4> QED BY <1>4, <2>1, <3>1, <4>1 DEF x
    <3>2. CASE i # m
      <4>1. i \in 1 .. Len(zs) /\ i \in 1 .. m - 1
        BY <1>1, <1>3, <3>2
      <4> QED BY <1>3, <2>1, <4>1
    <3> QED BY <3>1, <3>2
  <2>2. ASSUME NEW a \in ap, NEW i \in 1 .. n, In(a, ps[i])
        PROVE  (\E j \in 1 .. Len(zs) : In(a, zs[j])) \/ (\E j \in 1 .. Len(zp) : In(a, zp[j]))
    <3>1. i \in 1 .. Len(zp)
      BY <1>4
    <3> QED BY <1>4, <2>2, <3>1
  <2> QED BY <2>1, <2>2, CoveredMoves, Zenon DEF m, n
<1>11. zp = Taken(ss, ps)
  BY DEF Taken, zp
<1> QED BY <1>2, <1>3, <1>5, <1>6, <1>7, <1>8, <1>9, <1>10, <1>11, Zenon DEF m, n, x, zs, zt

LEMMA AfterIs ==
  ASSUME last_priority \in 1 .. 255, NEW x
  PROVE  After(x) \in 1 .. 255
  BY PriorityRange DEF After

LEMMA PopTwice ==
  ASSUME NEW A, NEW s \in Seq(A), Len(s) >= 2
  PROVE  Pop(Pop(s, 1), 1) = Pop(s, 2)
<1> DEFINE m == Len(s)
           u == SubSeq(s, 1, m - 1)
           v == SubSeq(u, 1, (m - 1) - 1)
           w == SubSeq(s, 1, m - 2)
<1>1. m \in Nat /\ m - 1 \in 0 .. Len(s) /\ m - 2 \in 0 .. Len(s) /\ (m - 1) - 1 = m - 2
  OBVIOUS
<1>2. u \in Seq(A) /\ Len(u) = m - 1 /\ \A i \in 1 .. m - 1 : u[i] = s[i]
  BY <1>1, CutIs
<1>3. w \in Seq(A) /\ Len(w) = m - 2 /\ \A i \in 1 .. m - 2 : w[i] = s[i]
  BY <1>1, CutIs
<1> HIDE DEF u, w, m
<1>4. (m - 1) - 1 \in 0 .. Len(u)
  BY <1>1, <1>2 DEF m
<1>5. v \in Seq(A) /\ Len(v) = (m - 1) - 1 /\ \A i \in 1 .. (m - 1) - 1 : v[i] = u[i]
  BY <1>2, <1>4, CutIs
<1> HIDE DEF v
<1>6. v = w
  <2>1. \A i \in 1 .. Len(v) : v[i] = w[i]
    BY <1>1, <1>2, <1>3, <1>5
  <2> QED BY <1>1, <1>3, <1>5, <2>1, SeqEqual
<1> QED BY <1>2, <1>6 DEF Pop, u, v, w, m

LEMMA PushTwice ==
  ASSUME NEW A, NEW s \in Seq(A), NEW x \in A, NEW y \in A
  PROVE  s \o <<x, y>> = Append(Append(s, x), y)
  OBVIOUS

\* An iteration that takes an operand and the operator below it.
LEMMA StepAbsorb == ASSUME EInv, absorb PROVE EInv'
<1> DEFINE value == symbol_stack[Len(symbol_stack)]
           punc == symbol_stack[Len(symbol_stack) - 1]
<1>1. Typed /\ \E b \in 2 .. 3 : AtWalking(b)
  BY WalkingIs, Zenon DEF absorb
<1>2. PICK b \in 2 .. 3 : AtWalking(b)
  BY <1>1
<1>3. Top = value
  BY DEF Last, Top
<1>4. /\ Accepted(punc)
      /\ last_priority' = After(punc)
      /\ process_stack' = process_stack \o <<value, punc>>
      /\ symbol_stack' = Pop(symbol_stack, 2)
      /\ status_stack' = Pop(status_stack, 2)
      /\ flag' = TRUE
      /\ pc' = (IF is_punc(value) THEN "untracked" ELSE "walking")
      /\ UNCHANGED <<priority_stack, current_input, text, applied, before>>
  BY <1>3, Zenon DEF absorb
<1>5. /\ symbol_stack \in Seq(Symbols) /\ process_stack \in Seq(Symbols)
      /\ status_stack \in Seq(Statuses) /\ priority_stack \in Seq(1 .. 255)
      /\ text \in Seq(TextKey) /\ Len(text) \in Nat
      /\ last_priority \in 1 .. 255
  BY <1>1, TypesAre
<1>6. /\ Base(b) /\ Busy(Ends) /\ Len(symbol_stack) > b
      /\ IF flag THEN Joins(symbol_stack, process_stack, 1, Len(text) - 1)
         ELSE /\ Len(process_stack) = 0
              /\ symbol_stack[Len(symbol_stack)].to = Len(text) - 1
      /\ Saved(symbol_stack, 0, priority_stack)
  BY <1>2, Zenon DEF AtWalking
<1>7. /\ Solid(symbol_stack, status_stack, b, text) /\ Turned(process_stack, text)
      /\ Covered(applied, symbol_stack, process_stack) /\ Once(applied)
  BY <1>6, Zenon DEF Base
<1>8. last_priority' \in 1 .. 255
  BY <1>4, <1>5, AfterIs
<1> DEFINE zs == Pop(symbol_stack, 1)
           zt == Pop(status_stack, 1)
           zp == Append(process_stack, value)
<1>9. /\ Len(symbol_stack) - 1 \in b .. Len(symbol_stack) /\ b \in Nat /\ Len(symbol_stack) \in Nat
      /\ value \in Symbols /\ punc \in Symbols
      /\ Within(value, Len(text)) /\ IsItem(value, text)
  BY <1>6, <1>7, TopIs
<1>10. punc.key \in Prioritised /\ punc.key \notin {"fn", "LBRACES", "return"} /\ punc.key \notin OperandKey
  <2>1. punc.key \in Prioritised
    BY <1>4, Zenon DEF Accepted
  <2> QED BY <2>1, Keys
<1>11. Len(symbol_stack) - 1 \in b + 1 .. Len(symbol_stack)
  BY <1>7, <1>9, <1>10, NotAtTheBottom, Zenon
<1>12. Len(symbol_stack) >= 2 /\ Len(symbol_stack) - 2 \in Nat
       /\ Len(status_stack) = Len(symbol_stack)
  <2>1. Len(status_stack) = Len(symbol_stack)
    BY <1>7, Zenon DEF Solid, Outermost
  <2> QED BY <1>9, <1>11, <2>1
<1>13. symbol_stack' = Pop(zs, 1) /\ status_stack' = Pop(zt, 1)
       /\ process_stack' = Append(zp, punc)
  <2>1. Len(status_stack) >= 2
    BY <1>12
  <2>2. Pop(zs, 1) = Pop(symbol_stack, 2)
    BY <1>5, <1>12, PopTwice
  <2>3. Pop(zt, 1) = Pop(status_stack, 2)
    BY <1>5, <2>1, PopTwice
  <2>4. process_stack \o <<value, punc>> = Append(zp, punc)
    <3>1. value \in Symbols /\ punc \in Symbols
      BY <1>9
    <3>2. process_stack \in Seq(Symbols)
      BY <1>5
    <3> HIDE DEF value, punc
    <3> QED BY ONLY <3>1, <3>2, PushTwice
  <2> QED BY <1>4, <2>2, <2>3, <2>4, Zenon
<1>14. IsItem(punc, text) /\ (punc.key \in Operator => status_stack[(Len(symbol_stack) - 1) - 1] = 2)
       /\ (punc.key = "(" => Len(symbol_stack) - 1 > b + 1)
       /\ punc.from = symbol_stack[(Len(symbol_stack) - 1) - 1].to + 1
  BY <1>7, <1>11, Zenon DEF Solid, Placed
<1>15. Len(symbol_stack) - 2 > b
  <2>1. CASE punc.key = "("
    BY <1>9, <1>14, <2>1
  <2>2. CASE punc.key # "("
    <3>1. punc.key \in Operator
      BY <1>10, <1>14, <2>2 DEF IsItem
    <3>2. status_stack[Len(symbol_stack) - 2] = 2
      BY <1>9, <1>14, <3>1
    <3>3. b \in 1 .. b
      BY <1>9
    <3>4. status_stack[b] \in {14, 15, 16}
      BY <1>7, <3>3, Zenon DEF Solid, Outermost
    <3>5. Len(symbol_stack) - 2 # b
      BY <3>2, <3>4
    <3> QED BY <1>9, <1>11, <3>5
  <2> QED BY <2>1, <2>2
\* The types, whatever the value is.
<1>16. Typed'
  <2>1. Stretches(symbol_stack', Len(text'))
    <3>1. 2 \in Nat /\ 2 <= Len(symbol_stack)
      BY <1>9, <1>12
    <3>2. Len(symbol_stack) - 2 \in 0 .. Len(symbol_stack) /\ symbol_stack' = SubSeq(symbol_stack, 1, Len(symbol_stack) - 2)
      BY <1>4, <1>5, <3>1, PopIs, ZenonT(30)
    <3> QED BY <1>1, <1>4, <1>5, <3>2, StretchesCut DEF Typed
  <2>2. status_stack' \in Seq(Statuses)
    BY <1>4, <1>5, <1>12, PopIs
  <2>3. Stretches(process_stack', Len(text'))
    <3>1. Stretches(process_stack, Len(text)) /\ Stretches(symbol_stack, Len(text))
      BY <1>1 DEF Typed
    <3>2. Stretches(zp, Len(text))
      BY <1>5, <1>9, <3>1, StretchesPush, Zenon
    <3>3. Len(symbol_stack) - 1 \in 1 .. Len(symbol_stack)
      BY <1>9, <1>11
    <3>4. Within(punc, Len(text))
      BY <3>1, <3>3, Zenon DEF Stretches
    <3>5. Stretches(Append(zp, punc), Len(text))
      BY <1>5, <1>9, <3>2, <3>4, StretchesPush, Zenon
    <3> QED BY <1>4, <1>13, <3>5
  <2>4. pc' \in Phase /\ flag' \in BOOLEAN
    BY <1>4 DEF Phase
  <2> QED BY <1>1, <1>4, <1>8, <2>1, <2>2, <2>3, <2>4, Zenon DEF Typed
<1>17. CASE is_punc(value)
  BY <1>4, <1>16, <1>17 DEF EInv, Running
<1>18. CASE ~is_punc(value)
  <2>1. value.key \in OperandKey
    <3>1. \A k \in Operator \cup {"("} : k \in Punchation
      BY Keys DEF Punchation
    <3> QED BY <1>9, <1>18, <3>1 DEF IsItem, is_punc
  <2>2. Len(process_stack) > 0 => flag
    BY <1>6
  <2>3. Len(process_stack) > 0 => process_stack[Len(process_stack)].from = value.to + 1
    BY <1>6, <2>2 DEF Joins
  <2>4. zp = Taken(symbol_stack, process_stack)
    BY DEF Taken
  <2>5. /\ Solid(zs, zt, b, text) /\ Turned(zp, text) /\ Covered(applied, zs, zp)
        /\ Len(process_stack) = 0 => Joins(zs, zp, 1, value.to)
        /\ Len(process_stack) # 0 => Joins(zs, zp, 1, process_stack[1].to)
        /\ Len(zs) = Len(symbol_stack) - 1
        /\ zs[Len(symbol_stack) - 1] = punc
        /\ Cardinality(Parens(zs)) \in Nat
        /\ Cardinality(Parens(zs)) <= Cardinality(Parens(symbol_stack))
    <3>1. text \in Seq(TextKey) /\ Len(symbol_stack) > b
      BY <1>5, <1>6
    <3> HIDE DEF zp
    <3> QED BY ONLY <1>7, <2>1, <2>3, <2>4, <3>1, MoveTop
  <2>6. Joins(zs, zp, 1, Len(text) - 1)
    <3>1. Len(process_stack) \in Nat
      BY <1>5
    <3>2. CASE Len(process_stack) = 0
      <4>1. ~flag
        BY <1>6, <3>2 DEF Joins
      <4> QED BY <1>6, <2>5, <3>2, <4>1
    <3>3. CASE Len(process_stack) # 0
      <4>1. process_stack[1].to = Len(text) - 1
        BY <1>6, <2>2, <3>1, <3>3 DEF Joins
      <4> QED BY <2>5, <3>3, <4>1
    <3> QED BY <3>2, <3>3
  <2>7. Len(zp) # 0 /\ Len(zp) > 0 /\ zp[Len(zp)].from = punc.to + 1 /\ zp[1].to = Len(text) - 1
        /\ Len(zs) > b /\ zs[Len(zs)] = punc
    BY <1>9, <1>11, <2>5, <2>6, SMTT(30) DEF Joins
  <2> HIDE DEF zs, zt, zp, punc, value
  <2>8. process_stack' = Taken(zs, zp)
    BY <1>13, <2>7 DEF Taken
  <2>9. /\ Solid(symbol_stack', status_stack', b, text) /\ Turned(process_stack', text)
        /\ Covered(applied, symbol_stack', process_stack')
        /\ Joins(symbol_stack', process_stack', 1, Len(text) - 1)
        /\ Len(symbol_stack') = Len(zs) - 1
        /\ Cardinality(Parens(symbol_stack')) \in Nat
        /\ Cardinality(Parens(symbol_stack')) <= Cardinality(Parens(zs))
    <3>1. text \in Seq(TextKey) /\ (Len(zp) = 0 => zs[Len(zs)].key \in OperandKey)
          /\ (Len(zp) > 0 => zp[Len(zp)].from = zs[Len(zs)].to + 1)
      BY <1>5, <2>7
    <3> QED BY ONLY <1>13, <2>5, <2>7, <2>8, <3>1, MoveTop
  <2>10. Len(symbol_stack') > b
    BY <1>9, <1>15, <2>5, <2>9
  <2>11. Saved(symbol_stack', 0, priority_stack')
    <3>1. Cardinality(Parens(symbol_stack)) \in Nat /\ Len(priority_stack) \in Nat
      BY <1>5, ParensCount
    <3> QED BY <1>4, <1>6, <2>5, <2>9, <3>1 DEF Saved
  <2>12. Base(b)' /\ Busy(Ends)'
    <3>1. Base(b)'
      BY <1>4, <1>7, <2>9, Zenon DEF Base
    <3>2. Busy(Ends)'
      BY <1>4, <1>6, Zenon DEF Busy
    <3> QED BY <3>1, <3>2
  <2>13. pc' = "walking"
    BY <1>4, <1>18 DEF value
  <2>14. AtWalking(b)'
    BY <1>4, <2>9, <2>10, <2>11, <2>12, <2>13, Zenon DEF AtWalking
  <2> QED BY <1>16, <2>14, Zenon DEF EInv, Phases
<1> QED BY <1>17, <1>18

\* The iteration that ends the loop.
LEMMA StepStop == ASSUME EInv, stop PROVE EInv'
<1> DEFINE value == symbol_stack[Len(symbol_stack)]
           punc == symbol_stack[Len(symbol_stack) - 1]
<1>1. Typed /\ \E b \in 2 .. 3 : AtWalking(b)
  BY WalkingIs, Zenon DEF stop
<1>2. PICK b \in 2 .. 3 : AtWalking(b)
  BY <1>1
<1>3. Top = value
  BY DEF Last, Top
<1>4. /\ last_priority' = After(punc)
      /\ IF flag
         THEN /\ process_stack' = Append(process_stack, value)
              /\ symbol_stack' = Pop(symbol_stack, 1)
              /\ status_stack' = Pop(status_stack, 1)
              /\ pc' = "clearing"
         ELSE /\ pc' = "returned"
              /\ UNCHANGED <<process_stack, symbol_stack, status_stack>>
      /\ UNCHANGED <<priority_stack, current_input, flag, text, applied, before>>
  BY <1>3, Zenon DEF stop
<1>5. /\ symbol_stack \in Seq(Symbols) /\ process_stack \in Seq(Symbols)
      /\ status_stack \in Seq(Statuses) /\ priority_stack \in Seq(1 .. 255)
      /\ text \in Seq(TextKey) /\ Len(text) \in Nat
      /\ last_priority \in 1 .. 255
  BY <1>1, TypesAre
<1>6. /\ pc = "walking" /\ Base(b) /\ Busy(Ends) /\ Len(symbol_stack) > b
      /\ IF flag THEN Joins(symbol_stack, process_stack, 1, Len(text) - 1)
         ELSE /\ Len(process_stack) = 0 /\ status_stack[Len(status_stack)] = 2
              /\ symbol_stack[Len(symbol_stack)].to = Len(text) - 1
      /\ Saved(symbol_stack, 0, priority_stack)
  BY <1>2, Zenon DEF AtWalking
<1>7. /\ Solid(symbol_stack, status_stack, b, text) /\ Turned(process_stack, text)
      /\ Covered(applied, symbol_stack, process_stack) /\ Once(applied)
  BY <1>6, Zenon DEF Base
<1>8. last_priority' \in 1 .. 255
  BY <1>4, <1>5, AfterIs
<1>9. "clearing" \in Phase /\ "returned" \in Phase
  BY DEF Phase
<1>10. CASE flag
  <2>1. /\ process_stack' = Taken(symbol_stack, process_stack)
        /\ symbol_stack' = Pop(symbol_stack, 1)
        /\ status_stack' = Pop(status_stack, 1)
        /\ pc' = "clearing"
    BY <1>4, <1>10 DEF Taken
  <2>2. /\ Joins(symbol_stack, process_stack, 1, Len(text) - 1)
        /\ Len(process_stack) > 0 /\ Len(process_stack) # 0 /\ process_stack[1].to = Len(text) - 1
        /\ process_stack[Len(process_stack)].from = symbol_stack[Len(symbol_stack)].to + 1
    <3>1. Joins(symbol_stack, process_stack, 1, Len(text) - 1)
      BY <1>6, <1>10
    <3> QED BY <3>1 DEF Joins
  <2>3. /\ Solid(symbol_stack', status_stack', b, text) /\ Turned(process_stack', text)
        /\ Covered(applied, symbol_stack', process_stack')
        /\ Joins(symbol_stack', process_stack', 1, Len(text) - 1)
        /\ Cardinality(Parens(symbol_stack')) \in Nat
        /\ Cardinality(Parens(symbol_stack')) <= Cardinality(Parens(symbol_stack))
    <3>1. text \in Seq(TextKey) /\ Len(symbol_stack) > b
      BY <1>5, <1>6
    <3> QED BY ONLY <1>7, <2>1, <2>2, <3>1, MoveTop
  <2>4. Saved(symbol_stack', 0, priority_stack')
    <3>1. Cardinality(Parens(symbol_stack)) \in Nat /\ Len(priority_stack) \in Nat
      BY <1>5, ParensCount
    <3> QED BY <1>4, <1>6, <2>3, <3>1 DEF Saved
  <2>5. Base(b)'
    BY <1>4, <1>7, <2>3, Zenon DEF Base
  <2>6. Busy(Ends)'
    BY <1>4, <1>6, Zenon DEF Busy
  <2>7. AtClearing(b)'
    BY <1>4, <2>1, <2>3, <2>4, <2>5, <2>6, Zenon DEF AtClearing
  <2>8. Typed'
    <3>1. Stretches(symbol_stack', Len(text')) /\ Stretches(process_stack', Len(text'))
          /\ status_stack' \in Seq(Statuses)
      BY <1>4, <2>3, Zenon DEF Solid, Turned
    <3> QED BY <1>1, <1>4, <1>8, <1>9, <2>1, <3>1, Zenon DEF Typed
  <2> QED BY <2>7, <2>8, Zenon DEF EInv, Phases
<1>11. CASE ~flag
  <2>1. pc' = "returned" /\ UNCHANGED <<process_stack, symbol_stack, status_stack>>
    BY <1>4, <1>11
  <2>2. Base(b)'
    BY <1>4, <1>7, <2>1, Zenon DEF Base
  <2>3. Busy(Ends)'
    BY <1>4, <1>6, Zenon DEF Busy
  <2>4. Len(process_stack) = 0 /\ status_stack[Len(status_stack)] = 2
        /\ symbol_stack[Len(symbol_stack)].to = Len(text) - 1
    BY <1>6, <1>11
  <2>5. AtReturned(b)'
    BY <1>4, <1>6, <2>1, <2>2, <2>3, <2>4, Zenon DEF AtReturned
  <2>6. Typed'
    BY <1>1, <1>4, <1>8, <1>9, <2>1, Zenon DEF Typed
  <2> QED BY <2>5, <2>6, Zenon DEF EInv, Phases
<1> QED BY <1>10, <1>11

-----------------------------------------------------------------------------
(* clear_process_stack. *)

\* Every symbol ends in front of the one on top, or is it.
LEMMA TopIsLast ==
  ASSUME NEW ss, NEW st, NEW b, NEW tx, Solid(ss, st, b, tx), NEW i \in 1 .. Len(ss)
  PROVE  ss[i].to \in Nat /\ ss[Len(ss)].to \in Nat /\ ss[i].to <= ss[Len(ss)].to
<1> DEFINE m == Len(ss)
<1>1. ss \in Seq(Symbols) /\ b \in 2 .. 3 /\ b <= m /\ m \in Nat
  <2>1. ss \in Seq(Symbols) /\ b \in 2 .. 3 /\ b <= m
    BY Zenon DEF Solid, Stretches, Outermost
  <2> QED BY <2>1
<1>2. m \in 1 .. m
  BY <1>1
<1>3. ss[i].to \in Nat /\ ss[m].to \in Nat /\ ss[m].from \in Nat
  BY <1>1, <1>2, SymbolAt
<1> HIDE DEF m
<1>4. CASE i = m
  BY <1>3, <1>4 DEF m
<1>5. CASE i # m /\ m > b
  <2>1. m \in b + 1 .. m /\ i \in 1 .. m - 1
    BY <1>1, <1>5 DEF m
  <2>2. ss[i].to < ss[m].from
    BY <2>1, Zenon DEF Solid, Placed, m
  <2>3. Within(ss[m], Len(tx))
    BY <1>2, Zenon DEF Solid, Stretches, m
  <2> QED BY <1>3, <2>2, <2>3 DEF Within, m
<1>6. CASE m = b
  <2>1. i \in 1 .. b /\ b \in 1 .. b
    BY <1>1, <1>6 DEF m
  <2>2. ss[i].to = 0 /\ ss[b].to = 0
    BY <2>1, Zenon DEF Solid, Outermost
  <2> QED BY <1>6, <2>2 DEF m
<1> QED BY <1>1, <1>4, <1>5, <1>6

\* The operator and the two operands at the back of process_stack.
LEMMA BackIs ==
  ASSUME NEW ps, NEW tx \in Seq(TextKey), Turned(ps, tx), NEW n, n = Len(ps), n > 1,
         ps[n - 1].key \in Punchation
  PROVE  /\ n \in Nat /\ n >= 3 /\ ps \in Seq(Symbols)
         /\ \A i \in n - 2 .. n :
              /\ i \in 1 .. n /\ ps[i] \in Symbols /\ ps[i].from \in Nat /\ ps[i].to \in Nat
              /\ ps[i].from > 0 /\ ps[i].from <= ps[i].to /\ ps[i].to <= Len(tx)
         /\ ps[n - 1].from = ps[n - 1].to
         /\ ps[n - 1].from = ps[n].to + 1
         /\ ps[n - 2].from = ps[n - 1].to + 1
<1>1. ps \in Seq(Symbols) /\ n \in Nat
  BY DEF Turned, Stretches
<1>2. ps[n - 1].key \notin OperandKey
  BY Keys
<1>3. ps[1].key \in OperandKey
  <2>1. Len(ps) > 0
    BY <1>1
  <2> QED BY <2>1, Zenon DEF Turned
<1>4. n >= 3
  <2>1. n # 2
    BY <1>2, <1>3
  <2> QED BY <1>1, <2>1
<1>5. \A i \in 1 .. n : IsItem(ps[i], tx) /\ Within(ps[i], Len(tx))
  BY Zenon DEF Turned, Stretches
<1>6. \A i \in n - 2 .. n :
        /\ i \in 1 .. n /\ ps[i] \in Symbols /\ ps[i].from \in Nat /\ ps[i].to \in Nat
        /\ ps[i].from > 0 /\ ps[i].from <= ps[i].to /\ ps[i].to <= Len(tx)
  <2>1. SUFFICES ASSUME NEW i \in n - 2 .. n
                 PROVE  /\ i \in 1 .. n /\ ps[i] \in Symbols /\ ps[i].from \in Nat /\ ps[i].to \in Nat
                        /\ ps[i].from > 0 /\ ps[i].from <= ps[i].to /\ ps[i].to <= Len(tx)
    OBVIOUS
  <2>2. i \in 1 .. n
    BY <1>1, <1>4
  <2>3. ps[i] \in Symbols /\ ps[i].from \in Nat /\ ps[i].to \in Nat
    BY <1>1, <2>2, SymbolAt
  <2>4. IsItem(ps[i], tx) /\ Within(ps[i], Len(tx))
    BY <1>5, <2>2
  <2> QED BY <2>2, <2>3, <2>4 DEF IsItem, Within
<1>7. n - 1 \in 1 .. n /\ n - 1 \in 1 .. n - 1 /\ n - 2 \in 1 .. n - 1
      /\ (n - 1) + 1 = n /\ (n - 2) + 1 = n - 1
  BY <1>1, <1>4
<1>8. ps[n - 1].from = ps[n - 1].to
  BY <1>2, <1>5, <1>7 DEF IsItem
<1>9. \A i \in 1 .. n - 1 : ps[i].from = ps[i + 1].to + 1
  BY Zenon DEF Turned
<1>10. ps[n - 1].from = ps[n].to + 1 /\ ps[n - 2].from = ps[n - 1].to + 1
  BY <1>7, <1>9
<1> QED BY <1>1, <1>4, <1>6, <1>8, <1>10

\* Three stretches one after the other, the middle one of one token.
LEMMA Following ==
  ASSUME NEW f \in Nat, NEW g \in Nat, NEW p \in Nat, NEW l \in Nat, NEW r \in Nat,
         f > 0, f <= g, p = g + 1, l = p + 1, l <= r
  PROVE  0 < f /\ f < p /\ p < r /\ f <= r /\ f <= l /\ f <= p /\ g <= r /\ p <= r
<1>1. f < p /\ f <= p /\ g < p
  BY ONLY f <= g, p = g + 1, f \in Nat, g \in Nat
<1>2. p < l
  BY ONLY l = p + 1, p \in Nat
<1>3. p < r
  BY ONLY <1>2, l <= r, p \in Nat, l \in Nat, r \in Nat
<1> QED BY ONLY <1>1, <1>2, <1>3, f > 0, f \in Nat, g \in Nat, p \in Nat, l \in Nat, r \in Nat

LEMMA Inner ==
  ASSUME NEW f \in Nat, NEW a \in Nat, NEW t \in Nat, NEW m \in Nat, 0 < f, f < a, a < t, t <= m
  PROVE  f \in 1 .. m /\ a \in 1 .. m /\ t \in 1 .. m
  OBVIOUS

LEMMA BackAre ==
  ASSUME NEW ps, NEW tx \in Seq(TextKey), Turned(ps, tx), NEW n, n = Len(ps), n > 1,
         ps[n - 1].key \in Punchation
  PROVE  /\ ps[n].from \in Nat /\ ps[n - 1].from \in Nat /\ ps[n - 2].to \in Nat
         /\ 0 < ps[n].from /\ ps[n].from < ps[n - 1].from /\ ps[n - 1].from < ps[n - 2].to
         /\ ps[n].from <= ps[n - 2].to /\ ps[n - 2].to <= Len(tx) /\ Len(tx) \in Nat
         /\ \A i \in n - 2 .. n : ps[n].from <= ps[i].from /\ ps[i].to <= ps[n - 2].to
<1>1. /\ n \in Nat /\ n >= 3 /\ ps \in Seq(Symbols)
      /\ \A i \in n - 2 .. n :
           /\ i \in 1 .. n /\ ps[i] \in Symbols /\ ps[i].from \in Nat /\ ps[i].to \in Nat
           /\ ps[i].from > 0 /\ ps[i].from <= ps[i].to /\ ps[i].to <= Len(tx)
      /\ ps[n - 1].from = ps[n - 1].to
      /\ ps[n - 1].from = ps[n].to + 1
      /\ ps[n - 2].from = ps[n - 1].to + 1
  BY BackIs, SMTT(30)
<1>2. n \in n - 2 .. n /\ n - 1 \in n - 2 .. n /\ n - 2 \in n - 2 .. n
      /\ \A i \in n - 2 .. n : i = n \/ i = n - 1 \/ i = n - 2
  BY <1>1, SMTT(30)
<1> DEFINE A1 == ps[n].from
           B1 == ps[n].to
           A2 == ps[n - 1].from
           B2 == ps[n - 1].to
           A3 == ps[n - 2].from
           B3 == ps[n - 2].to
           m == Len(tx)
<1>3. A1 \in Nat /\ B1 \in Nat /\ A2 \in Nat /\ B2 \in Nat /\ A3 \in Nat /\ B3 \in Nat
      /\ A1 > 0 /\ A1 <= B1 /\ A3 <= B3 /\ B3 <= m
  BY <1>1, <1>2, Zenon
<1>4. A2 = B2 /\ A2 = B1 + 1 /\ A3 = B2 + 1
  BY <1>1
<1>5. m \in Nat
  OBVIOUS
<1> HIDE DEF A1, B1, A2, B2, A3, B3, m
<1>6. 0 < A1 /\ A1 < A2 /\ A2 < B3 /\ A1 <= B3 /\ A1 <= A3 /\ A1 <= A2 /\ B1 <= B3 /\ A2 <= B3
  <2>1. A2 = B1 + 1 /\ A3 = A2 + 1
    BY <1>4
  <2> QED BY ONLY <1>3, <2>1, Following
<1>7. \A i \in n - 2 .. n : A1 <= ps[i].from /\ ps[i].to <= B3
  <2>1. A1 <= A1 /\ B3 <= B3 /\ B2 <= B3
    BY <1>3, <1>4, <1>6
  <2> QED BY <1>2, <1>6, <2>1, Zenon DEF A1, B1, A2, B2, A3, B3
<1> QED BY <1>3, <1>5, <1>6, <1>7, Zenon DEF A1, A2, B3, m

\* The value of an operator takes the place of the operator and its operands.
Value(ps) == Symbol("value", ps[Len(ps)].from, ps[Len(ps) - 2].to)
Shrunk(ps) == Append(Pop(ps, 3), Value(ps))
Applied(ps, g) ==
  [at |-> ps[Len(ps) - 1].from, from |-> ps[Len(ps)].from, to |-> ps[Len(ps) - 2].to, grouped |-> g]

LEMMA ShrunkIs ==
  ASSUME NEW ps, NEW tx \in Seq(TextKey), Turned(ps, tx), Len(ps) > 1,
         ps[Len(ps) - 1].key \in Punchation
  PROVE  /\ Turned(Shrunk(ps), tx)
         /\ Len(Shrunk(ps)) = Len(ps) - 2 /\ Len(ps) - 2 > 0 /\ Len(ps) \in Nat
         /\ \A i \in 1 .. Len(ps) - 3 : Shrunk(ps)[i] = ps[i]
         /\ Shrunk(ps)[Len(ps) - 2] = Value(ps)
         /\ Value(ps).from = ps[Len(ps)].from /\ Value(ps).to = ps[Len(ps) - 2].to
<1> DEFINE n == Len(ps)
           x == Value(ps)
           z == Pop(ps, 3)
<1>1. /\ n \in Nat /\ n >= 3 /\ ps \in Seq(Symbols)
      /\ \A i \in n - 2 .. n :
           /\ i \in 1 .. n /\ ps[i] \in Symbols /\ ps[i].from \in Nat /\ ps[i].to \in Nat
           /\ ps[i].from > 0 /\ ps[i].from <= ps[i].to /\ ps[i].to <= Len(tx)
      /\ ps[n - 1].from = ps[n - 1].to
      /\ ps[n - 1].from = ps[n].to + 1
      /\ ps[n - 2].from = ps[n - 1].to + 1
  BY BackIs
<1>2. n \in n - 2 .. n /\ n - 1 \in n - 2 .. n /\ n - 2 \in n - 2 .. n
  BY <1>1
<1>3. x \in Symbols /\ x.key = "value" /\ x.from = ps[n].from /\ x.to = ps[n - 2].to
  <2>1. ps[n].from \in Nat /\ ps[n - 2].to \in Nat /\ "value" \in Key \cup {"value"}
    BY <1>1, <1>2, Zenon
  <2> DEFINE f == ps[n].from
             t == ps[n - 2].to
  <2>2. x = Symbol("value", f, t)
    BY DEF Value
  <2> HIDE DEF x, f, t
  <2>3. f \in Nat /\ t \in Nat /\ "value" \in Key \cup {"value"}
    BY <2>1 DEF f, t
  <2>4. x \in Symbols /\ x.key = "value" /\ x.from = f /\ x.to = t
    BY ONLY <2>2, <2>3 DEF Symbol, Symbols
  <2> QED BY <2>4 DEF f, t
<1>4. /\ z \in Seq(Symbols) /\ Len(z) = n - 3 /\ (\A i \in 1 .. n - 3 : z[i] = ps[i])
      /\ z = SubSeq(ps, 1, n - 3) /\ n - 3 \in 0 .. n
  <2>1. 3 \in Nat /\ 3 <= Len(ps)
    BY <1>1
  <2> QED BY <1>1, <2>1, PopIs, ZenonT(30)
<1>5. Turned(z, tx)
  BY <1>4, TurnedCut
<1> HIDE DEF n, x, z
<1>6. Within(x, Len(tx))
  <2>1. ps[n].from <= ps[n - 2].to /\ ps[n - 2].to <= Len(tx)
    BY BackAre DEF n
  <2> QED BY <1>3, <2>1, Zenon DEF Within
<1>7. IsItem(x, tx)
  <2>1. "value" \in OperandKey
    BY Keys
  <2> QED BY <1>1, <1>2, <1>3, <2>1 DEF IsItem
<1>8. Len(z) > 0 => z[Len(z)].from = x.to + 1
  <2>1. SUFFICES ASSUME Len(z) > 0 PROVE z[Len(z)].from = x.to + 1
    OBVIOUS
  <2>2. n - 3 \in 1 .. n - 3 /\ n - 3 \in 1 .. n - 1 /\ (n - 3) + 1 = n - 2
    BY <1>1, <1>4, <2>1
  <2>3. z[Len(z)] = ps[n - 3]
    BY <1>4, <2>2
  <2>4. \A i \in 1 .. n - 1 : ps[i].from = ps[i + 1].to + 1
    BY Zenon DEF Turned, n
  <2> QED BY <1>3, <2>2, <2>3, <2>4
<1>9. x.key \in OperandKey
  BY <1>3, Keys
<1>10. Turned(Append(z, x), tx)
  BY <1>3, <1>5, <1>6, <1>7, <1>8, <1>9, TurnedPush, Zenon
<1>11. Len(Append(z, x)) = (n - 3) + 1 /\ (\A i \in 1 .. n - 3 : Append(z, x)[i] = z[i])
       /\ Append(z, x)[(n - 3) + 1] = x
  BY <1>3, <1>4, PushIs
<1>12. Shrunk(ps) = Append(z, x)
  BY DEF Shrunk, z, x
<1>13. (n - 3) + 1 = n - 2 /\ n - 2 > 0
  BY <1>1
<1> HIDE DEF Shrunk
<1> QED BY <1>1, <1>3, <1>4, <1>10, <1>11, <1>12, <1>13, Zenon DEF n, x

LEMMA EvaluateIs ==
  ASSUME NEW ps, NEW tx \in Seq(TextKey), Turned(ps, tx), Len(ps) > 1,
         ps[Len(ps) - 1].key \in Punchation,
         NEW ss, NEW st, NEW b, Solid(ss, st, b, tx),
         NEW gap \in {1, 2}, NEW read, Joins(ss, ps, gap, read),
         NEW ap, Numbered(ap), Covered(ap, ss, ps), Once(ap), NEW g \in BOOLEAN
  PROVE  /\ Joins(ss, Shrunk(ps), gap, read)
         /\ Covered(ap \cup {Applied(ps, g)}, ss, Shrunk(ps)) /\ Once(ap \cup {Applied(ps, g)})
         /\ Applied(ps, g) \in [at : 1 .. Len(tx), from : 1 .. Len(tx),
                                to : 1 .. Len(tx), grouped : BOOLEAN]
<1> DEFINE n == Len(ps)
           z == Shrunk(ps)
           x == Value(ps)
           new == Applied(ps, g)
<1>1. /\ Len(z) = n - 2 /\ n - 2 > 0 /\ n \in Nat
      /\ \A i \in 1 .. n - 3 : z[i] = ps[i]
      /\ z[n - 2] = x
      /\ x.from = ps[n].from /\ x.to = ps[n - 2].to
  BY ShrunkIs
<1>2. /\ n \in Nat /\ n >= 3 /\ ps \in Seq(Symbols)
      /\ \A i \in n - 2 .. n :
           /\ i \in 1 .. n /\ ps[i] \in Symbols /\ ps[i].from \in Nat /\ ps[i].to \in Nat
           /\ ps[i].from > 0 /\ ps[i].from <= ps[i].to /\ ps[i].to <= Len(tx)
      /\ ps[n - 1].from = ps[n - 1].to
      /\ ps[n - 1].from = ps[n].to + 1
      /\ ps[n - 2].from = ps[n - 1].to + 1
  BY BackIs
<1>3. n \in n - 2 .. n /\ n - 1 \in n - 2 .. n /\ n - 2 \in n - 2 .. n
      /\ n \in 1 .. n /\ n - 1 \in 1 .. n /\ n - 2 \in 1 .. n
  BY <1>2
<1>4. new.at = ps[n - 1].from /\ new.from = ps[n].from /\ new.to = ps[n - 2].to
  BY DEF Applied
<1>5. /\ ps[n].from \in Nat /\ ps[n - 1].from \in Nat /\ ps[n - 2].to \in Nat
      /\ 0 < ps[n].from /\ ps[n].from < ps[n - 1].from /\ ps[n - 1].from < ps[n - 2].to
      /\ ps[n].from <= ps[n - 2].to /\ ps[n - 2].to <= Len(tx) /\ Len(tx) \in Nat
      /\ \A i \in n - 2 .. n : ps[n].from <= ps[i].from /\ ps[i].to <= ps[n - 2].to
  BY BackAre
<1> HIDE DEF n, z, x, new
<1>6. /\ new.from < new.at /\ new.at < new.to /\ new.at \in Nat
      /\ new \in [at : 1 .. Len(tx), from : 1 .. Len(tx), to : 1 .. Len(tx), grouped : BOOLEAN]
  <2>1. new = [at |-> ps[n - 1].from, from |-> ps[n].from, to |-> ps[n - 2].to, grouped |-> g]
    BY DEF Applied, new, n
  <2> DEFINE f == ps[n].from
             a == ps[n - 1].from
             t == ps[n - 2].to
             m == Len(tx)
  <2>2. f \in 1 .. m /\ a \in 1 .. m /\ t \in 1 .. m
    <3>1. f \in Nat /\ a \in Nat /\ t \in Nat /\ m \in Nat /\ 0 < f /\ f < a /\ a < t /\ t <= m
      BY <1>5
    <3> HIDE DEF f, a, t, m
    <3> QED BY ONLY <3>1, Inner
  <2>3. new \in [at : 1 .. Len(tx), from : 1 .. Len(tx), to : 1 .. Len(tx), grouped : BOOLEAN]
    BY ONLY <2>1, <2>2, g \in BOOLEAN
  <2> QED BY <1>4, <1>5, <2>3
<1>7. Joins(ss, z, gap, read)
  <2>1. ps[1].to = read /\ ps[n].from = ss[Len(ss)].to + gap
    BY Zenon DEF Joins, n
  <2>2. z[1].to = read
    <3>1. CASE n = 3
      <4>1. n - 2 = 1
        BY <3>1
      <4> QED BY <1>1, <2>1, <4>1
    <3>2. CASE n # 3
      <4>1. 1 \in 1 .. n - 3
        BY <1>2, <3>2
      <4> QED BY <1>1, <2>1, <4>1
    <3> QED BY <3>1, <3>2
  <2> QED BY <1>1, <2>1, <2>2 DEF Joins
\* Symbols nearer to the front stand behind those nearer to the back.
<1>8. \A i \in 1 .. n : /\ ps[i].from \in Nat /\ ps[i].to \in Nat /\ ps[i].from <= ps[i].to
                        /\ \A j \in i + 1 .. n : ps[j].to < ps[i].from
  <2>1. \A i \in 1 .. n : Within(ps[i], Len(tx)) /\ \A j \in i + 1 .. n : ps[j].to < ps[i].from
    BY Zenon DEF Turned, Stretches, n
  <2>2. \A i \in 1 .. n : ps[i].from \in Nat /\ ps[i].to \in Nat
    BY <1>2, SymbolAt DEF n
  <2> QED BY <2>1, <2>2, Zenon DEF Within
<1>9. \A i \in n - 2 .. n : x.from <= ps[i].from /\ ps[i].to <= x.to
  BY <1>1, <1>5, Zenon
<1>10. Covered(ap \cup {new}, ss, z)
  <2>1. n - 2 \in 1 .. Len(z) /\ \A i \in 1 .. n - 3 : i \in 1 .. Len(z)
    BY <1>1
  <2>2. ASSUME NEW a \in ap, NEW i \in 1 .. n, In(a, ps[i])
        PROVE  \E j \in 1 .. Len(z) : In(a, z[j])
    <3>1. CASE i <= n - 3
      <4>1. i \in 1 .. n - 3
        BY <1>2, <3>1
      <4> QED BY <1>1, <2>1, <2>2, <4>1
    <3>2. CASE i > n - 3
      <4>1. i \in n - 2 .. n
        BY <1>2, <3>2
      <4>2. ps[i].from \in Nat /\ ps[i].to \in Nat /\ x.from \in Nat /\ x.to \in Nat
        BY <1>1, <1>3, <1>8
      <4>3. a.from \in Nat /\ a.to \in Nat
        BY DEF Numbered
      <4>4. x.from <= ps[i].from /\ ps[i].to <= x.to
        BY <1>9, <4>1
      <4>5. In(a, x)
        BY <2>2, <4>2, <4>3, <4>4, SMTT(30) DEF In
      <4> QED BY <1>1, <2>1, <4>5
    <3> QED BY <1>2, <3>1, <3>2
  <2>3. Covered(ap, ss, z)
    <3>1. \A a \in ap : \A i \in 1 .. Len(ss) : In(a, ss[i]) => \E j \in 1 .. Len(ss) : In(a, ss[j])
      OBVIOUS
    <3> QED BY <2>2, <3>1, CoveredMoves, Zenon DEF n
  <2>4. In(new, x)
    BY <1>1, <1>4, <1>5 DEF In
  <2> QED BY <1>1, <1>6, <2>1, <2>3, <2>4, Zenon DEF Covered
<1>11. Once(ap \cup {new})
  <2>1. ASSUME NEW a \in ap PROVE a.at # new.at
    <3>1. a.from \in Nat /\ a.at \in Nat /\ a.to \in Nat /\ a.from < a.at /\ a.at < a.to
      BY DEF Numbered, Covered
    <3> DEFINE p == new.at
    <3>2. p = ps[n - 1].from /\ p = ps[n - 1].to /\ p = ps[n].to + 1 /\ p \in Nat
      BY <1>2, <1>4, <1>6
    <3> HIDE DEF p
    <3>3. ASSUME NEW i \in 1 .. n, In(a, ps[i]) PROVE a.at # p
      <4> DEFINE f == ps[i].from
                 t == ps[i].to
      <4>1. f \in Nat /\ t \in Nat /\ f <= a.from /\ a.to <= t
        BY <1>8, <3>3 DEF In
      <4>2. t < p \/ p <= f \/ (f = p /\ t = p)
        <5>1. CASE i = n
          <6>1. t \in Nat /\ p = t + 1
            BY <3>2, <4>1, <5>1
          <6> HIDE DEF t
          <6> QED BY <6>1
        <5>2. CASE i = n - 1
          BY <3>2, <5>2
        <5>3. CASE i < n - 1
          <6>1. n - 1 \in i + 1 .. n
            BY <1>2, <5>3
          <6>2. ps[n - 1].to < f
            BY <1>8, <6>1
          <6>3. p < f
            BY <3>2, <6>2
          <6> HIDE DEF f
          <6> QED BY <3>2, <4>1, <6>3
        <5> QED BY <1>2, <5>1, <5>2, <5>3
      <4> HIDE DEF f, t
      <4> QED BY <3>1, <3>2, <4>1, <4>2, SMTT(30)
    <3>4. ASSUME NEW i \in 1 .. Len(ss), In(a, ss[i]) PROVE a.at # p
      <4> DEFINE t == ss[i].to
                 u == ss[Len(ss)].to
                 f == ps[n].from
                 v == ps[n].to
      <4>1. t \in Nat /\ u \in Nat /\ t <= u
        BY TopIsLast
      <4>2. f = u + gap
        BY Zenon DEF Joins, n
      <4>3. f <= v /\ f \in Nat /\ v \in Nat /\ p = v + 1 /\ a.to <= t
        BY <1>3, <1>8, <3>2, <3>4 DEF In
      <4> HIDE DEF t, u, f, v
      <4>4. t < p
        BY <4>1, <4>2, <4>3
      <4> QED BY <3>1, <3>2, <4>1, <4>3, <4>4
    <3>5. (\E i \in 1 .. Len(ss) : In(a, ss[i])) \/ (\E i \in 1 .. n : In(a, ps[i]))
      BY Zenon DEF Covered, n
    <3> QED BY <3>3, <3>4, <3>5 DEF p
  <2> QED BY <2>1, Zenon DEF Once
<1> QED BY <1>6, <1>7, <1>10, <1>11 DEF z, new

LEMMA StepEvaluate == ASSUME EInv, evaluate PROVE EInv'
<1> DEFINE g == current_input.key = ")"
<1>1. Typed /\ \E b \in 2 .. 3 : AtClearing(b)
  BY ClearingIs, Zenon DEF evaluate
<1>2. PICK b \in 2 .. 3 : AtClearing(b)
  BY <1>1
<1>3. /\ pc = "clearing" /\ Len(process_stack) > 1
      /\ UNCHANGED <<symbol_stack, status_stack, priority_stack, last_priority,
                     current_input, flag, text, before>>
  BY Zenon DEF evaluate
<1>4. /\ symbol_stack \in Seq(Symbols) /\ process_stack \in Seq(Symbols)
      /\ text \in Seq(TextKey) /\ Len(text) \in Nat
  BY <1>1, TypesAre
<1>5. CASE Rejected
  <2>1. pc' = "threw" /\ UNCHANGED <<process_stack, applied>>
    BY <1>5, Zenon DEF evaluate
  <2>2. "threw" \in Phase /\ "threw" \notin Running
    BY DEF Phase, Running
  <2>3. Typed'
    BY <1>1, <1>3, <2>1, <2>2, Zenon DEF Typed
  <2> QED BY <2>1, <2>2, <2>3, Zenon DEF EInv
<1>6. CASE ~Rejected
  <2>1. process_stack[Len(process_stack) - 1].key \in Punchation
    BY <1>6, Zenon DEF Rejected, is_punc, punc_of_lhs
  <2>2. /\ process_stack' = Append(Pop(process_stack, 3), Symbol("value", lhs.from, rhs.to))
        /\ applied' = applied \cup
             {[at |-> punc_of_lhs.from, from |-> lhs.from, to |-> rhs.to,
               grouped |-> current_input.key = ")"]}
        /\ pc' = pc
    BY <1>6, Zenon DEF evaluate
  <2>3. lhs = process_stack[Len(process_stack)]
    BY Zenon DEF Last, lhs
  <2>4. process_stack' = Shrunk(process_stack)
    BY <2>2, <2>3, Zenon DEF Shrunk, Value, rhs
  <2>5. applied' = applied \cup {Applied(process_stack, g)}
    BY <2>2, <2>3, Zenon DEF Applied, rhs, punc_of_lhs
  <2>6. g \in BOOLEAN
    OBVIOUS
  <2> HIDE DEF g
  <2>7. /\ Solid(symbol_stack, status_stack, b, text) /\ Turned(process_stack, text)
        /\ Covered(applied, symbol_stack, process_stack) /\ Once(applied)
    BY <1>2, Zenon DEF AtClearing, Base
  <2>8. Numbered(applied)
    BY <1>1, <1>4, AppliedIs DEF Typed
  <2>9. Turned(process_stack', text)
    BY <1>3, <1>4, <2>1, <2>4, <2>7, ShrunkIs
  <2>10. \A gap \in {1, 2} : Joins(symbol_stack, process_stack, gap, Len(text) - 1) =>
           /\ Joins(symbol_stack, process_stack', gap, Len(text) - 1)
           /\ Covered(applied', symbol_stack, process_stack') /\ Once(applied')
           /\ Applied(process_stack, g) \in [at : 1 .. Len(text), from : 1 .. Len(text),
                                             to : 1 .. Len(text), grouped : BOOLEAN]
    <3>1. SUFFICES ASSUME NEW gap \in {1, 2}, Joins(symbol_stack, process_stack, gap, Len(text) - 1)
                   PROVE  /\ Joins(symbol_stack, process_stack', gap, Len(text) - 1)
                          /\ Covered(applied', symbol_stack, process_stack') /\ Once(applied')
                          /\ Applied(process_stack, g) \in
                               [at : 1 .. Len(text), from : 1 .. Len(text),
                                to : 1 .. Len(text), grouped : BOOLEAN]
      BY Zenon
    <3>2. text \in Seq(TextKey) /\ Len(process_stack) > 1
      BY <1>3, <1>4
    <3>3. Joins(symbol_stack, process_stack, gap, Len(text) - 1)
      BY <3>1
    <3>4. gap \in {1, 2}
      OBVIOUS
    <3> QED BY ONLY <2>1, <2>4, <2>5, <2>6, <2>7, <2>8, <3>2, <3>3, <3>4, EvaluateIs, ZenonT(30)
  <2>11. PICK gap \in {1, 2} : Joins(symbol_stack, process_stack, gap, Len(text) - 1)
    BY <1>2, Zenon DEF AtClearing, Inside
  <2>12. /\ Covered(applied', symbol_stack, process_stack') /\ Once(applied')
         /\ Applied(process_stack, g) \in [at : 1 .. Len(text), from : 1 .. Len(text),
                                           to : 1 .. Len(text), grouped : BOOLEAN]
    BY <2>10, <2>11, Zenon
  <2>13. Base(b)'
    BY <1>3, <2>7, <2>9, <2>12, Zenon DEF Base
  <2>14. Typed'
    <3>1. applied' \subseteq [at : 1 .. Len(text), from : 1 .. Len(text),
                              to : 1 .. Len(text), grouped : BOOLEAN]
      BY <1>1, <2>5, <2>12 DEF Typed
    <3>2. Stretches(process_stack', Len(text))
      BY <2>9, Zenon DEF Turned
    <3> QED BY <1>1, <1>3, <2>2, <3>1, <3>2, Zenon DEF Typed
  <2>15. CASE Inside
    <3>1. Busy({")"})'
      BY <1>3, <2>15, Zenon DEF Busy, Inside
    <3>2. Joins(symbol_stack, process_stack', 2, Len(text) - 1)
      BY <2>10, <2>15, Zenon DEF Inside
    <3>3. Inside'
      BY <1>3, <2>15, <3>1, <3>2, Zenon DEF Inside
    <3>4. AtClearing(b)'
      BY <1>3, <2>2, <2>13, <3>3, Zenon DEF AtClearing
    <3> QED BY <2>14, <3>4, Zenon DEF EInv, Phases
  <2>16. CASE ~Inside
    <3>1. /\ Busy(Ends) /\ Joins(symbol_stack, process_stack, 1, Len(text) - 1)
          /\ Saved(symbol_stack, 0, priority_stack)
      BY <1>2, <2>16, Zenon DEF AtClearing
    <3>2. Busy(Ends)'
      BY <1>3, <3>1, Zenon DEF Busy
    <3>3. Joins(symbol_stack, process_stack', 1, Len(text) - 1)
      BY <2>10, <3>1, Zenon
    <3>4. AtClearing(b)'
      BY <1>3, <2>2, <2>13, <3>1, <3>2, <3>3, Zenon DEF AtClearing
    <3> QED BY <2>14, <3>4, Zenon DEF EInv, Phases
  <2> QED BY <2>15, <2>16
<1> QED BY <1>5, <1>6

LEMMA ElementIs ==
  ASSUME NEW A, NEW s \in Seq(A), NEW i \in 1 .. Len(s)
  PROVE  s[i] \in A
  OBVIOUS

\* The priority that "(" put aside.
LEMMA SavedIs ==
  ASSUME Typed, Saved(symbol_stack, 1, priority_stack)
  PROVE  /\ Last(priority_stack) \in 1 .. 255 /\ Pop(priority_stack, 1) \in Seq(1 .. 255)
         /\ Len(Pop(priority_stack, 1)) = Len(priority_stack) - 1
         /\ Cardinality(Parens(symbol_stack)) \in Nat
         /\ Cardinality(Parens(symbol_stack)) <= Len(priority_stack) - 1
<1>1. symbol_stack \in Seq(Symbols) /\ priority_stack \in Seq(1 .. 255)
  BY TypesAre
<1>2. Cardinality(Parens(symbol_stack)) \in Nat
  BY <1>1, ParensCount
<1>3. Len(priority_stack) \in Nat /\ Cardinality(Parens(symbol_stack)) + 1 <= Len(priority_stack)
  BY <1>1 DEF Saved
<1>4. 1 <= Len(priority_stack) /\ 1 \in Nat
  <2>1. \A c, n \in Nat : c + 1 <= n => 1 <= n /\ c <= n - 1
    OBVIOUS
  <2> QED BY <1>2, <1>3, <2>1
<1>5. Pop(priority_stack, 1) \in Seq(1 .. 255) /\ Len(Pop(priority_stack, 1)) = Len(priority_stack) - 1
  BY <1>1, <1>4, PopIs
<1>6. Last(priority_stack) \in 1 .. 255
  <2>1. Len(priority_stack) \in 1 .. Len(priority_stack)
    BY <1>3, <1>4
  <2>2. priority_stack[Len(priority_stack)] \in 1 .. 255
    BY ONLY <1>1, <2>1, ElementIs, Zenon
  <2> QED BY <2>2 DEF Last
<1> QED BY <1>2, <1>3, <1>5, <1>6

LEMMA StepPushValue == ASSUME EInv, push_value PROVE EInv'
<1> DEFINE inside == process_stack[1]
           value == IF current_input.key = ")"
                    THEN [inside EXCEPT !.from = @ - 1, !.to = @ + 1] ELSE inside
<1>1. Typed /\ \E b \in 2 .. 3 : AtClearing(b)
  BY ClearingIs, Zenon DEF push_value
<1>2. PICK b \in 2 .. 3 : AtClearing(b)
  BY <1>1
<1>3. /\ pc = "clearing" /\ Len(process_stack) = 1
      /\ process_stack' = <<>>
      /\ Pushed(value, 2)
      /\ IF current_input.key = ")"
         THEN leave_parentheses /\ pc' = "reading"
         ELSE pc' = "returned" /\ UNCHANGED <<priority_stack, last_priority>>
      /\ UNCHANGED <<current_input, flag, text, applied, before>>
  BY Zenon DEF push_value
<1>4. /\ symbol_stack \in Seq(Symbols) /\ process_stack \in Seq(Symbols)
      /\ status_stack \in Seq(Statuses) /\ priority_stack \in Seq(1 .. 255)
      /\ text \in Seq(TextKey) /\ Len(text) \in Nat
      /\ last_priority \in 1 .. 255
  BY <1>1, TypesAre
<1>5. /\ Solid(symbol_stack, status_stack, b, text) /\ Turned(process_stack, text)
      /\ Covered(applied, symbol_stack, process_stack) /\ Once(applied)
      /\ Inside \/ (/\ Busy(Ends) /\ Joins(symbol_stack, process_stack, 1, Len(text) - 1)
                    /\ Saved(symbol_stack, 0, priority_stack))
  BY <1>2, Zenon DEF AtClearing, Base
<1>6. /\ inside \in Symbols /\ inside.from \in Nat /\ inside.to \in Nat
      /\ inside.from > 0 /\ inside.from <= inside.to /\ inside.to <= Len(text)
      /\ inside.key \in OperandKey
  <2>1. 1 \in 1 .. Len(process_stack) /\ Len(process_stack) > 0
    BY <1>3
  <2>2. IsItem(inside, text) /\ inside.key \in OperandKey /\ Within(inside, Len(text))
    BY <1>5, <2>1, Zenon DEF Turned, Stretches
  <2>3. inside \in Symbols /\ inside.from \in Nat /\ inside.to \in Nat
    BY <1>4, <2>1, SymbolAt
  <2> QED BY <2>2, <2>3 DEF IsItem, Within
<1>7. /\ symbol_stack' = Append(symbol_stack, value) /\ status_stack' = Append(status_stack, 2)
      /\ text' = text /\ current_input' = current_input /\ applied' = applied /\ flag' = flag
  BY <1>3 DEF Pushed
<1> HIDE DEF value, inside
\* What is common to both cases.
<1>8. ASSUME value \in Symbols, value.key = inside.key, value.from > 0,
             value.from <= value.to, value.to <= Len(text),
             value.from <= inside.from, inside.to <= value.to,
             value.from = symbol_stack[Len(symbol_stack)].to + 1
      PROVE  /\ Base(b)' /\ Cardinality(Parens(symbol_stack')) = Cardinality(Parens(symbol_stack))
             /\ Len(symbol_stack') > b /\ symbol_stack'[Len(symbol_stack')] = value
             /\ status_stack'[Len(status_stack')] = 2
             /\ Stretches(symbol_stack', Len(text)) /\ Stretches(process_stack', Len(text))
             /\ status_stack' \in Seq(Statuses)
  <2>1. Within(value, Len(text)) /\ IsItem(value, text)
        /\ 2 = (IF value.key \in OperandKey THEN 2 ELSE 7)
        /\ value.key \notin Operator /\ value.key # "("
    <3>1. Within(value, Len(text)) /\ IsItem(value, text)
      BY <1>6, <1>8 DEF Within, IsItem
    <3> QED BY <1>6, <1>8, <3>1, Keys
  <2>2. Solid(symbol_stack', status_stack', b, text)
    BY <1>4, <1>5, <1>7, <1>8, <2>1, SolidPush
  <2>3. Len(process_stack') = 0 /\ process_stack' \in Seq(Symbols)
    BY <1>3
  <2>4. Turned(process_stack', text)
    BY <2>3, NothingTurned
  <2>5. Len(symbol_stack') = Len(symbol_stack) + 1 /\ Len(symbol_stack) \in Nat
        /\ (\A i \in 1 .. Len(symbol_stack) : symbol_stack'[i] = symbol_stack[i])
        /\ symbol_stack'[Len(symbol_stack) + 1] = value
    BY <1>4, <1>7, <1>8, PushIs
  <2>6. status_stack'[Len(status_stack')] = 2
    <3>1. 2 \in Statuses
      BY DEF Statuses
    <3>2. Len(status_stack') = Len(status_stack) + 1 /\ status_stack'[Len(status_stack) + 1] = 2
      BY <1>4, <1>7, <3>1, PushIs
    <3> QED BY <3>2
  <2>7. Len(symbol_stack') > b
    <3>1. b \in 2 .. 3 /\ b <= Len(symbol_stack)
      BY <1>5, Zenon DEF Solid, Outermost
    <3> QED BY <2>5, <3>1
  <2>8. Covered(applied', symbol_stack', process_stack')
    <3>1. Len(symbol_stack) + 1 \in 1 .. Len(symbol_stack')
          /\ \A i \in 1 .. Len(symbol_stack) : i \in 1 .. Len(symbol_stack')
      BY <2>5
    <3>2. \A a \in applied : \A i \in 1 .. Len(process_stack) : In(a, process_stack[i]) =>
            In(a, value)
      <4>1. SUFFICES ASSUME NEW a \in applied, NEW i \in 1 .. Len(process_stack),
                            In(a, process_stack[i])
                     PROVE  In(a, value)
        OBVIOUS
      <4>2. process_stack[i] = inside
        <5>1. i = 1
          BY <1>3
        <5> QED BY <5>1 DEF inside
      <4>3. Numbered(applied)
        BY <1>1, <1>4, AppliedIs DEF Typed
      <4>4. a.from \in Nat /\ a.to \in Nat /\ inside.from <= a.from /\ a.to <= inside.to
        BY <4>1, <4>2, <4>3 DEF Numbered, In
      <4>5. value.from \in Nat /\ value.to \in Nat
        BY <1>8 DEF Symbols
      <4> QED BY <1>6, <1>8, <4>4, <4>5 DEF In
    <3>3. Covered(applied, symbol_stack', process_stack')
      BY <1>5, <2>5, <3>1, <3>2, CoveredMoves, ZenonT(60)
    <3> QED BY <1>7, <3>3
  <2>9. Base(b)'
    BY <1>5, <1>7, <2>2, <2>4, <2>8, Zenon DEF Base
  <2>10. Cardinality(Parens(symbol_stack')) = Cardinality(Parens(symbol_stack))
    <3>1. Cardinality(Parens(symbol_stack')) = Cardinality(Parens(symbol_stack)) + 0
      BY <1>4, <1>7, <1>8, <2>1, ParensPush
    <3> QED BY <1>4, <3>1, ParensCount
  <2>11. Stretches(symbol_stack', Len(text)) /\ Stretches(process_stack', Len(text))
         /\ status_stack' \in Seq(Statuses)
    BY <2>2, <2>4, Zenon DEF Solid, Turned
  <2> QED BY <2>5, <2>6, <2>7, <2>9, <2>10, <2>11
<1>9. CASE Inside
  <2>1. Busy({")"}) /\ Joins(symbol_stack, process_stack, 2, Len(text) - 1)
        /\ Saved(symbol_stack, 1, priority_stack)
    BY <1>9, Zenon DEF Inside
  <2>2. current_input.key = ")"
    BY <2>1 DEF Busy, Symbol
  <2>3. inside.to = Len(text) - 1 /\ inside.from = symbol_stack[Len(symbol_stack)].to + 2
    BY <1>3, <2>1 DEF Joins, inside
  <2>4. value = [inside EXCEPT !.from = inside.from - 1, !.to = inside.to + 1]
    BY <2>2 DEF value
  <2>5. symbol_stack[Len(symbol_stack)].to \in Nat
    <3>1. b \in 2 .. 3 /\ b <= Len(symbol_stack)
      BY <1>5, Zenon DEF Solid, Outermost
    <3>2. Len(symbol_stack) \in 1 .. Len(symbol_stack)
      BY <1>4, <3>1
    <3> QED BY <1>4, <3>2, SymbolAt
  <2>6. /\ value \in Symbols /\ value.key = inside.key
        /\ value.from = symbol_stack[Len(symbol_stack)].to + 1 /\ value.to = Len(text)
    <3>1. inside.from - 1 \in Nat /\ inside.to + 1 \in Nat
          /\ inside.from - 1 = symbol_stack[Len(symbol_stack)].to + 1 /\ inside.to + 1 = Len(text)
      <4> DEFINE f == inside.from
                 t == inside.to
                 u == symbol_stack[Len(symbol_stack)].to
                 m == Len(text)
      <4>1. f \in Nat /\ t \in Nat /\ u \in Nat /\ m \in Nat /\ t = m - 1 /\ f = u + 2
        BY <1>4, <1>6, <2>3, <2>5, Zenon
      <4> HIDE DEF f, t, u, m
      <4>2. f - 1 \in Nat /\ t + 1 \in Nat /\ f - 1 = u + 1 /\ t + 1 = m
        BY ONLY <4>1
      <4> QED BY <4>2 DEF f, t, u, m
    <3> QED BY ONLY <1>6, <2>4, <3>1 DEF Symbols
  <2>7. value.from > 0 /\ value.from <= value.to /\ value.to <= Len(text)
        /\ value.from <= inside.from /\ inside.to <= value.to
  <3> DEFINE f == inside.from
             t == inside.to
             u == symbol_stack[Len(symbol_stack)].to
             m == Len(text)
             vf == value.from
             vt == value.to
  <3>1. /\ f \in Nat /\ t \in Nat /\ u \in Nat /\ m \in Nat /\ f <= t /\ t = m - 1
        /\ f = u + 2 /\ vf = u + 1 /\ vt = m
    BY <1>4, <1>6, <2>3, <2>5, <2>6, Zenon
  <3> HIDE DEF f, t, u, m, vf, vt
  <3>2. vf > 0 /\ vf <= vt /\ vt <= m /\ vf <= f /\ t <= vt
    BY ONLY <3>1
  <3> QED BY <3>2 DEF f, t, u, m, vf, vt
  <2>8. /\ Base(b)' /\ Cardinality(Parens(symbol_stack')) = Cardinality(Parens(symbol_stack))
        /\ symbol_stack'[Len(symbol_stack')] = value
        /\ Stretches(symbol_stack', Len(text)) /\ Stretches(process_stack', Len(text))
        /\ status_stack' \in Seq(Statuses)
    BY <1>8, <2>6, <2>7
  <2>9. /\ Last(priority_stack) \in 1 .. 255 /\ Pop(priority_stack, 1) \in Seq(1 .. 255)
        /\ Len(Pop(priority_stack, 1)) = Len(priority_stack) - 1
        /\ Cardinality(Parens(symbol_stack)) \in Nat
        /\ Cardinality(Parens(symbol_stack)) <= Len(priority_stack) - 1
    BY <1>1, <2>1, SavedIs
  <2>10. last_priority' = Last(priority_stack) /\ priority_stack' = Pop(priority_stack, 1)
         /\ pc' = "reading"
    BY <1>3, <2>2 DEF leave_parentheses
  <2>11. Saved(symbol_stack', 0, priority_stack')
    BY <2>8, <2>9, <2>10 DEF Saved
  <2>12. AtReading(b)'
    <3>1. Len(process_stack') = 0
      BY <1>3
    <3>2. symbol_stack'[Len(symbol_stack')].to = Len(text')
      BY <1>7, <2>6, <2>8
    <3> QED BY <2>8, <2>10, <2>11, <3>1, <3>2, Zenon DEF AtReading
  <2>13. "reading" \in Phase
    BY DEF Phase
  <2>14. Typed'
    BY <1>1, <1>7, <2>8, <2>9, <2>10, <2>13, Zenon DEF Typed
  <2> QED BY <2>12, <2>14, Zenon DEF EInv, Phases
<1>10. CASE ~Inside
  <2>1. Busy(Ends) /\ Joins(symbol_stack, process_stack, 1, Len(text) - 1)
        /\ Saved(symbol_stack, 0, priority_stack)
    BY <1>5, <1>10
  <2>2. current_input.key # ")"
    <3>1. current_input.key \in Ends
      BY <2>1 DEF Busy, Symbol
    <3>2. ")" \notin Ends
      BY Keys DEF Ends
    <3> QED BY <3>1, <3>2
  <2>3. inside.to = Len(text) - 1 /\ inside.from = symbol_stack[Len(symbol_stack)].to + 1
    BY <1>3, <2>1 DEF Joins, inside
  <2>4. value = inside
    BY <2>2 DEF value
  <2>5. /\ value \in Symbols /\ value.key = inside.key /\ value.from > 0
        /\ value.from <= value.to /\ value.to <= Len(text)
        /\ value.from <= inside.from /\ inside.to <= value.to
        /\ value.from = symbol_stack[Len(symbol_stack)].to + 1
    BY <1>6, <2>3, <2>4
  <2>6. /\ Base(b)' /\ Cardinality(Parens(symbol_stack')) = Cardinality(Parens(symbol_stack))
        /\ Len(symbol_stack') > b /\ symbol_stack'[Len(symbol_stack')] = value
        /\ status_stack'[Len(status_stack')] = 2
        /\ Stretches(symbol_stack', Len(text)) /\ Stretches(process_stack', Len(text))
        /\ status_stack' \in Seq(Statuses)
    BY <1>8, <2>5
  <2>7. pc' = "returned" /\ priority_stack' = priority_stack /\ last_priority' = last_priority
    BY <1>3, <2>2
  <2>8. Saved(symbol_stack', 0, priority_stack')
    BY <2>1, <2>6, <2>7 DEF Saved
  <2>9. AtReturned(b)'
    <3>1. Len(process_stack') = 0
      BY <1>3
    <3>2. symbol_stack'[Len(symbol_stack')].to = Len(text') - 1
      BY <1>7, <2>3, <2>4, <2>6
    <3>3. Busy(Ends)'
      BY <1>7, <2>1, Zenon DEF Busy
    <3> QED BY <2>6, <2>7, <2>8, <3>1, <3>2, <3>3, Zenon DEF AtReturned
  <2>10. "returned" \in Phase
    BY DEF Phase
  <2>11. Typed'
    BY <1>1, <1>7, <2>6, <2>7, <2>10, Zenon DEF Typed
  <2> QED BY <2>9, <2>11, Zenon DEF EInv, Phases
<1> QED BY <1>9, <1>10

-----------------------------------------------------------------------------
(* The other steps. *)

LEMMA StepCall == ASSUME EInv, reduce_operatorbrace PROVE EInv'
<1> DEFINE m == Len(symbol_stack)
           top == symbol_stack[m]
           x == Symbol("value", top.from, Len(text))
           zs == Pop(symbol_stack, 1)
           zt == Pop(status_stack, 1)
<1>1. Typed /\ \E b \in 2 .. 3 : AtCalling(b)
  BY CallingIs, Zenon DEF reduce_operatorbrace
<1>2. PICK b \in 2 .. 3 : AtCalling(b)
  BY <1>1
<1>3. /\ process_stack' = <<>>
      /\ symbol_stack' = Append(zs, Symbol("value", top.from, current_input.to))
      /\ status_stack' = Append(zt, 2)
      /\ leave_parentheses
      /\ pc' = "reading"
      /\ UNCHANGED <<current_input, flag, text, applied, before>>
  BY Zenon DEF reduce_operatorbrace, Top, Last
<1>4. /\ symbol_stack \in Seq(Symbols) /\ process_stack \in Seq(Symbols)
      /\ status_stack \in Seq(Statuses) /\ priority_stack \in Seq(1 .. 255)
      /\ text \in Seq(TextKey) /\ Len(text) \in Nat
  BY <1>1, TypesAre
<1>5. /\ Solid(symbol_stack, status_stack, b, text) /\ Turned(process_stack, text)
      /\ Covered(applied, symbol_stack, process_stack) /\ Once(applied)
      /\ Busy({")"}) /\ Joins(symbol_stack, process_stack, 2, Len(text) - 1)
      /\ Saved(symbol_stack, 1, priority_stack)
      /\ symbol_stack[Len(symbol_stack)].key = "id"
  BY <1>2, Zenon DEF AtCalling, Base, Inside
<1>6. b \in Nat /\ b >= 2 /\ b <= m /\ m \in Nat /\ Len(status_stack) = m
  <2>1. b \in 2 .. 3 /\ b <= m /\ Len(status_stack) = m
    BY <1>5, Zenon DEF Solid, Outermost
  <2> QED BY <1>4, <2>1
<1>7. m > b
  <2>1. m \in b .. m
    BY <1>6
  <2>2. m \in b + 1 .. m
    BY <1>5, <2>1, NotAtTheBottom
  <2> QED BY <1>6, <2>2
<1>8. /\ m - 1 \in b .. m /\ m - 1 \in 1 .. m /\ m \in 1 .. m
      /\ top \in Symbols /\ Within(top, Len(text)) /\ IsItem(top, text)
      /\ top.from = symbol_stack[m - 1].to + 1
  BY <1>5, <1>7, TopIs
<1>9. top.from \in Nat /\ top.to \in Nat /\ top.from > 0 /\ top.from <= top.to /\ top.to <= Len(text)
  BY <1>4, <1>8, SymbolAt DEF Within, IsItem
<1>10. /\ zs = SubSeq(symbol_stack, 1, m - 1) /\ zt = SubSeq(status_stack, 1, m - 1)
       /\ zs \in Seq(Symbols) /\ zt \in Seq(Statuses) /\ Len(zs) = m - 1 /\ Len(zt) = m - 1
       /\ \A i \in 1 .. m - 1 : zs[i] = symbol_stack[i]
  <2>1. 1 \in Nat /\ 1 <= Len(symbol_stack) /\ 1 <= Len(status_stack)
    BY <1>6
  <2>2. /\ zs = SubSeq(symbol_stack, 1, m - 1) /\ zs \in Seq(Symbols) /\ Len(zs) = m - 1
        /\ \A i \in 1 .. m - 1 : zs[i] = symbol_stack[i]
    BY <1>4, <2>1, PopIs, ZenonT(60)
  <2>3. zt = SubSeq(status_stack, 1, Len(status_stack) - 1) /\ zt \in Seq(Statuses)
        /\ Len(zt) = Len(status_stack) - 1
    BY <1>4, <2>1, PopIs, ZenonT(60)
  <2> QED BY <1>6, <2>2, <2>3, Zenon
<1>11. Solid(zs, zt, b, text)
  BY <1>4, <1>5, <1>8, <1>10, SolidCut
<1>12. zs[Len(zs)].to + 1 = top.from
  <2>1. m - 1 \in 1 .. m - 1
    BY <1>6, <1>7
  <2> QED BY <1>8, <1>10, <2>1
<1>13. x \in Symbols /\ x.key = "value" /\ x.from = top.from /\ x.to = Len(text)
  <2> DEFINE f == top.from
             t == Len(text)
  <2>1. f \in Nat /\ t \in Nat /\ x = Symbol("value", f, t)
    BY <1>4, <1>9
  <2> HIDE DEF f, t, x
  <2>2. x \in Symbols /\ x.key = "value" /\ x.from = f /\ x.to = t
    BY ONLY <2>1 DEF Symbol, Symbols
  <2> QED BY <2>2 DEF f, t
<1>14. current_input.to = Len(text)
  BY <1>5 DEF Busy, Symbol
<1>15. symbol_stack' = Append(zs, x) /\ status_stack' = Append(zt, 2)
  BY <1>3, <1>14
<1> HIDE DEF m, top, x, zs, zt
<1>16. Within(x, Len(text)) /\ IsItem(x, text)
       /\ 2 = (IF x.key \in OperandKey THEN 2 ELSE 7)
       /\ x.key \notin Operator /\ x.key # "("
  <2>1. x.from > 0 /\ x.from <= x.to /\ x.to <= Len(text) /\ x.key \in OperandKey
    <3>1. x.key \in OperandKey
      BY ONLY <1>13 DEF OperandKey
    <3> DEFINE f == top.from
               t == top.to
               n == Len(text)
    <3>2. f \in Nat /\ t \in Nat /\ n \in Nat /\ f > 0 /\ f <= t /\ t <= n
      BY <1>4, <1>9
    <3> HIDE DEF f, t, n
    <3>3. f > 0 /\ f <= n /\ n <= n
      BY ONLY <3>2
    <3> QED BY <1>13, <3>1, <3>3 DEF f, n
  <2>2. Within(x, Len(text)) /\ IsItem(x, text)
    BY <2>1 DEF Within, IsItem
  <2> QED BY <2>1, <2>2, Keys
<1>17. Solid(symbol_stack', status_stack', b, text)
  BY <1>4, <1>11, <1>12, <1>13, <1>15, <1>16, SolidPush
<1>18. Len(process_stack') = 0 /\ process_stack' \in Seq(Symbols)
  BY <1>3
<1>19. Turned(process_stack', text)
  BY <1>18, NothingTurned
<1>20. Len(symbol_stack') = m /\ (\A i \in 1 .. m - 1 : symbol_stack'[i] = symbol_stack[i])
       /\ symbol_stack'[m] = x
  <2>1. /\ Len(symbol_stack') = (m - 1) + 1 /\ (\A i \in 1 .. m - 1 : symbol_stack'[i] = zs[i])
        /\ symbol_stack'[(m - 1) + 1] = x
    BY <1>10, <1>13, <1>15, PushIs
  <2>2. (m - 1) + 1 = m
    BY <1>6
  <2> QED BY <1>10, <2>1, <2>2
<1>21. Numbered(applied)
  BY <1>1, <1>4, AppliedIs DEF Typed
<1>22. Covered(applied, symbol_stack', process_stack')
  <2>1. ASSUME NEW a \in applied, NEW i \in 1 .. m, In(a, symbol_stack[i])
        PROVE  \E j \in 1 .. Len(symbol_stack') : In(a, symbol_stack'[j])
    <3>1. CASE i = m
      <4>1. top.from <= a.from /\ a.to <= top.to /\ a.from \in Nat /\ a.to \in Nat
        BY <1>21, <2>1, <3>1 DEF In, Numbered, top
      <4>2. In(a, x)
        BY <1>4, <1>9, <1>13, <4>1 DEF In
      <4> QED BY <1>8, <1>20, <4>2
    <3>2. CASE i # m
      <4>1. i \in 1 .. m - 1 /\ i \in 1 .. Len(symbol_stack')
        BY <1>6, <1>20, <3>2
      <4> QED BY <1>20, <2>1, <4>1
    <3> QED BY <3>1, <3>2
  <2>2. ASSUME NEW a \in applied, NEW i \in 1 .. Len(process_stack), In(a, process_stack[i])
        PROVE  \E j \in 1 .. Len(symbol_stack') : In(a, symbol_stack'[j])
    <3> DEFINE n == Len(process_stack)
               f == process_stack[n].from
               t == process_stack[n].to
    <3>1. n \in Nat /\ n \in 1 .. n /\ i \in 1 .. n
      BY <1>4
    <3>2. \A j \in 1 .. n : process_stack[j].from \in Nat /\ process_stack[j].to \in Nat
      BY <1>4, SymbolAt
    <3>3. \A j \in 1 .. n : Within(process_stack[j], Len(text))
      BY <1>5, Zenon DEF Turned, Stretches
    <3>4. i # n => t < process_stack[i].from
      <4>1. i # n => n \in i + 1 .. n
        BY <3>1
      <4>2. \A k \in 1 .. n : \A j \in k + 1 .. n : process_stack[j].to < process_stack[k].from
        BY <1>5, Zenon DEF Turned
      <4> QED BY <3>1, <4>1, <4>2
    <3>5. f = top.to + 2
      BY <1>5, Zenon DEF Joins, top, m
    <3>6. f <= t /\ f \in Nat /\ t \in Nat
      BY <3>1, <3>2, <3>3 DEF Within
    <3>7. process_stack[i].from \in Nat /\ process_stack[i].to \in Nat
          /\ process_stack[i].from <= a.from /\ a.to <= process_stack[i].to
          /\ process_stack[i].to <= Len(text) /\ a.from \in Nat /\ a.to \in Nat
      BY <1>21, <2>2, <3>1, <3>2, <3>3 DEF In, Numbered, Within
    <3> DEFINE h == process_stack[i].from
    <3>8. h \in Nat /\ f <= h
      <4>1. CASE i = n
        BY <3>6, <4>1
      <4>2. CASE i # n
        BY <3>4, <3>6, <3>7, <4>2
      <4> QED BY <4>1, <4>2
    <3>9. h <= a.from
      BY <3>7
    <3> HIDE DEF n, f, t, h
    <3>10. In(a, x)
      <4>1. top.from <= a.from
        BY <1>9, <3>5, <3>6, <3>7, <3>8, <3>9, SMTT(30)
      <4>2. a.to <= Len(text)
        BY <1>4, <3>7
      <4> QED BY <1>13, <4>1, <4>2 DEF In
    <3> QED BY <1>8, <1>20, <3>10
  <2> QED BY <1>5, <2>1, <2>2, CoveredMoves, Zenon DEF m
<1>23. /\ Last(priority_stack) \in 1 .. 255 /\ Pop(priority_stack, 1) \in Seq(1 .. 255)
       /\ Len(Pop(priority_stack, 1)) = Len(priority_stack) - 1
       /\ Cardinality(Parens(symbol_stack)) \in Nat
       /\ Cardinality(Parens(symbol_stack)) <= Len(priority_stack) - 1
  BY <1>1, <1>5, SavedIs
<1>24. last_priority' = Last(priority_stack) /\ priority_stack' = Pop(priority_stack, 1)
  BY <1>3 DEF leave_parentheses
<1>25. Saved(symbol_stack', 0, priority_stack')
  <2>1. Cardinality(Parens(symbol_stack')) = Cardinality(Parens(zs)) + 0
    BY <1>10, <1>13, <1>15, <1>16, ParensPush
  <2>2. m - 1 \in 0 .. Len(symbol_stack)
    BY <1>8 DEF m
  <2>3. Cardinality(Parens(zs)) \in Nat
        /\ Cardinality(Parens(zs)) <= Cardinality(Parens(symbol_stack))
    BY <1>4, <1>10, <2>2, ParensCut
  <2>4. Len(priority_stack) \in Nat
    BY <1>4
  <2> QED BY <1>23, <1>24, <2>1, <2>3, <2>4 DEF Saved
<1>26. AtReading(b)'
  <2>1. Base(b)'
    BY <1>3, <1>5, <1>17, <1>19, <1>22, Zenon DEF Base
  <2>2. symbol_stack'[Len(symbol_stack')].to = Len(text')
    BY <1>3, <1>13, <1>20
  <2> QED BY <1>3, <1>18, <1>25, <2>1, <2>2, Zenon DEF AtReading
<1>27. Typed'
  <2>1. Stretches(symbol_stack', Len(text)) /\ Stretches(process_stack', Len(text))
        /\ status_stack' \in Seq(Statuses)
    BY <1>17, <1>19, Zenon DEF Solid, Turned
  <2>2. "reading" \in Phase
    BY DEF Phase
  <2> QED BY <1>1, <1>3, <1>23, <1>24, <2>1, <2>2, Zenon DEF Typed
<1> QED BY <1>26, <1>27, Zenon DEF EInv, Phases

LEMMA StepThrow == ASSUME EInv, no_such_function PROVE EInv'
<1>1. pc' = "threw" /\ UNCHANGED <<symbol_stack, status_stack, process_stack, priority_stack,
                                   last_priority, current_input, flag, text, applied, before>>
  BY Zenon DEF no_such_function
<1>2. "threw" \in Phase /\ "threw" \notin Running
  BY DEF Phase, Running
<1>3. Typed'
  BY <1>1, <1>2, Zenon DEF EInv, Typed
<1> QED BY <1>1, <1>2, <1>3, Zenon DEF EInv

LEMMA StepLoop == ASSUME EInv, loop PROVE EInv'
<1>1. Typed /\ \E b \in 2 .. 3 : AtReturned(b)
  BY ReturnedIs, Zenon DEF loop
<1>2. PICK b \in 2 .. 3 : AtReturned(b)
  BY <1>1
<1>3. pc' = "walking" /\ flag' = FALSE
      /\ UNCHANGED <<symbol_stack, status_stack, process_stack, priority_stack,
                     last_priority, current_input, text, applied, before>>
  BY Zenon DEF loop, Call
<1>4. /\ Base(b) /\ Busy(Ends) /\ Len(symbol_stack) > b /\ Len(process_stack) = 0
      /\ status_stack[Len(status_stack)] = 2
      /\ symbol_stack[Len(symbol_stack)].to = Len(text) - 1
      /\ Saved(symbol_stack, 0, priority_stack)
  BY <1>2, Zenon DEF AtReturned
<1>5. Base(b)'
  BY <1>3, <1>4, Zenon DEF Base
<1>6. Busy(Ends)'
  BY <1>3, <1>4, Zenon DEF Busy
<1>7. AtWalking(b)'
  BY <1>3, <1>4, <1>5, <1>6, Zenon DEF AtWalking
<1>8. "walking" \in Phase
  BY DEF Phase
<1>9. Typed'
  BY <1>1, <1>3, <1>8, Zenon DEF Typed
<1> QED BY <1>7, <1>9, Zenon DEF EInv, Phases

LEMMA StepPushAfter == ASSUME EInv, push_after_step PROVE EInv'
<1> DEFINE x == current_input
           n == Len(text)
<1>1. Typed /\ \E b \in 2 .. 3 : AtReturned(b)
  BY ReturnedIs, Zenon DEF push_after_step
<1>2. PICK b \in 2 .. 3 : AtReturned(b)
  BY <1>1
<1>3. /\ x.key # "SEMICOLON" /\ pc' = "reading"
      /\ symbol_stack' = Append(symbol_stack, x) /\ status_stack' = Append(status_stack, 7)
      /\ UNCHANGED <<process_stack, priority_stack, last_priority, current_input, flag,
                     text, applied, before>>
  BY Zenon DEF push_after_step, Pushed
<1>4. /\ symbol_stack \in Seq(Symbols) /\ process_stack \in Seq(Symbols)
      /\ status_stack \in Seq(Statuses) /\ priority_stack \in Seq(1 .. 255)
      /\ text \in Seq(TextKey) /\ n \in Nat
  BY <1>1, TypesAre
<1>5. /\ Solid(symbol_stack, status_stack, b, text) /\ Turned(process_stack, text)
      /\ Covered(applied, symbol_stack, process_stack) /\ Once(applied)
      /\ Busy(Ends) /\ Len(symbol_stack) > b /\ Len(process_stack) = 0
      /\ status_stack[Len(status_stack)] = 2
      /\ symbol_stack[Len(symbol_stack)].to = n - 1
      /\ Saved(symbol_stack, 0, priority_stack)
  BY <1>2, Zenon DEF AtReturned, Base
<1>6. n > 0 /\ text[n] \in Ends /\ x = Symbol(text[n], n, n)
  BY <1>5, Zenon DEF Busy
<1> HIDE DEF x, n
<1>7. x \in Symbols /\ x.key = text[n] /\ x.from = n /\ x.to = n
  <2> DEFINE k == text[n]
  <2>1. k \in Key \cup {"value"} /\ n \in Nat /\ x = Symbol(k, n, n)
    BY <1>4, <1>6, Keys, Zenon DEF Ends, TextKey
  <2> HIDE DEF k
  <2>2. x \in Symbols /\ x.key = k /\ x.from = n /\ x.to = n
    BY ONLY <2>1 DEF Symbol, Symbols
  <2> QED BY <2>2 DEF k
<1>8. text[n] \in Operator
  BY <1>3, <1>6, <1>7 DEF Ends
<1>9. Within(x, n) /\ IsItem(x, text)
      /\ 7 = (IF x.key \in OperandKey THEN 2 ELSE 7) /\ x.key # "("
  <2>1. x.key \notin OperandKey /\ x.key # "("
    BY <1>7, <1>8, Keys
  <2>2. Within(x, n)
    BY <1>4, <1>7 DEF Within
  <2>3. IsItem(x, text)
    BY <1>4, <1>6, <1>7, <1>8 DEF IsItem
  <2> QED BY <2>1, <2>2, <2>3
<1>10. x.from = symbol_stack[Len(symbol_stack)].to + 1
  BY <1>4, <1>5, <1>6, <1>7
<1>11. Solid(symbol_stack', status_stack', b, text)
  BY <1>3, <1>4, <1>5, <1>7, <1>9, <1>10, SolidPush DEF n
<1>12. Covered(applied, symbol_stack', process_stack)
  BY <1>3, <1>4, <1>5, <1>7, CoveredPush
<1>13. Saved(symbol_stack', 0, priority_stack)
  <2>1. Cardinality(Parens(symbol_stack')) = Cardinality(Parens(symbol_stack)) + 0
    BY <1>3, <1>4, <1>7, <1>9, ParensPush
  <2>2. Cardinality(Parens(symbol_stack)) \in Nat
    BY <1>4, ParensCount
  <2> QED BY <1>5, <2>1, <2>2 DEF Saved
<1>14. symbol_stack'[Len(symbol_stack')].to = n
  BY <1>3, <1>4, <1>7, PushIs
<1>15. AtReading(b)'
  <2>1. Base(b)'
    BY <1>3, <1>5, <1>11, <1>12, Zenon DEF Base
  <2> QED BY <1>3, <1>5, <1>13, <1>14, <2>1, Zenon DEF AtReading, n
<1>16. Typed'
  <2>1. Stretches(symbol_stack', Len(text)) /\ status_stack' \in Seq(Statuses)
    BY <1>11, Zenon DEF Solid
  <2>2. "reading" \in Phase
    BY DEF Phase
  <2> QED BY <1>1, <1>3, <2>1, <2>2, Zenon DEF Typed
<1> QED BY <1>15, <1>16, Zenon DEF EInv, Phases

LEMMA StepFinish == ASSUME EInv, finish PROVE EInv'
<1>1. Typed /\ \E b \in 2 .. 3 : AtReturned(b)
  BY ReturnedIs, Zenon DEF finish
<1>2. /\ symbol_stack \in Seq(Symbols) /\ status_stack \in Seq(Statuses)
      /\ Len(text) \in Nat /\ Stretches(symbol_stack, Len(text))
      /\ Len(symbol_stack) \in Nat /\ Len(status_stack) = Len(symbol_stack) /\ Len(symbol_stack) >= 2
  <2>1. PICK b \in 2 .. 3 : AtReturned(b)
    BY <1>1
  <2>2. b <= Len(symbol_stack) /\ Len(status_stack) = Len(symbol_stack)
    BY <2>1, Zenon DEF AtReturned, Base, Solid, Outermost
  <2>3. Stretches(symbol_stack, Len(text))
    BY <1>1, Zenon DEF Typed
  <2> QED BY <1>1, <2>2, <2>3, TypesAre
<1>3. /\ last_priority' = 255 /\ pc' \in {"returns", "done"}
      /\ \E n \in Nat : /\ n <= Len(symbol_stack)
                        /\ symbol_stack' = Pop(symbol_stack, n) /\ status_stack' = Pop(status_stack, n)
      /\ UNCHANGED <<process_stack, priority_stack, current_input, flag, text, applied, before>>
  <2> DEFINE returns == status_stack[Len(status_stack) - 1] = 16
  <2>1. /\ last_priority' = 255 /\ pc' = (IF returns THEN "returns" ELSE "done")
        /\ UNCHANGED <<process_stack, priority_stack, current_input, flag, text, applied, before>>
    BY Zenon DEF finish
  <2>2. CASE returns
    <3>1. symbol_stack' = Pop(symbol_stack, 2) /\ status_stack' = Pop(status_stack, 2)
      BY <2>2, Zenon DEF finish
    <3>2. 2 \in Nat /\ 2 <= Len(symbol_stack)
      BY <1>2
    <3> QED BY <2>1, <3>1, <3>2
  <2>3. CASE ~returns
    <3>1. PICK k \in 0 .. Len(symbol_stack) \div 2 :
            /\ 2 * k + 1 < Len(symbol_stack)
            /\ symbol_stack' = Pop(symbol_stack, 2 * k + 1)
            /\ status_stack' = Pop(status_stack, 2 * k + 1)
      BY <2>3, Zenon DEF finish
    <3>2. 2 * k + 1 \in Nat /\ 2 * k + 1 <= Len(symbol_stack)
      BY <1>2, <3>1
    <3> QED BY <2>1, <3>1, <3>2
  <2> QED BY <2>2, <2>3
<1>4. PICK n \in Nat : /\ n <= Len(symbol_stack)
                       /\ symbol_stack' = Pop(symbol_stack, n) /\ status_stack' = Pop(status_stack, n)
  BY <1>3
<1>5. Stretches(symbol_stack', Len(text))
  <2>1. symbol_stack' = SubSeq(symbol_stack, 1, Len(symbol_stack) - n)
        /\ Len(symbol_stack) - n \in 0 .. Len(symbol_stack)
    BY <1>2, <1>4, PopIs, Zenon
  <2> QED BY <1>2, <2>1, StretchesCut
<1>6. status_stack' \in Seq(Statuses)
  <2>1. n <= Len(status_stack)
    BY <1>2, <1>4
  <2> QED BY <1>2, <1>4, <2>1, PopIs
<1>7. pc' \in Phase /\ pc' \notin Running /\ last_priority' \in 1 .. 255
  BY <1>3 DEF Phase, Running
<1>8. Typed'
  BY <1>1, <1>3, <1>5, <1>6, <1>7, Zenon DEF Typed
<1> QED BY <1>7, <1>8, Zenon DEF EInv

-----------------------------------------------------------------------------
(* The first state, and every step. *)

LEMMA StartIs ==
  ASSUME NEW ss \in Starts
  PROVE  /\ ss \in Seq(Symbols) /\ Len(ss) \in 2 .. 3
         /\ \A i \in 1 .. Len(ss) : /\ ss[i].from = 0 /\ ss[i].to = 0
                                    /\ ss[i].key \in {"fn", "LBRACES", "return"}
<1>1. {"fn", "LBRACES", "return"} \subseteq Key
  BY DEF Key, Keyword, Punchation
<1>2. \A k \in {"fn", "LBRACES", "return"} :
        Outer(k) \in Symbols /\ Outer(k).from = 0 /\ Outer(k).to = 0 /\ Outer(k).key = k
  <2>1. SUFFICES ASSUME NEW k \in {"fn", "LBRACES", "return"}
                 PROVE  /\ Outer(k) \in Symbols /\ Outer(k).from = 0 /\ Outer(k).to = 0
                        /\ Outer(k).key = k
    OBVIOUS
  <2>2. k \in Key \cup {"value"} /\ 0 \in Nat
    BY <1>1
  <2> QED BY ONLY <2>2 DEF Outer, Symbol, Symbols
<1> DEFINE f == Outer("fn")
           l == Outer("LBRACES")
           r == Outer("return")
<1>3. ss = <<f, l>> \/ ss = <<f, l, r>>
  BY DEF Starts
<1>4. /\ f \in Symbols /\ l \in Symbols /\ r \in Symbols
      /\ f.from = 0 /\ f.to = 0 /\ l.from = 0 /\ l.to = 0 /\ r.from = 0 /\ r.to = 0
      /\ f.key \in {"fn", "LBRACES", "return"} /\ l.key \in {"fn", "LBRACES", "return"}
      /\ r.key \in {"fn", "LBRACES", "return"}
  BY <1>2
<1> HIDE DEF f, l, r
<1>5. CASE ss = <<f, l>>
  <2>1. ss \in Seq(Symbols) /\ Len(ss) = 2 /\ ss[1] = f /\ ss[2] = l
    BY ONLY <1>4, <1>5
  <2>2. \A i \in 1 .. Len(ss) : ss[i] = f \/ ss[i] = l
    BY <2>1
  <2> QED BY <1>4, <2>1, <2>2
<1>6. CASE ss = <<f, l, r>>
  <2>1. ss \in Seq(Symbols) /\ Len(ss) = 3 /\ ss[1] = f /\ ss[2] = l /\ ss[3] = r
    BY ONLY <1>4, <1>6
  <2>2. \A i \in 1 .. Len(ss) : ss[i] = f \/ ss[i] = l \/ ss[i] = r
    BY <2>1
  <2> QED BY <1>4, <2>1, <2>2
<1> QED BY <1>3, <1>5, <1>6

LEMMA FirstState == ASSUME Init PROVE EInv
<1> DEFINE b == Len(symbol_stack)
<1>1. /\ symbol_stack \in Starts
      /\ status_stack = [i \in DOMAIN symbol_stack |-> StatusOf(symbol_stack[i].key)]
      /\ process_stack = <<>> /\ priority_stack = <<>> /\ last_priority = 255
      /\ flag = FALSE /\ pc = "reading" /\ text = <<>> /\ applied = {}
  BY Zenon DEF Init
<1>2. /\ symbol_stack \in Seq(Symbols) /\ b \in 2 .. 3
      /\ \A i \in 1 .. b : /\ symbol_stack[i].from = 0 /\ symbol_stack[i].to = 0
                           /\ symbol_stack[i].key \in {"fn", "LBRACES", "return"}
  BY <1>1, StartIs
<1>3. Len(text) = 0 /\ text \in Seq(TextKey) /\ Len(process_stack) = 0
      /\ process_stack \in Seq(Symbols) /\ Len(priority_stack) = 0
      /\ priority_stack \in Seq(1 .. 255)
  BY <1>1
<1>4. status_stack \in Seq(Statuses) /\ Len(status_stack) = b
      /\ \A i \in 1 .. b : status_stack[i] \in {14, 15, 16}
  <2>1. \A k \in {"fn", "LBRACES", "return"} : StatusOf(k) \in {14, 15, 16}
    BY DEF StatusOf
  <2>2. DOMAIN symbol_stack = 1 .. b
    BY <1>2
  <2>3. status_stack \in [1 .. b -> {14, 15, 16}]
    BY <1>1, <1>2, <2>1, <2>2
  <2> HIDE DEF b
  <2>4. status_stack \in Seq({14, 15, 16}) /\ Len(status_stack) = b
    BY ONLY <1>2, <2>3
  <2>5. status_stack \in Seq(Statuses)
    BY ONLY <2>4 DEF Statuses
  <2> QED BY <2>3, <2>4, <2>5
<1> HIDE DEF b
<1>5. Stretches(symbol_stack, Len(text)) /\ Stretches(process_stack, Len(text))
  <2>1. \A i \in 1 .. b : Within(symbol_stack[i], 0)
    BY <1>2 DEF Within
  <2>2. \A i : i \notin 1 .. Len(process_stack)
    BY <1>3
  <2> QED BY <1>2, <1>3, <2>1, <2>2 DEF Stretches, b
<1>6. Turned(process_stack, text)
  BY <1>3, NothingTurned
<1>7. Outermost(symbol_stack, status_stack, b)
  BY <1>2, <1>4 DEF Outermost, b
<1>8. Placed(symbol_stack, status_stack, b, text)
  <2>1. \A i : i \notin b + 1 .. b
    BY <1>2
  <2> QED BY <2>1, Zenon DEF Placed, b
<1>9. Base(b)
  <2>1. Covered(applied, symbol_stack, process_stack) /\ Once(applied)
    BY <1>1, Zenon DEF Covered, Once
  <2> QED BY <1>4, <1>5, <1>6, <1>7, <1>8, <2>1, Zenon DEF Base, Solid
<1>10. Saved(symbol_stack, 0, priority_stack)
  <2>1. \A i \in 1 .. b : symbol_stack[i].key # "("
    BY <1>2
  <2>2. Parens(symbol_stack) = {}
    BY <2>1, Zenon DEF Parens, b
  <2> QED BY <1>3, <2>2, FS_EmptySet DEF Saved
<1>11. symbol_stack[Len(symbol_stack)].to = Len(text)
  <2>1. b \in 1 .. b
    BY <1>2
  <2> QED BY <1>2, <1>3, <2>1, Zenon DEF b
<1>12. AtReading(b)
  BY <1>1, <1>3, <1>9, <1>10, <1>11, Zenon DEF AtReading
<1>13. Typed
  <2>1. "reading" \in Phase /\ 255 \in 1 .. 255 /\ FALSE \in BOOLEAN
    BY DEF Phase
  <2> QED BY <1>1, <1>3, <1>4, <1>5, <2>1, Zenon DEF Typed
<1> QED BY <1>2, <1>12, <1>13, Zenon DEF EInv, Phases

LEMMA EveryStep == ASSUME EInv, [Next]_vars PROVE EInv'
<1>1. CASE UNCHANGED vars
  <2>1. UNCHANGED <<symbol_stack, status_stack, process_stack, priority_stack, last_priority,
                    current_input, flag, pc, text, applied>>
    BY <1>1, Zenon DEF vars, machine
  <2>2. Typed'
    BY <2>1, Zenon DEF EInv, Typed
  <2>3. ASSUME NEW b \in 2 .. 3, Phases(b) PROVE Phases(b)'
    <3>1. Base(b) => Base(b)'
      BY <2>1, Zenon DEF Base
    <3>2. \A keys : Busy(keys) => Busy(keys)'
      BY <2>1, Zenon DEF Busy
    <3>3. Inside => Inside'
      BY <2>1, <3>2, Zenon DEF Inside
    <3>4. AtReading(b) => AtReading(b)'
      BY <2>1, <3>1, Zenon DEF AtReading
    <3>5. AtWalking(b) => AtWalking(b)'
      BY <2>1, <3>1, <3>2, Zenon DEF AtWalking
    <3>6. AtReturned(b) => AtReturned(b)'
      BY <2>1, <3>1, <3>2, Zenon DEF AtReturned
    <3>7. AtClearing(b) => AtClearing(b)'
      BY <2>1, <3>1, <3>2, <3>3, Zenon DEF AtClearing
    <3>8. AtCalling(b) => AtCalling(b)'
      BY <2>1, <3>1, <3>3, Zenon DEF AtCalling
    <3> QED BY <2>3, <3>4, <3>5, <3>6, <3>7, <3>8, Zenon DEF Phases
  <2>4. pc' \in Running => \E b \in 2 .. 3 : Phases(b)'
    BY <2>1, <2>3, Zenon DEF EInv
  <2> QED BY <2>2, <2>4, Zenon DEF EInv
<1>2. CASE Token
  BY <1>2, StepShift, StepEnter, StepPush, StepSolve, StepClose, Zenon DEF Token
<1>3. CASE Solving
  BY <1>3, StepAbsorb, StepStop, StepEvaluate, StepPushValue, StepCall, StepThrow,
     StepPushAfter, StepLoop, StepFinish, Zenon DEF Solving
<1> QED BY <1>1, <1>2, <1>3 DEF Next

-----------------------------------------------------------------------------
(* What the invariant gives: the types. *)

LEMMA TypesHold == ASSUME EInv PROVE TypeOK
<1>1. Typed
  BY Zenon DEF EInv
<1>2. Len(text) \in Nat
  BY <1>1, TypesAre
<1>3. ASSUME NEW ss, Stretches(ss, Len(text)), NEW i \in DOMAIN ss PROVE IsSymbol(ss[i])
  <2>1. ss \in Seq(Symbols) /\ i \in 1 .. Len(ss) /\ Within(ss[i], Len(text))
    BY <1>3 DEF Stretches
  <2>2. ss[i] \in Symbols /\ ss[i].from \in Nat /\ ss[i].to \in Nat
    BY <2>1, SymbolAt
  <2> DEFINE x == ss[i]
  <2> HIDE DEF x
  <2>3. x.key \in Key \cup {"value"}
    BY ONLY <2>2 DEF Symbols, x
  <2>4. x.from \in 0 .. Len(text) /\ x.to \in 0 .. Len(text) /\ x.from <= x.to
    BY <1>2, <2>1, <2>2 DEF Within, x
  <2> QED BY <2>3, <2>4, Zenon DEF IsSymbol, x
<1>4. \A stack \in {symbol_stack, process_stack} : \A i \in DOMAIN stack : IsSymbol(stack[i])
  <2>1. Stretches(symbol_stack, Len(text)) /\ Stretches(process_stack, Len(text))
    BY <1>1, Zenon DEF Typed
  <2> QED BY <1>3, <2>1
<1> QED BY <1>1, <1>4, Zenon DEF TypeOK, Typed, Statuses, TextKey

-----------------------------------------------------------------------------
(* What the invariant gives: nothing is lost. *)

\* The symbols of the expression, given how many stand under it.
Ordered(ss, b, ps) == SubSeq(ss, b + 1, Len(ss)) \o Reverse(ps)

Joined(x, y) == x \o y

LEMMA JoinedIs ==
  ASSUME NEW A, NEW x \in Seq(A), NEW y \in Seq(A)
  PROVE  /\ Joined(x, y) \in Seq(A) /\ Len(Joined(x, y)) = Len(x) + Len(y)
         /\ \A i \in 1 .. Len(x) : Joined(x, y)[i] = x[i]
         /\ \A i \in Len(x) + 1 .. Len(x) + Len(y) : Joined(x, y)[i] = y[i - Len(x)]
  BY DEF Joined

LEMMA ReverseIs ==
  ASSUME NEW A, NEW s \in Seq(A), NEW n, n = Len(s), NEW r, r = Reverse(s)
  PROVE  /\ r \in Seq(A) /\ Len(r) = n
         /\ \A i \in 1 .. n : r[i] = s[n + 1 - i]
<1>1. n \in Nat
  OBVIOUS
<1>2. r = [i \in 1 .. n |-> s[(n - i) + 1]]
  BY DEF Reverse
<1>3. \A i \in 1 .. n : (n - i) + 1 \in 1 .. n /\ (n - i) + 1 = n + 1 - i
  BY <1>1
<1>4. \A i \in 1 .. n : s[(n - i) + 1] \in A
  BY <1>3, ElementIs
<1>5. r \in [1 .. n -> A]
  BY ONLY <1>2, <1>4
<1>6. r \in Seq(A) /\ Len(r) = n
  BY ONLY <1>1, <1>5
<1>7. \A i \in 1 .. n : r[i] = s[n + 1 - i]
  <2>1. \A i \in 1 .. n : r[i] = s[(n - i) + 1]
    BY <1>2
  <2> QED BY <1>3, <2>1
<1> QED BY <1>6, <1>7

LEMMA OrderedIs ==
  ASSUME NEW ss \in Seq(Symbols), NEW ps \in Seq(Symbols), NEW b \in 0 .. Len(ss)
  PROVE  /\ Ordered(ss, b, ps) \in Seq(Symbols)
         /\ Len(Ordered(ss, b, ps)) = (Len(ss) - b) + Len(ps)
         /\ \A i \in 1 .. Len(ss) - b : Ordered(ss, b, ps)[i] = ss[b + i]
         /\ \A i \in (Len(ss) - b) + 1 .. (Len(ss) - b) + Len(ps) :
              Ordered(ss, b, ps)[i] = ps[(Len(ss) - b) + Len(ps) + 1 - i]
<1> DEFINE s == Ordered(ss, b, ps)
           m == Len(ss) - b
           n == Len(ps)
           u == SubSeq(ss, b + 1, Len(ss))
           r == Reverse(ps)
<1>1. Len(ss) \in Nat /\ b \in Nat /\ b <= Len(ss) /\ m \in Nat /\ n \in Nat
  OBVIOUS
<1>2. u \in Seq(Symbols) /\ Len(u) = m /\ \A i \in 1 .. m : u[i] = ss[b + i]
  BY <1>1
<1>3. r \in Seq(Symbols) /\ Len(r) = n /\ \A i \in 1 .. n : r[i] = ps[n + 1 - i]
  BY ReverseIs
<1>4. s = Joined(u, r)
  BY DEF Ordered, Joined
<1> HIDE DEF u, r, m, n, s
<1>5. s \in Seq(Symbols) /\ Len(s) = m + n
      /\ (\A i \in 1 .. m : s[i] = u[i]) /\ \A i \in m + 1 .. m + n : s[i] = r[i - m]
  <2>1. m = Len(u) /\ n = Len(r)
    BY <1>2, <1>3
  <2>2. u \in Seq(Symbols) /\ r \in Seq(Symbols)
    BY <1>2, <1>3
  <2>3. /\ Joined(u, r) \in Seq(Symbols) /\ Len(Joined(u, r)) = Len(u) + Len(r)
        /\ \A i \in 1 .. Len(u) : Joined(u, r)[i] = u[i]
        /\ \A i \in Len(u) + 1 .. Len(u) + Len(r) : Joined(u, r)[i] = r[i - Len(u)]
    BY ONLY <2>2, JoinedIs, Zenon
  <2> QED BY ONLY <1>4, <2>1, <2>3
<1>6. \A i \in m + 1 .. m + n : s[i] = ps[m + n + 1 - i]
  <2>1. SUFFICES ASSUME NEW i \in m + 1 .. m + n PROVE s[i] = ps[m + n + 1 - i]
    OBVIOUS
  <2>2. i - m \in 1 .. n /\ n + 1 - (i - m) = m + n + 1 - i
    BY <1>1
  <2> QED BY <1>3, <1>5, <2>2
<1> QED BY <1>2, <1>5, <1>6, Zenon DEF m, n, s

\* Where what stands in front of place i ends.
EndBefore(s, i) == IF i = 1 THEN 0 ELSE s[i - 1].to

\* s goes on without a gap but one in front of place m + 1, and ends at read.
Gapless(ss, b, ps, gap, read, m, s) ==
  /\ s \in Seq(Symbols) /\ m \in Nat /\ Len(s) \in Nat /\ m <= Len(s)
  /\ Len(ps) > 0 <=> m + 1 <= Len(s)
  /\ \A i \in 1 .. Len(s) : s[i].from \in Nat /\ EndBefore(s, i) \in Nat
  /\ \A i \in 1 .. Len(s) : i # m + 1 => s[i].from = EndBefore(s, i) + 1
  /\ Len(ps) > 0 => /\ s[m + 1].from = EndBefore(s, m + 1) + gap
                    /\ EndBefore(s, m + 1) = ss[Len(ss)].to
  /\ (IF s = <<>> THEN 0 ELSE Last(s).to) = read
  /\ \A i \in b + 1 .. Len(ss) : \E j \in 1 .. Len(s) : s[j] = ss[i]
  /\ \A i \in 1 .. Len(ps) : \E j \in 1 .. Len(s) : s[j] = ps[i]

LEMMA NothingBetween ==
  ASSUME NEW ss, NEW st, NEW b, NEW tx \in Seq(TextKey), Solid(ss, st, b, tx),
         NEW ps, Turned(ps, tx), NEW gap \in {1, 2}, NEW read,
         (Len(ps) = 0 /\ ss[Len(ss)].to = read) \/ Joins(ss, ps, gap, read)
  PROVE  Gapless(ss, b, ps, gap, read, Len(ss) - b, Ordered(ss, b, ps))
<1> SUFFICES ASSUME NEW m, m = Len(ss) - b, NEW s, s = Ordered(ss, b, ps)
             PROVE  Gapless(ss, b, ps, gap, read, m, s)
  OBVIOUS
<1> DEFINE n == Len(ps)
           k == Len(ss)
<1>1. /\ ss \in Seq(Symbols) /\ ps \in Seq(Symbols) /\ b \in 2 .. 3 /\ b <= k
      /\ \A i \in 1 .. b : ss[i].to = 0
      /\ \A i \in b + 1 .. k : ss[i].from = ss[i - 1].to + 1
      /\ \A i \in 1 .. n - 1 : ps[i].from = ps[i + 1].to + 1
  BY Zenon DEF Solid, Turned, Stretches, Outermost, Placed
<1>2. b \in Nat /\ b >= 2 /\ k \in Nat /\ n \in Nat /\ b \in 0 .. k /\ m \in Nat /\ b + m = k
      /\ b \in 1 .. b
  BY <1>1
<1>3. /\ s \in Seq(Symbols) /\ Len(s) = m + n
      /\ (\A i \in 1 .. m : s[i] = ss[b + i])
      /\ \A i \in m + 1 .. m + n : s[i] = ps[m + n + 1 - i]
  <2>1. m = Len(ss) - b /\ n = Len(ps) /\ s = Ordered(ss, b, ps) /\ b \in 0 .. Len(ss)
    BY <1>2
  <2> HIDE DEF n
  <2>2. ss \in Seq(Symbols) /\ ps \in Seq(Symbols)
    BY <1>1
  <2>3. /\ Ordered(ss, b, ps) \in Seq(Symbols)
        /\ Len(Ordered(ss, b, ps)) = (Len(ss) - b) + Len(ps)
        /\ \A i \in 1 .. Len(ss) - b : Ordered(ss, b, ps)[i] = ss[b + i]
        /\ \A i \in (Len(ss) - b) + 1 .. (Len(ss) - b) + Len(ps) :
             Ordered(ss, b, ps)[i] = ps[(Len(ss) - b) + Len(ps) + 1 - i]
    BY ONLY <2>1, <2>2, OrderedIs, Zenon
  <2> QED BY ONLY <2>1, <2>3
<1>4. ss[b].to = 0
  BY <1>1, <1>2
<1> HIDE DEF n, k
<1>5. \A i \in 1 .. Len(s) : s[i].from \in Nat /\ s[i].to \in Nat
  BY <1>3, SymbolAt
<1>6. \A i \in 1 .. Len(s) : EndBefore(s, i) \in Nat
  <2>1. SUFFICES ASSUME NEW i \in 1 .. Len(s) PROVE EndBefore(s, i) \in Nat
    OBVIOUS
  <2>2. CASE i = 1
    BY <2>2 DEF EndBefore
  <2>3. CASE i # 1
    <3>1. i - 1 \in 1 .. Len(s)
      BY <1>2, <1>3, <2>3
    <3> QED BY <1>5, <2>3, <3>1 DEF EndBefore
  <2> QED BY <2>2, <2>3
\* The end of what symbol_stack holds of the expression.
<1>7. EndBefore(s, m + 1) = ss[k].to
  <2>1. CASE m = 0
    BY <1>2, <1>4, <2>1 DEF EndBefore
  <2>2. CASE m # 0
    <3>1. m \in 1 .. m /\ m + 1 # 1 /\ (m + 1) - 1 = m
      BY <1>2, <2>2
    <3>2. s[m] = ss[k]
      BY <1>2, <1>3, <3>1
    <3> QED BY <3>1, <3>2, Zenon DEF EndBefore
  <2> QED BY <2>1, <2>2
<1>8. \A i \in 1 .. m : s[i].from = EndBefore(s, i) + 1
  <2>1. SUFFICES ASSUME NEW i \in 1 .. m PROVE s[i].from = EndBefore(s, i) + 1
    OBVIOUS
  <2>2. b + i \in b + 1 .. k /\ s[i] = ss[b + i]
    BY <1>2, <1>3
  <2>3. s[i].from = ss[(b + i) - 1].to + 1
    BY <1>1, <2>2
  <2>4. CASE i = 1
    <3>1. (b + i) - 1 = b
      BY <1>2, <2>4
    <3> QED BY <1>4, <2>3, <2>4, <3>1 DEF EndBefore
  <2>5. CASE i # 1
    <3>1. i - 1 \in 1 .. m /\ (b + i) - 1 = b + (i - 1)
      BY <1>2, <2>5
    <3>2. s[i - 1] = ss[(b + i) - 1]
      BY <1>3, <3>1
    <3> QED BY <2>3, <2>5, <3>2 DEF EndBefore
  <2> QED BY <2>4, <2>5
<1>9. \A i \in m + 2 .. m + n : s[i].from = EndBefore(s, i) + 1
  <2>1. SUFFICES ASSUME NEW i \in m + 2 .. m + n PROVE s[i].from = EndBefore(s, i) + 1
    OBVIOUS
  <2> DEFINE j == m + n + 1 - i
  <2>2. /\ i \in m + 1 .. m + n /\ i - 1 \in m + 1 .. m + n /\ i # 1
        /\ j \in 1 .. n - 1 /\ m + n + 1 - (i - 1) = j + 1
    BY <1>2
  <2>3. s[i] = ps[j]
    BY <1>3, <2>2
  <2>4. s[i - 1] = ps[m + n + 1 - (i - 1)]
    BY <1>3, <2>2
  <2> HIDE DEF j
  <2>5. s[i - 1] = ps[j + 1]
    BY <2>2, <2>4
  <2>6. ps[j].from = ps[j + 1].to + 1
    BY <1>1, <2>2
  <2> QED BY <2>2, <2>3, <2>5, <2>6, Zenon DEF EndBefore
<1>10. \A i \in 1 .. Len(s) : i # m + 1 => s[i].from = EndBefore(s, i) + 1
  <2>1. \A i \in 1 .. Len(s) : i # m + 1 => i \in 1 .. m \/ i \in m + 2 .. m + n
    BY <1>2, <1>3
  <2> QED BY <1>8, <1>9, <2>1, Zenon
<1>11. n > 0 => s[m + 1] = ps[n]
  <2>1. n > 0 => m + 1 \in m + 1 .. m + n /\ m + n + 1 - (m + 1) = n
    BY <1>2
  <2> QED BY <1>3, <2>1
<1>12. n > 0 => s[m + 1].from = EndBefore(s, m + 1) + gap
  <2>1. n > 0 => ps[n].from = ss[k].to + gap
    <3>1. n # 0 => ps[n].from = ss[k].to + gap
      BY Zenon DEF Joins, n, k
    <3> QED BY <1>2, <3>1
  <2> QED BY <1>7, <1>11, <2>1, Zenon
<1>13. (IF s = <<>> THEN 0 ELSE Last(s).to) = read
  <2>1. CASE n = 0
    <3>1. ss[k].to = read
      <4>1. ~(n > 0)
        BY <2>1
      <4> QED BY <4>1, Zenon DEF Joins, n, k
    <3>2. Len(s) = m
      BY <1>2, <1>3, <2>1
    <3>3. CASE m = 0
      BY <1>2, <1>3, <1>4, <3>1, <3>2, <3>3
    <3>4. CASE m # 0
      <4>1. s # <<>> /\ m \in 1 .. m
        BY <1>2, <3>2, <3>4
      <4>2. s[m] = ss[k]
        BY <1>2, <1>3, <4>1
      <4> QED BY <3>1, <3>2, <4>1, <4>2, Zenon DEF Last
    <3> QED BY <3>3, <3>4
  <2>2. CASE n # 0
    <3>1. m + n \in m + 1 .. m + n /\ m + n + 1 - (m + n) = 1 /\ m + n # 0
      BY <1>2, <2>2
    <3>2. s[m + n] = ps[1] /\ s # <<>>
      BY <1>3, <3>1
    <3>3. ps[1].to = read
      BY <2>2, Zenon DEF Joins, n
    <3> QED BY <1>3, <3>2, <3>3, Zenon DEF Last
  <2> QED BY <2>1, <2>2
<1>14. \A i \in b + 1 .. k : \E j \in 1 .. Len(s) : s[j] = ss[i]
  <2>1. SUFFICES ASSUME NEW i \in b + 1 .. k PROVE \E j \in 1 .. Len(s) : s[j] = ss[i]
    OBVIOUS
  <2>2. i - b \in 1 .. m /\ i - b \in 1 .. Len(s) /\ b + (i - b) = i
    BY <1>2, <1>3
  <2>3. s[i - b] = ss[b + (i - b)]
    BY <1>3, <2>2
  <2> QED BY <2>2, <2>3
<1>15. \A i \in 1 .. n : \E j \in 1 .. Len(s) : s[j] = ps[i]
  <2>1. SUFFICES ASSUME NEW i \in 1 .. n PROVE \E j \in 1 .. Len(s) : s[j] = ps[i]
    OBVIOUS
  <2> DEFINE j == m + n + 1 - i
  <2>2. j \in m + 1 .. m + n /\ j \in 1 .. Len(s) /\ m + n + 1 - j = i
    BY <1>2, <1>3
  <2>3. s[j] = ps[m + n + 1 - j]
    BY <1>3, <2>2
  <2> QED BY <2>2, <2>3
<1>16. m <= Len(s) /\ (n > 0 <=> m + 1 <= Len(s)) /\ Len(s) \in Nat
  BY <1>2, <1>3
<1> QED BY <1>2, <1>3, <1>5, <1>6, <1>7, <1>10, <1>12, <1>13, <1>14, <1>15, <1>16, Zenon DEF Gapless, n, k

\* The symbols that the expression stands on are those that stand for nothing.
LEMMA OutsideIs ==
  ASSUME NEW b, Solid(symbol_stack, status_stack, b, text)
  PROVE  InOrder = Ordered(symbol_stack, b, process_stack)
<1>1. /\ symbol_stack \in Seq(Symbols) /\ b \in 2 .. 3 /\ b <= Len(symbol_stack)
      /\ \A i \in 1 .. b : symbol_stack[i].from = 0
      /\ \A i \in b + 1 .. Len(symbol_stack) : symbol_stack[i].from > 0
  BY Zenon DEF Solid, Stretches, Outermost, Placed, IsItem
<1>2. DOMAIN symbol_stack = 1 .. Len(symbol_stack) /\ Len(symbol_stack) \in Nat
  BY <1>1
<1>3. Outside = 1 .. b
  <2>1. \A i \in 1 .. Len(symbol_stack) : symbol_stack[i].from = 0 <=> i \in 1 .. b
    <3>1. SUFFICES ASSUME NEW i \in 1 .. Len(symbol_stack)
                   PROVE  symbol_stack[i].from = 0 <=> i \in 1 .. b
      OBVIOUS
    <3>2. i \in 1 .. b \/ i \in b + 1 .. Len(symbol_stack)
      BY <1>1, <1>2
    <3>3. \A f : f > 0 => f # 0
      OBVIOUS
    <3>4. i \in b + 1 .. Len(symbol_stack) => i \notin 1 .. b
      BY <1>1
    <3> QED BY <1>1, <3>2, <3>3, <3>4, Zenon
  <2>2. \A i \in 1 .. b : i \in 1 .. Len(symbol_stack)
    BY <1>1, <1>2
  <2> QED BY <1>2, <2>1, <2>2, Zenon DEF Outside
<1>4. Cardinality(Outside) = b
  <2>1. 1 \in Int /\ b \in Int /\ b - 1 + 1 = b /\ 1 <= b
    BY <1>1
  <2>2. Cardinality(1 .. b) = b
    BY <2>1, FS_Interval
  <2> QED BY <1>3, <2>2
<1> QED BY <1>4, Zenon DEF InOrder, Ordered

\* What the phases have in common.
Opened == pc \in {"clearing", "calling"} /\ current_input.key = ")"
EndRead == IF pc = "reading" THEN Len(text) ELSE Len(text) - 1
Meet(gap) == \/ Len(process_stack) = 0 /\ symbol_stack[Len(symbol_stack)].to = EndRead
             \/ Joins(symbol_stack, process_stack, gap, EndRead)

LEMMA PhaseIs ==
  ASSUME NEW b, Phases(b)
  PROVE  /\ Base(b)
         /\ pc = "reading" => Len(process_stack) = 0
         /\ Opened => Inside /\ Meet(2)
         /\ ~Opened => Meet(1)
<1>1. \A keys : Busy(keys) => current_input.key \in keys
  BY DEF Busy, Symbol
<1>2. ")" \notin Ends
  BY Keys DEF Ends
<1>3. Inside => current_input.key = ")"
  BY <1>1, Zenon DEF Inside
<1>4. CASE AtReading(b)
  <2>1. pc = "reading" /\ pc \notin {"clearing", "calling"}
    BY <1>4 DEF AtReading
  <2> QED BY <1>4, <2>1, Zenon DEF AtReading, Opened, EndRead, Meet
<1>5. CASE AtWalking(b)
  <2>1. pc # "reading" /\ pc \notin {"clearing", "calling"}
    BY <1>5 DEF AtWalking
  <2> QED BY <1>5, <2>1, Zenon DEF AtWalking, Opened, EndRead, Meet
<1>6. CASE AtReturned(b)
  <2>1. pc # "reading" /\ pc \notin {"clearing", "calling"}
    BY <1>6 DEF AtReturned
  <2> QED BY <1>6, <2>1, Zenon DEF AtReturned, Opened, EndRead, Meet
<1>7. CASE AtClearing(b)
  <2>1. pc # "reading" /\ pc \in {"clearing", "calling"}
    BY <1>7 DEF AtClearing
  <2>2. CASE Inside
    BY <1>3, <1>7, <2>1, <2>2, Zenon DEF AtClearing, Opened, EndRead, Meet, Inside
  <2>3. CASE ~Inside
    <3>1. Busy(Ends) /\ Joins(symbol_stack, process_stack, 1, Len(text) - 1)
      BY <1>7, <2>3, Zenon DEF AtClearing
    <3>2. ~Opened
      BY <1>1, <1>2, <3>1, Zenon DEF Opened
    <3> QED BY <1>7, <2>1, <3>1, <3>2, Zenon DEF AtClearing, EndRead, Meet
  <2> QED BY <2>2, <2>3
<1>8. CASE AtCalling(b)
  <2>1. pc # "reading" /\ pc \in {"clearing", "calling"}
    BY <1>8 DEF AtCalling
  <2> QED BY <1>3, <1>8, <2>1, Zenon DEF AtCalling, Opened, EndRead, Meet, Inside
<1> QED BY <1>4, <1>5, <1>6, <1>7, <1>8, Zenon DEF Phases

LEMMA EverythingKept == ASSUME EInv PROVE EverythingIsKept
<1>1. SUFFICES ASSUME pc \in Running PROVE EverythingIsKept
  BY Zenon DEF EverythingIsKept
<1>2. PICK b \in 2 .. 3 : Phases(b)
  BY <1>1, Zenon DEF EInv
<1> DEFINE s == InOrder
           m == Len(symbol_stack) - b
           gap == IF Opened THEN 2 ELSE 1
           gaps == {i \in 1 .. Len(s) : s[i].from # (IF i = 1 THEN 0 ELSE s[i - 1].to) + 1}
<1>3. /\ Typed /\ symbol_stack \in Seq(Symbols) /\ process_stack \in Seq(Symbols)
      /\ text \in Seq(TextKey) /\ Len(text) \in Nat /\ Len(symbol_stack) \in Nat
  <2>1. Typed
    BY Zenon DEF EInv
  <2>2. symbol_stack \in Seq(Symbols)
    BY <2>1, TypesAre
  <2> QED BY <2>1, <2>2, TypesAre
<1>4. /\ Solid(symbol_stack, status_stack, b, text) /\ Turned(process_stack, text)
      /\ Covered(applied, symbol_stack, process_stack) /\ Once(applied)
      /\ pc = "reading" => Len(process_stack) = 0
      /\ Opened => Inside
      /\ gap \in {1, 2} /\ Meet(gap) /\ (Opened => gap = 2) /\ (~Opened => gap = 1)
  <2>1. Base(b) /\ (pc = "reading" => Len(process_stack) = 0)
        /\ (Opened => Inside /\ Meet(2)) /\ (~Opened => Meet(1))
    BY <1>2, PhaseIs, Zenon
  <2>2. gap \in {1, 2} /\ (Opened => gap = 2) /\ (~Opened => gap = 1)
    BY SMT
  <2> QED BY <2>1, <2>2, Zenon DEF Base
<1>5. s = Ordered(symbol_stack, b, process_stack) /\ m = Len(symbol_stack) - b
  BY <1>4, OutsideIs
<1> HIDE DEF s, m, gap
<1>6. (Len(process_stack) = 0 /\ symbol_stack[Len(symbol_stack)].to = EndRead)
      \/ Joins(symbol_stack, process_stack, gap, EndRead)
  BY <1>4, Zenon DEF Meet
<1>7. /\ s \in Seq(Symbols) /\ m \in Nat /\ Len(s) \in Nat /\ m <= Len(s)
      /\ Len(process_stack) > 0 <=> m + 1 <= Len(s)
      /\ \A i \in 1 .. Len(s) : s[i].from \in Nat /\ EndBefore(s, i) \in Nat
      /\ \A i \in 1 .. Len(s) : i # m + 1 => s[i].from = EndBefore(s, i) + 1
      /\ Len(process_stack) > 0 => /\ s[m + 1].from = EndBefore(s, m + 1) + gap
                                   /\ EndBefore(s, m + 1) = symbol_stack[Len(symbol_stack)].to
      /\ (IF s = <<>> THEN 0 ELSE Last(s).to) = EndRead
      /\ \A i \in b + 1 .. Len(symbol_stack) : \E j \in 1 .. Len(s) : s[j] = symbol_stack[i]
      /\ \A i \in 1 .. Len(process_stack) : \E j \in 1 .. Len(s) : s[j] = process_stack[i]
  <2>1. Gapless(symbol_stack, b, process_stack, gap, EndRead,
                Len(symbol_stack) - b, Ordered(symbol_stack, b, process_stack))
    BY ONLY <1>3, <1>4, <1>6, NothingBetween, Zenon
  <2>2. Gapless(symbol_stack, b, process_stack, gap, EndRead, m, s)
    BY ONLY <1>5, <2>1, Zenon
  <2> QED BY <2>2, Zenon DEF Gapless
<1>8. gaps = {i \in 1 .. Len(s) : s[i].from # EndBefore(s, i) + 1}
  BY Zenon DEF EndBefore
<1> HIDE DEF gaps
<1>9. gaps = IF Opened THEN {m + 1} ELSE {}
  <2>1. gaps \subseteq {m + 1}
    BY <1>7, <1>8, Zenon
  <2>2. CASE Opened
    <3>1. Len(process_stack) > 0
      BY <1>4, <2>2, Zenon DEF Inside, Joins
    <3>2. m + 1 \in 1 .. Len(s)
      BY <1>7, <3>1
    <3>3. s[m + 1].from = EndBefore(s, m + 1) + 2 /\ EndBefore(s, m + 1) \in Nat
      BY <1>4, <1>7, <2>2, <3>1, <3>2, Zenon
    <3>4. s[m + 1].from # EndBefore(s, m + 1) + 1
      BY <3>3
    <3>5. m + 1 \in gaps
      BY <1>8, <3>2, <3>4, Zenon
    <3> QED BY <2>1, <2>2, <3>5, Zenon
  <2>3. CASE ~Opened
    <3>1. SUFFICES ASSUME NEW i \in gaps PROVE FALSE
      BY <2>3, Zenon
    <3>2. i = m + 1 /\ i \in 1 .. Len(s) /\ s[i].from # EndBefore(s, i) + 1
      BY <1>8, <2>1, Zenon
    <3>3. m + 1 <= Len(s)
      BY <1>7, <3>2
    <3>4. s[m + 1].from = EndBefore(s, m + 1) + 1
      BY <1>4, <1>7, <2>3, <3>3, Zenon
    <3> QED BY <3>2, <3>4, Zenon
  <2> QED BY <2>2, <2>3
<1>10. Cardinality(gaps) = IF Opened THEN 1 ELSE 0
  <2>1. Cardinality({m + 1}) = 1
    BY FS_Singleton, Zenon
  <2>2. Cardinality({}) = 0
    BY FS_EmptySet, Zenon
  <2> QED BY <1>9, <2>1, <2>2, Zenon
<1>11. \A i \in gaps : text[s[i].from - 1] = "("
  <2>1. SUFFICES ASSUME NEW i \in gaps PROVE text[s[i].from - 1] = "("
    OBVIOUS
  <2>2. Opened /\ i = m + 1
    BY <1>9, Zenon
  <2>3. text[symbol_stack[Len(symbol_stack)].to + 1] = "(" /\ Len(process_stack) > 0
    BY <1>4, <2>2, Zenon DEF Inside, Joins
  <2>4. s[i].from = EndBefore(s, i) + 2 /\ EndBefore(s, i) = symbol_stack[Len(symbol_stack)].to
    BY <1>4, <1>7, <2>2, <2>3, Zenon
  <2>5. i \in 1 .. Len(s)
    BY <1>8, Zenon
  <2>6. EndBefore(s, i) \in Nat
    BY <1>7, <2>5, Zenon
  <2>7. s[i].from - 1 = symbol_stack[Len(symbol_stack)].to + 1
    BY <2>4, <2>6
  <2> QED BY <2>3, <2>7, Zenon
<1>12. \A a \in applied : \E i \in DOMAIN s : s[i].from <= a.from /\ a.to <= s[i].to
  <2>1. SUFFICES ASSUME NEW a \in applied
                 PROVE  \E i \in DOMAIN s : s[i].from <= a.from /\ a.to <= s[i].to
    OBVIOUS
  <2>2. Numbered(applied)
    BY <1>3, AppliedIs, Zenon DEF Typed
  <2>3. a.from < a.at /\ a.at < a.to /\ a.at \in Nat /\ a.from \in Nat /\ a.to \in Nat
    BY <1>4, <2>2, Zenon DEF Covered, Numbered
  <2>4. (\E i \in 1 .. Len(symbol_stack) : In(a, symbol_stack[i]))
        \/ (\E i \in 1 .. Len(process_stack) : In(a, process_stack[i]))
    BY <1>4, Zenon DEF Covered
  <2>5. \E j \in 1 .. Len(s) : In(a, s[j])
    <3>1. ASSUME NEW i \in 1 .. Len(symbol_stack), In(a, symbol_stack[i])
          PROVE  \E j \in 1 .. Len(s) : In(a, s[j])
      <4>1. symbol_stack[i].to # 0
        <5>1. a.to <= symbol_stack[i].to
          BY <3>1, Zenon DEF In
        <5> QED BY <2>3, <5>1
      <4>2. \A j \in 1 .. b : symbol_stack[j].to = 0
        BY <1>4, Zenon DEF Solid, Outermost
      <4>3. i \in b + 1 .. Len(symbol_stack)
        BY <1>2, <1>3, <4>1, <4>2
      <4> QED BY <1>7, <3>1, <4>3, Zenon
    <3>2. ASSUME NEW i \in 1 .. Len(process_stack), In(a, process_stack[i])
          PROVE  \E j \in 1 .. Len(s) : In(a, s[j])
      BY <1>7, <3>2, Zenon
    <3> QED BY <2>4, <3>1, <3>2, Zenon
  <2>6. DOMAIN s = 1 .. Len(s)
    BY <1>7
  <2> QED BY <2>5, <2>6, Zenon DEF In
<1>13. pc = "reading" => process_stack = <<>>
  BY <1>3, <1>4
<1>14. \A a1, a2 \in applied : a1.at = a2.at => a1 = a2
  BY <1>4, Zenon DEF Once
<1> QED BY <1>7, <1>10, <1>11, <1>12, <1>13, <1>14, Zenon
        DEF EverythingIsKept, Opened, EndRead, gaps, s

-----------------------------------------------------------------------------
(* The order of the symbols on symbol_stack, by depth and by priority.  The    *)
(* invariant of module PrecedenceProofs is about it.                           *)

\* The depth of position i of the text tx.
Places(tx, k, n) == {j \in 1 .. n : tx[j] = k}
DepthIn(tx, i) == Cardinality(Places(tx, "(", i - 1)) - Cardinality(Places(tx, ")", i))
Level(x, tx) == DepthIn(tx, x.from)

\* The operators of depth d; whether four of them have different priorities.
At(tx, d) == {q \in 1 .. Len(tx) : tx[q] \in Operator /\ DepthIn(tx, q) = d}
Four(tx, d) ==
  \E s, t, u, v \in At(tx, d) :
    /\ Priority[tx[s]] < Priority[tx[t]]
    /\ Priority[tx[t]] < Priority[tx[u]]
    /\ Priority[tx[u]] < Priority[tx[v]]

\* One in front of position n binds tighter than p.
Tighter(tx, d, n, p) == \E s \in At(tx, d) : s < n /\ Priority[tx[s]] < p

\* What is said of the stretch from f to t: it has depth d and holds nothing of
\* lower depth; no operator of it is of depth d; none binds looser than key.
Deep(tx, d, f, t) ==
  DepthIn(tx, f) = d /\ DepthIn(tx, t) = d /\ \A q \in f .. t : DepthIn(tx, q) >= d
None(tx, d, f, t) == \A q \in At(tx, d) : ~(f <= q /\ q <= t)
Kept(tx, d, f, t, key) ==
  key \in Operator =>
    \A q \in At(tx, d) : f <= q /\ q <= t => Priority[tx[q]] <= Priority[key] \/ Four(tx, d)

\* A symbol of the expression on symbol_stack, ...
Item(x, tx) ==
  x.from > 0 =>
    /\ Level(x, tx) >= 0 /\ Deep(tx, Level(x, tx), x.from, x.to)
    /\ x.key \in OperandKey => tx[x.to] \in {"id", "digit", ")"}
    /\ x.key = "digit" => tx[x.to] # "id"
    /\ x.key = "id" => None(tx, Level(x, tx), x.from, x.to)
    /\ x.key = "(" => \A q \in x.to + 1 .. Len(tx) : DepthIn(tx, q) > Level(x, tx)

\* ... x anywhere above y, ...
Over(y, x, tx) ==
  y.from > 0 =>
    /\ Level(y, tx) <= Level(x, tx)
    /\ y.key = "(" => Level(y, tx) < Level(x, tx)

\* ... x right on y.
OnTop(y, x, tx) ==
  x.from > 0 =>
    /\ y.from = 0 => Level(x, tx) = 0
    /\ y.key = "(" => Level(x, tx) = Level(y, tx) + 1
    /\ x.key \in OperandKey /\ y.key \in OperandKey => tx[x.from] = "(" /\ tx[y.to] # "id"
    /\ x.key \in OperandKey => Kept(tx, Level(x, tx), x.from, x.to, y.key)
    /\ y.key \in OperandKey => Kept(tx, Level(x, tx), y.from, y.to, x.key)

\* An operator above one of the same depth that binds tighter: one that binds
\* tighter still was in front of it.
Climb(y, x, tx) ==
  /\ y.key \in Operator /\ x.key \in Operator /\ Level(y, tx) = Level(x, tx)
  /\ Priority[y.key] < Priority[x.key]
  => Tighter(tx, Level(x, tx), x.from, Priority[y.key])

\* Nothing between places j and i is an operand on an operand, which no walk passes.
Chain(ss, j, i) == \A k \in j + 1 .. i : ss[k].key \in OperandKey => ss[k - 1].key \notin OperandKey

Nested(ss, tx) ==
  /\ \A i \in 1 .. Len(ss) : Item(ss[i], tx)
  /\ \A i \in 2 .. Len(ss) : OnTop(ss[i - 1], ss[i], tx)
  /\ \A i \in 1 .. Len(ss) : \A j \in 1 .. i - 1 :
       /\ Over(ss[j], ss[i], tx)
       /\ Chain(ss, j, i) => Climb(ss[j], ss[i], tx)
       /\ ss[j].from > 0 /\ (\A k \in j .. i - 1 : ss[k].key # "(") =>
            Level(ss[j], tx) = Level(ss[i], tx)

\* The next token has depth n.
Height(ss, tx, n) ==
  LET x == ss[Len(ss)] IN
  /\ x.from = 0 => n = 0
  /\ x.from > 0 /\ x.key = "(" => n = Level(x, tx) + 1
  /\ x.from > 0 /\ x.key # "(" => n = Level(x, tx)

\* last_priority, or what it was when the parenthesis around depth d was closed.
SavedAt(pr, l, d) == IF d = Len(pr) THEN l ELSE pr[d + 1]

\* The last operator of each depth has left its priority there, or one in front of
\* it binds tighter.
Left(x, tx, l) == l = Priority[x.key] \/ Tighter(tx, Level(x, tx), x.from, Priority[x.key])
Settled(ss, tx, pr, l, n) ==
  \A i \in 1 .. Len(ss) :
    /\ ss[i].key \in Operator /\ Level(ss[i], tx) < n
    /\ \A j \in i + 2 .. Len(ss) : Level(ss[j], tx) = Level(ss[i], tx) => ss[j].key = "("
    => Left(ss[i], tx, SavedAt(pr, l, Level(ss[i], tx)))

\* The priorities are 255 or those of operators of that depth, up to position m.
Met(tx, pr, l, n, m) ==
  \A d \in 0 .. n : \/ SavedAt(pr, l, d) = 255
                    \/ \E s \in At(tx, d) : s <= m /\ Priority[tx[s]] = SavedAt(pr, l, d)

-----------------------------------------------------------------------------
(* The text. *)

LEMMA PlacesAre ==
  ASSUME NEW tx, NEW k, NEW n \in Nat
  PROVE  /\ IsFiniteSet(Places(tx, k, n)) /\ Cardinality(Places(tx, k, n)) \in Nat
         /\ tx[n + 1] = k => Cardinality(Places(tx, k, n + 1)) = Cardinality(Places(tx, k, n)) + 1
         /\ tx[n + 1] # k => Places(tx, k, n + 1) = Places(tx, k, n)
<1>1. IsFiniteSet(1 .. n) /\ Places(tx, k, n) \subseteq 1 .. n
  BY FS_Interval DEF Places
<1>2. IsFiniteSet(Places(tx, k, n)) /\ Cardinality(Places(tx, k, n)) \in Nat
  BY <1>1, FS_Subset, FS_CardinalityType
<1>3. \A j : j \in 1 .. n + 1 <=> j \in 1 .. n \/ j = n + 1
  OBVIOUS
<1>4. n + 1 \notin Places(tx, k, n)
  BY DEF Places
<1>5. tx[n + 1] = k => Places(tx, k, n + 1) = Places(tx, k, n) \cup {n + 1}
  BY <1>3 DEF Places
<1>6. tx[n + 1] # k => Places(tx, k, n + 1) = Places(tx, k, n)
  BY <1>3 DEF Places
<1>7. Cardinality(Places(tx, k, n) \cup {n + 1}) = Cardinality(Places(tx, k, n)) + 1
  BY <1>2, <1>4, FS_AddElement
<1> QED BY <1>2, <1>5, <1>6, <1>7

LEMMA DepthType ==
  ASSUME NEW tx, NEW i \in Nat, i > 0
  PROVE  DepthIn(tx, i) \in Int
<1>1. i - 1 \in Nat
  OBVIOUS
<1>2. Cardinality(Places(tx, "(", i - 1)) \in Nat /\ Cardinality(Places(tx, ")", i)) \in Nat
  BY <1>1, PlacesAre
<1> QED BY <1>2 DEF DepthIn

LEMMA DepthFirst ==
  ASSUME NEW tx
  PROVE  /\ tx[1] = ")" => DepthIn(tx, 1) = -1
         /\ tx[1] # ")" => DepthIn(tx, 1) = 0
<1>1. Places(tx, "(", 0) = {} /\ Places(tx, ")", 0) = {}
  BY DEF Places
<1>2. Cardinality(Places(tx, "(", 0)) = 0 /\ Cardinality(Places(tx, ")", 0)) = 0
  BY <1>1, FS_EmptySet
<1>3. 0 \in Nat /\ 0 + 1 = 1 /\ 1 - 1 = 0
  OBVIOUS
<1>4. /\ tx[1] = ")" => Cardinality(Places(tx, ")", 1)) = 1
      /\ tx[1] # ")" => Cardinality(Places(tx, ")", 1)) = 0
  BY <1>2, <1>3, PlacesAre
<1> QED BY <1>2, <1>3, <1>4 DEF DepthIn

\* The depth from one position to the next.
LEMMA DepthNext ==
  ASSUME NEW tx, NEW i \in Nat, i > 0
  PROVE  /\ tx[i] = "(" /\ tx[i + 1] # ")" => DepthIn(tx, i + 1) = DepthIn(tx, i) + 1
         /\ tx[i] # "(" /\ tx[i + 1] # ")" => DepthIn(tx, i + 1) = DepthIn(tx, i)
         /\ tx[i] # "(" /\ tx[i + 1] = ")" => DepthIn(tx, i + 1) = DepthIn(tx, i) - 1
<1> DEFINE m == i - 1
           o == Cardinality(Places(tx, "(", m))
           p == Cardinality(Places(tx, "(", m + 1))
           c == Cardinality(Places(tx, ")", i))
           e == Cardinality(Places(tx, ")", i + 1))
<1>1. m \in Nat /\ m + 1 = i /\ (i + 1) - 1 = m + 1
  OBVIOUS
<1>2. DepthIn(tx, i) = o - c /\ DepthIn(tx, i + 1) = p - e
  BY <1>1, Zenon DEF DepthIn
<1> HIDE DEF m
<1>3. o \in Nat /\ (tx[i] = "(" => p = o + 1) /\ (tx[i] # "(" => p = o)
  BY <1>1, PlacesAre
<1>4. c \in Nat /\ (tx[i + 1] = ")" => e = c + 1) /\ (tx[i + 1] # ")" => e = c)
  BY PlacesAre
<1> HIDE DEF o, p, c, e
<1> QED BY <1>2, <1>3, <1>4

\* t2 is the text tx with more tokens.
Longer(tx, t2) ==
  /\ tx \in Seq(TextKey) /\ t2 \in Seq(TextKey) /\ Len(tx) <= Len(t2)
  /\ \A i \in 1 .. Len(tx) : t2[i] = tx[i] /\ DepthIn(t2, i) = DepthIn(tx, i)

LEMMA AppendIsLonger ==
  ASSUME NEW tx \in Seq(TextKey), NEW k \in TextKey
  PROVE  Longer(tx, Append(tx, k))
<1> DEFINE t2 == Append(tx, k)
<1>1. t2 \in Seq(TextKey) /\ Len(t2) = Len(tx) + 1 /\ Len(tx) \in Nat
      /\ \A i \in 1 .. Len(tx) : t2[i] = tx[i]
  BY TextIs
<1> HIDE DEF t2
<1>2. ASSUME NEW i \in 1 .. Len(tx) PROVE DepthIn(t2, i) = DepthIn(tx, i)
  <2>1. (\A j \in 1 .. i - 1 : j \in 1 .. Len(tx)) /\ (\A j \in 1 .. i : j \in 1 .. Len(tx))
    BY <1>1
  <2>2. Places(t2, "(", i - 1) = Places(tx, "(", i - 1) /\ Places(t2, ")", i) = Places(tx, ")", i)
    BY <1>1, <2>1, Zenon DEF Places
  <2> QED BY <2>2 DEF DepthIn
<1>3. Len(tx) <= Len(t2)
  BY <1>1
<1> QED BY <1>1, <1>2, <1>3 DEF Longer, t2

LEMMA OperatorsRank ==
  \A k \in Operator : Priority[k] \in Nat /\ 0 < Priority[k] /\ Priority[k] <= 255
<1>1. \A k \in Operator : k \in Prioritised
  BY Keys, Zenon
<1>2. \A k \in Operator : Priority[k] \in 1 .. 255
  BY <1>1, PriorityRange, Zenon
<1> QED BY <1>2

LEMMA OperatorsArePlaces ==
  ASSUME NEW tx \in Seq(TextKey), NEW d
  PROVE  \A q \in At(tx, d) : /\ q \in 1 .. Len(tx) /\ q \in Nat /\ q > 0
                              /\ tx[q] \in Operator /\ DepthIn(tx, q) = d
                              /\ Priority[tx[q]] \in Nat
<1>1. Len(tx) \in Nat
  OBVIOUS
<1> QED BY <1>1, OperatorsRank DEF At

LEMMA TextStays ==
  ASSUME NEW tx, NEW t2, Longer(tx, t2), NEW i \in 1 .. Len(tx)
  PROVE  i \in 1 .. Len(t2) /\ t2[i] = tx[i] /\ DepthIn(t2, i) = DepthIn(tx, i)
  BY DEF Longer

LEMMA LongerIs ==
  ASSUME NEW tx, NEW t2, Longer(tx, t2)
  PROVE  /\ tx \in Seq(TextKey) /\ t2 \in Seq(TextKey)
         /\ Len(tx) \in Nat /\ Len(t2) \in Nat /\ Len(tx) <= Len(t2)
         /\ \A i \in 1 .. Len(tx) : i \in 1 .. Len(t2) /\ t2[i] = tx[i] /\ DepthIn(t2, i) = DepthIn(tx, i)
  BY DEF Longer

\* What is known of a text stays true when it gets longer.
LEMMA OperatorsStay ==
  ASSUME NEW tx, NEW t2, Longer(tx, t2), NEW d
  PROVE  /\ \A q \in At(tx, d) : q \in At(t2, d) /\ t2[q] = tx[q]
         /\ \A q \in At(t2, d) : q <= Len(tx) => q \in At(tx, d) /\ t2[q] = tx[q]
<1>1. \A q \in 1 .. Len(t2) : q <= Len(tx) => q \in 1 .. Len(tx)
  BY LongerIs
<1> QED BY <1>1, LongerIs DEF At

LEMMA FourStays ==
  ASSUME NEW tx, NEW t2, Longer(tx, t2), NEW d, Four(tx, d)
  PROVE  Four(t2, d)
<1>1. \A q \in At(tx, d) : q \in At(t2, d) /\ t2[q] = tx[q]
  BY OperatorsStay
<1>2. PICK s \in At(tx, d), t \in At(tx, d), u \in At(tx, d), v \in At(tx, d) :
        /\ Priority[tx[s]] < Priority[tx[t]]
        /\ Priority[tx[t]] < Priority[tx[u]]
        /\ Priority[tx[u]] < Priority[tx[v]]
  BY Zenon DEF Four
<1> QED BY <1>1, <1>2 DEF Four

LEMMA TighterStays ==
  ASSUME NEW tx, NEW t2, Longer(tx, t2), NEW d, NEW n, NEW p, Tighter(tx, d, n, p)
  PROVE  Tighter(t2, d, n, p)
<1>1. \A q \in At(tx, d) : q \in At(t2, d) /\ t2[q] = tx[q]
  BY OperatorsStay
<1>2. PICK s \in At(tx, d) : s < n /\ Priority[tx[s]] < p
  BY DEF Tighter
<1> QED BY <1>1, <1>2 DEF Tighter

LEMMA KeptStays ==
  ASSUME NEW tx, NEW t2, Longer(tx, t2), NEW d, NEW f, NEW t \in Nat, t <= Len(tx), NEW k,
         Kept(tx, d, f, t, k)
  PROVE  Kept(t2, d, f, t, k)
<1>1. SUFFICES ASSUME k \in Operator, NEW q \in At(t2, d), f <= q, q <= t
               PROVE  Priority[t2[q]] <= Priority[k] \/ Four(t2, d)
  BY Zenon DEF Kept
<1>2. q <= Len(tx)
  BY <1>1, LongerIs, OperatorsArePlaces
<1>3. q \in At(tx, d) /\ t2[q] = tx[q]
  BY <1>1, <1>2, OperatorsStay
<1> QED BY <1>1, <1>3, FourStays, Zenon DEF Kept

LEMMA NoneStays ==
  ASSUME NEW tx, NEW t2, Longer(tx, t2), NEW d, NEW f, NEW t \in Nat, t <= Len(tx),
         None(tx, d, f, t)
  PROVE  None(t2, d, f, t)
<1>1. SUFFICES ASSUME NEW q \in At(t2, d), f <= q, q <= t PROVE FALSE
  BY Zenon DEF None
<1>2. q <= Len(tx)
  BY <1>1, LongerIs, OperatorsArePlaces
<1> QED BY <1>1, <1>2, OperatorsStay, Zenon DEF None

LEMMA DeepStays ==
  ASSUME NEW tx, NEW t2, Longer(tx, t2), NEW d, NEW f \in Nat, NEW t \in Nat,
         0 < f, f <= t, t <= Len(tx), Deep(tx, d, f, t)
  PROVE  Deep(t2, d, f, t)
<1>1. f \in 1 .. Len(tx) /\ t \in 1 .. Len(tx) /\ \A q \in f .. t : q \in 1 .. Len(tx)
  BY LongerIs
<1> QED BY <1>1, LongerIs, Zenon DEF Deep

\* Joining stretches, and what binds looser than they do.
LEMMA TighterBy ==
  ASSUME NEW tx, NEW d, NEW s \in At(tx, d), NEW n, s < n, NEW p, Priority[tx[s]] < p
  PROVE  Tighter(tx, d, n, p)
  BY DEF Tighter

LEMMA TighterUp ==
  ASSUME NEW tx \in Seq(TextKey), NEW d, NEW n \in Nat, NEW p \in Nat, NEW m \in Nat, NEW r \in Nat,
         Tighter(tx, d, n, p), n <= m, p <= r
  PROVE  Tighter(tx, d, m, r)
<1>1. PICK s \in At(tx, d) : s < n /\ Priority[tx[s]] < p
  BY DEF Tighter
<1>2. s < m /\ Priority[tx[s]] < r
  BY <1>1, OperatorsArePlaces
<1> QED BY <1>2, TighterBy

LEMMA KeptUp ==
  ASSUME NEW tx \in Seq(TextKey), NEW d, NEW f, NEW t, NEW k \in Operator, NEW m,
         Kept(tx, d, f, t, k), m \in Operator => Priority[k] <= Priority[m]
  PROVE  Kept(tx, d, f, t, m)
<1>1. \A j \in Operator : Priority[j] \in Nat
  BY OperatorsRank
<1>2. SUFFICES ASSUME m \in Operator, NEW q \in At(tx, d), f <= q, q <= t
               PROVE  Priority[tx[q]] <= Priority[m] \/ Four(tx, d)
  BY Zenon DEF Kept
<1>3. Priority[tx[q]] <= Priority[k] \/ Four(tx, d)
  BY <1>2, Zenon DEF Kept
<1>4. Priority[tx[q]] \in Nat /\ Priority[k] \in Nat /\ Priority[m] \in Nat
  BY <1>1, <1>2, OperatorsArePlaces
<1> QED BY <1>2, <1>3, <1>4

LEMMA KeptJoin ==
  ASSUME NEW tx \in Seq(TextKey), NEW d, NEW f, NEW t \in Nat, NEW u \in Nat, NEW k,
         Kept(tx, d, f, t, k), Kept(tx, d, t + 1, u, k)
  PROVE  Kept(tx, d, f, u, k)
<1>1. SUFFICES ASSUME k \in Operator, NEW q \in At(tx, d), f <= q, q <= u
               PROVE  Priority[tx[q]] <= Priority[k] \/ Four(tx, d)
  BY Zenon DEF Kept
<1>2. q <= t \/ t + 1 <= q
  BY <1>1, OperatorsArePlaces
<1> QED BY <1>1, <1>2, Zenon DEF Kept

LEMMA KeptOne ==
  ASSUME NEW tx \in Seq(TextKey), NEW d, NEW p \in Nat
  PROVE  Kept(tx, d, p, p, tx[p])
<1>1. SUFFICES ASSUME tx[p] \in Operator, NEW q \in At(tx, d), p <= q, q <= p
               PROVE  Priority[tx[q]] <= Priority[tx[p]]
  BY Zenon DEF Kept
<1>2. q = p /\ Priority[tx[q]] \in Nat
  BY <1>1, OperatorsArePlaces
<1> QED BY <1>2

LEMMA KeptNone ==
  ASSUME NEW tx, NEW d, NEW f, NEW t, None(tx, d, f, t)
  PROVE  \A k : Kept(tx, d, f, t, k)
  BY Zenon DEF None, Kept

LEMMA KeptOther ==
  ASSUME NEW tx, NEW d, NEW f, NEW t, NEW k, k \notin Operator
  PROVE  Kept(tx, d, f, t, k)
  BY Zenon DEF Kept

LEMMA DeepJoin ==
  ASSUME NEW tx, NEW d, NEW f \in Nat, NEW t \in Nat, NEW u \in Nat,
         Deep(tx, d, f, t), Deep(tx, d, t + 1, u)
  PROVE  Deep(tx, d, f, u)
<1>1. \A q \in f .. u : q \in f .. t \/ q \in t + 1 .. u
  OBVIOUS
<1> QED BY <1>1, Zenon DEF Deep

LEMMA DeepOne ==
  ASSUME NEW tx, NEW p \in Nat, p > 0
  PROVE  Deep(tx, DepthIn(tx, p), p, p)
<1>1. \A q \in p .. p : q = p
  OBVIOUS
<1>2. DepthIn(tx, p) >= DepthIn(tx, p)
  BY DepthType
<1> QED BY <1>1, <1>2, Zenon DEF Deep

-----------------------------------------------------------------------------
(* The stack. *)

Grounds == {"fn", "LBRACES", "return"}
LEMMA GroundKeys ==
  /\ \A k \in Grounds : k \notin OperandKey /\ k \notin Operator /\ k # "("
  /\ \A k \in Operator : k \notin OperandKey /\ k # "(" /\ k # ")" /\ k # "SEMICOLON"
  /\ "(" \notin OperandKey
<1>1. \A k \in Grounds : k \notin OperandKey /\ k # "("
  BY DEF Grounds, OperandKey
<1>2. \A k \in Grounds : k \notin Operator
  BY Keys, Zenon DEF Grounds
<1>3. \A k \in Operator : k \notin OperandKey /\ k # "(" /\ k # ")" /\ k # "SEMICOLON"
  BY Keys, Zenon
<1> QED BY <1>1, <1>2, <1>3, Keys, Zenon

\* What Solid says of the stacks and of a symbol.
LEMMA SolidIs ==
  ASSUME NEW ss, NEW st, NEW b, NEW tx \in Seq(TextKey), Solid(ss, st, b, tx)
  PROVE  /\ ss \in Seq(Symbols) /\ Len(ss) \in Nat /\ b \in 2 .. 3 /\ b <= Len(ss)
         /\ st \in Seq(Statuses) /\ Len(st) = Len(ss) /\ Len(tx) \in Nat
<1>1. ss \in Seq(Symbols) /\ st \in Seq(Statuses) /\ b \in 2 .. 3 /\ b <= Len(ss) /\ Len(st) = Len(ss)
  BY Zenon DEF Solid, Stretches, Outermost
<1> QED BY <1>1

LEMMA SymbolIs ==
  ASSUME NEW ss, NEW st, NEW b, NEW tx \in Seq(TextKey), Solid(ss, st, b, tx), NEW i \in 1 .. Len(ss)
  PROVE  /\ ss[i] \in Symbols /\ ss[i].from \in Nat /\ ss[i].to \in Nat
         /\ ss[i].from <= ss[i].to /\ ss[i].to <= Len(tx)
<1>1. ss \in Seq(Symbols) /\ Within(ss[i], Len(tx))
  BY Zenon DEF Solid, Stretches
<1> QED BY <1>1, SymbolAt, Zenon DEF Within

LEMMA GroundIs ==
  ASSUME NEW ss, NEW st, NEW b, NEW tx \in Seq(TextKey), Solid(ss, st, b, tx), NEW i \in 1 .. b
  PROVE  /\ ss[i].from = 0 /\ ss[i].to = 0 /\ ss[i].key \in Grounds /\ st[i] \in {14, 15, 16}
  BY Zenon DEF Solid, Outermost, Grounds

LEMMA PlacedIs ==
  ASSUME NEW ss, NEW st, NEW b, NEW tx \in Seq(TextKey), Solid(ss, st, b, tx), NEW i \in b + 1 .. Len(ss)
  PROVE  /\ ss[i].from > 0 /\ ss[i].from = ss[i - 1].to + 1
         /\ ss[i].key \in OperandKey \cup Operator \cup {"("}
         /\ ss[i].key \notin OperandKey => ss[i].from = ss[i].to /\ tx[ss[i].from] = ss[i].key
         /\ ss[i].key \in OperandKey => st[i] = 2
         /\ ss[i].key \notin OperandKey => st[i] = 7
         /\ ss[i].key \in Operator => st[i - 1] = 2
         /\ ss[i].key = "(" => i > b + 1
         /\ \A j \in 1 .. i - 1 : ss[j].to < ss[i].from
  BY ZenonT(30) DEF Solid, Placed, IsItem

\* The symbols of the expression are those that stand for some of the text.
LEMMA SymbolsAre ==
  ASSUME NEW ss, NEW st, NEW b, NEW tx \in Seq(TextKey), Solid(ss, st, b, tx), NEW i \in 1 .. Len(ss)
  PROVE  /\ ss[i].from > 0 <=> i > b
         /\ ss[i].from > 0 => i \in b + 1 .. Len(ss) /\ ss[i].from \in 1 .. Len(tx) /\ ss[i].to \in 1 .. Len(tx)
         /\ ss[i].key \in OperandKey \cup Operator \cup {"("} => ss[i].from > 0
         /\ ss[i].from = 0 => ss[i].to = 0 /\ ss[i].key \in Grounds
         /\ ss[i].from > 0 => Level(ss[i], tx) \in Int
<1>0. /\ b \in 2 .. 3 /\ Len(ss) \in Nat /\ Len(tx) \in Nat
      /\ ss[i].from \in Nat /\ ss[i].to \in Nat /\ ss[i].from <= ss[i].to /\ ss[i].to <= Len(tx)
  BY SolidIs, SymbolIs, Zenon
<1>1. i \in Nat /\ b \in 2 .. 3 /\ Len(ss) \in Nat /\ Len(tx) \in Nat
      /\ ss[i].from \in Nat /\ ss[i].to \in Nat /\ ss[i].from <= ss[i].to /\ ss[i].to <= Len(tx)
  BY <1>0
<1>2. i \in 1 .. b \/ i \in b + 1 .. Len(ss)
  BY <1>1
<1>3. i \in 1 .. b => ~(i > b)
  BY <1>1
<1>4. i \in b + 1 .. Len(ss) => i > b
  BY <1>1
<1>5. CASE i \in 1 .. b
  <2>1. ss[i].from = 0 /\ ss[i].to = 0 /\ ss[i].key \in Grounds
    BY <1>5, GroundIs
  <2>2. ss[i].key \notin OperandKey /\ ss[i].key \notin Operator /\ ss[i].key # "("
    BY <2>1, GroundKeys, Zenon
  <2> QED BY <1>1, <1>3, <1>5, <2>1, <2>2
<1>6. CASE i \in b + 1 .. Len(ss)
  <2>1. ss[i].from > 0
    BY <1>6, PlacedIs
  <2>2. Level(ss[i], tx) \in Int
    BY <1>1, <2>1, DepthType DEF Level
  <2> QED BY <1>1, <1>4, <1>6, <2>1, <2>2
<1> QED BY <1>2, <1>5, <1>6

LEMMA LevelStays ==
  ASSUME NEW tx, NEW t2, Longer(tx, t2), NEW x, x.from \in 1 .. Len(tx)
  PROVE  Level(x, t2) = Level(x, tx)
  BY TextStays, Zenon DEF Level

LEMMA ItemStays ==
  ASSUME NEW tx, NEW t2, Longer(tx, t2), NEW x, x.from \in Nat, x.to \in Nat,
         x.from <= x.to, x.to <= Len(tx), Item(x, tx),
         x.from > 0 /\ x.key = "(" =>
           \A q \in Len(tx) + 1 .. Len(t2) : DepthIn(t2, q) > Level(x, tx)
  PROVE  Item(x, t2)
<1>1. SUFFICES ASSUME x.from > 0 PROVE Item(x, t2)
  BY Zenon DEF Item
<1>2. Len(tx) \in Nat /\ Len(t2) \in Nat /\ Len(tx) <= Len(t2) /\ x.from \in 1 .. Len(tx)
      /\ x.to \in 1 .. Len(tx)
  BY <1>1, LongerIs
<1>3. Level(x, t2) = Level(x, tx) /\ t2[x.to] = tx[x.to]
  BY <1>2, LevelStays, TextStays
<1>4. /\ Level(x, tx) >= 0 /\ Deep(tx, Level(x, tx), x.from, x.to)
      /\ x.key \in OperandKey => tx[x.to] \in {"id", "digit", ")"}
      /\ x.key = "digit" => tx[x.to] # "id"
      /\ x.key = "id" => None(tx, Level(x, tx), x.from, x.to)
      /\ x.key = "(" => \A q \in x.to + 1 .. Len(tx) : DepthIn(tx, q) > Level(x, tx)
  BY <1>1, Zenon DEF Item
<1>5. Deep(t2, Level(x, tx), x.from, x.to)
  BY <1>1, <1>4, DeepStays
<1>6. x.key = "id" => None(t2, Level(x, tx), x.from, x.to)
  BY <1>4, NoneStays
<1>7. ASSUME x.key = "(", NEW q \in x.to + 1 .. Len(t2) PROVE DepthIn(t2, q) > Level(x, tx)
  <2>1. q \in 1 .. Len(tx) \/ q \in Len(tx) + 1 .. Len(t2)
    BY <1>2
  <2>2. CASE q \in 1 .. Len(tx)
    <3>1. q \in x.to + 1 .. Len(tx)
      BY <1>2, <2>2
    <3>2. DepthIn(tx, q) > Level(x, tx)
      BY <1>4, <1>7, <3>1, Zenon
    <3>3. DepthIn(t2, q) = DepthIn(tx, q)
      BY <2>2, TextStays
    <3> QED BY <3>2, <3>3
  <2> QED BY <1>1, <1>7, <2>1, <2>2
<1> QED BY <1>3, <1>4, <1>5, <1>6, <1>7, Zenon DEF Item

LEMMA ClimbStays ==
  ASSUME NEW tx, NEW t2, Longer(tx, t2), NEW x, NEW y, x.from \in 1 .. Len(tx),
         y.from \in 1 .. Len(tx), Climb(y, x, tx)
  PROVE  Climb(y, x, t2)
  BY LevelStays, TighterStays DEF Climb

LEMMA OnTopStays ==
  ASSUME NEW tx, NEW t2, Longer(tx, t2), NEW x, NEW y, OnTop(y, x, tx),
         x.to \in Nat, x.to <= Len(tx), x.from > 0 => x.from \in 1 .. Len(tx),
         y.from \in Nat, y.to \in Nat, y.to <= Len(tx),
         y.from > 0 => y.from \in 1 .. Len(tx) /\ y.to \in 1 .. Len(tx),
         y.from = 0 => y.key \in Grounds
  PROVE  OnTop(y, x, t2)
<1>1. SUFFICES ASSUME x.from > 0 PROVE OnTop(y, x, t2)
  BY Zenon DEF OnTop
<1>0. x.from \in 1 .. Len(tx)
  BY <1>1
<1>2. Level(x, t2) = Level(x, tx) /\ t2[x.from] = tx[x.from]
  BY <1>0, LevelStays, TextStays
<1>3. /\ y.from = 0 => Level(x, tx) = 0
      /\ y.key = "(" => Level(x, tx) = Level(y, tx) + 1
      /\ x.key \in OperandKey /\ y.key \in OperandKey => tx[x.from] = "(" /\ tx[y.to] # "id"
      /\ x.key \in OperandKey => Kept(tx, Level(x, tx), x.from, x.to, y.key)
      /\ y.key \in OperandKey => Kept(tx, Level(x, tx), y.from, y.to, x.key)
  BY <1>1, Zenon DEF OnTop
<1>4. Kept(tx, Level(x, tx), x.from, x.to, y.key) => Kept(t2, Level(x, tx), x.from, x.to, y.key)
  BY KeptStays
<1>5. Kept(tx, Level(x, tx), y.from, y.to, x.key) => Kept(t2, Level(x, tx), y.from, y.to, x.key)
  BY KeptStays
<1>6. CASE y.from > 0
  <2>0. y.from \in 1 .. Len(tx) /\ y.to \in 1 .. Len(tx)
    BY <1>6
  <2>1. Level(y, t2) = Level(y, tx) /\ t2[y.to] = tx[y.to]
    BY <2>0, LevelStays, TextStays
  <2> QED BY <1>2, <1>3, <1>4, <1>5, <2>1, Zenon DEF OnTop
<1>7. CASE y.from = 0
  <2>1. y.key \notin OperandKey /\ y.key # "("
    BY <1>7, GroundKeys, Zenon
  <2> QED BY <1>2, <1>3, <1>4, <2>1, Zenon DEF OnTop
<1> QED BY <1>6, <1>7

\* What Nested says of one symbol, and of two.
LEMMA NestedIs ==
  ASSUME NEW ss, NEW tx, Nested(ss, tx), NEW i \in 1 .. Len(ss)
  PROVE  /\ Item(ss[i], tx)
         /\ i \in 2 .. Len(ss) => OnTop(ss[i - 1], ss[i], tx)
         /\ \A j \in 1 .. i - 1 :
              /\ Over(ss[j], ss[i], tx)
              /\ Chain(ss, j, i) => Climb(ss[j], ss[i], tx)
              /\ ss[j].from > 0 /\ (\A k \in j .. i - 1 : ss[k].key # "(") =>
                   Level(ss[j], tx) = Level(ss[i], tx)
  BY Zenon DEF Nested

LEMMA NestedStays ==
  ASSUME NEW tx, NEW t2, Longer(tx, t2), NEW ss, NEW st, NEW b, Solid(ss, st, b, tx), Nested(ss, tx),
         \A i \in 1 .. Len(ss) : ss[i].from > 0 /\ ss[i].key = "(" =>
           \A q \in Len(tx) + 1 .. Len(t2) : DepthIn(t2, q) > Level(ss[i], tx)
  PROVE  Nested(ss, t2)
<1>0. tx \in Seq(TextKey)
  BY LongerIs
<1>1. \A i \in 1 .. Len(ss) :
        /\ ss[i].from \in Nat /\ ss[i].to \in Nat /\ ss[i].from <= ss[i].to /\ ss[i].to <= Len(tx)
        /\ ss[i].from > 0 => ss[i].from \in 1 .. Len(tx) /\ ss[i].to \in 1 .. Len(tx)
        /\ ss[i].key \in OperandKey \cup Operator \cup {"("} => ss[i].from > 0
        /\ ss[i].from = 0 => ss[i].key \in Grounds
  <2>1. SUFFICES ASSUME NEW i \in 1 .. Len(ss)
                 PROVE  /\ ss[i].from \in Nat /\ ss[i].to \in Nat /\ ss[i].from <= ss[i].to /\ ss[i].to <= Len(tx)
                        /\ ss[i].from > 0 => ss[i].from \in 1 .. Len(tx) /\ ss[i].to \in 1 .. Len(tx)
                        /\ ss[i].key \in OperandKey \cup Operator \cup {"("} => ss[i].from > 0
                        /\ ss[i].from = 0 => ss[i].key \in Grounds
    BY Zenon
  <2> QED BY <1>0, SymbolIs, SymbolsAre, Zenon
<1>2. Len(ss) \in Nat
  BY <1>0, SolidIs
<1>3. ASSUME NEW i \in 1 .. Len(ss) PROVE Item(ss[i], t2)
  <2>1. Item(ss[i], tx)
    BY NestedIs
  <2> QED BY <1>1, <2>1, ItemStays
<1>4. ASSUME NEW i \in 2 .. Len(ss) PROVE OnTop(ss[i - 1], ss[i], t2)
  <2>1. i \in 1 .. Len(ss) /\ i - 1 \in 1 .. Len(ss)
    BY <1>2
  <2>2. OnTop(ss[i - 1], ss[i], tx)
    BY <1>4, <2>1, NestedIs
  <2> DEFINE x == ss[i]
             y == ss[i - 1]
  <2>3. /\ x.to \in Nat /\ x.to <= Len(tx) /\ (x.from > 0 => x.from \in 1 .. Len(tx))
        /\ y.from \in Nat /\ y.to \in Nat /\ y.to <= Len(tx)
        /\ y.from > 0 => y.from \in 1 .. Len(tx) /\ y.to \in 1 .. Len(tx)
        /\ y.from = 0 => y.key \in Grounds
    BY <1>1, <2>1, Zenon
  <2>4. OnTop(y, x, tx)
    BY <2>2
  <2> HIDE DEF x, y
  <2>5. OnTop(y, x, t2)
    BY <2>3, <2>4, OnTopStays
  <2> QED BY <2>5 DEF x, y
<1>5. ASSUME NEW i \in 1 .. Len(ss), ss[i].from > 0 PROVE Level(ss[i], t2) = Level(ss[i], tx)
  BY <1>1, <1>5, LevelStays
<1>6. ASSUME NEW i \in 1 .. Len(ss), NEW j \in 1 .. i - 1
      PROVE  /\ Over(ss[j], ss[i], t2)
             /\ Chain(ss, j, i) => Climb(ss[j], ss[i], t2)
             /\ ss[j].from > 0 /\ (\A k \in j .. i - 1 : ss[k].key # "(") =>
                  Level(ss[j], t2) = Level(ss[i], t2)
  <2>1. j \in 1 .. Len(ss) /\ i \in Nat /\ j \in Nat /\ j < i
    BY <1>2
  <2>2. /\ Over(ss[j], ss[i], tx)
        /\ Chain(ss, j, i) => Climb(ss[j], ss[i], tx)
        /\ ss[j].from > 0 /\ (\A k \in j .. i - 1 : ss[k].key # "(") =>
             Level(ss[j], tx) = Level(ss[i], tx)
    BY NestedIs, Zenon
  <2>3. ss[j].from > 0 => ss[i].from > 0
    BY <1>0, <2>1, SymbolsAre, SolidIs
  <2>4. CASE ss[j].from > 0
    <3>1. Level(ss[i], t2) = Level(ss[i], tx) /\ Level(ss[j], t2) = Level(ss[j], tx)
          /\ ss[i].from \in 1 .. Len(tx) /\ ss[j].from \in 1 .. Len(tx)
      BY <1>1, <1>5, <2>1, <2>3, <2>4
    <3>2. Climb(ss[j], ss[i], tx) => Climb(ss[j], ss[i], t2)
      BY <3>1, ClimbStays
    <3> QED BY <2>2, <3>1, <3>2, Zenon DEF Over
  <2>5. CASE ~(ss[j].from > 0)
    <3>1. ss[j].key \notin Operator
      BY <1>1, <2>1, <2>5
    <3> QED BY <2>5, <3>1, Zenon DEF Over, Climb
  <2> QED BY <2>4, <2>5
<1> QED BY <1>3, <1>4, <1>6, Zenon DEF Nested

\* The symbols of the stack have no greater depth than the next token.
LEMMA HeightIs ==
  ASSUME NEW ss, NEW st, NEW b, NEW tx \in Seq(TextKey), Solid(ss, st, b, tx), Nested(ss, tx),
         NEW n, Height(ss, tx, n)
  PROVE  /\ n \in Int /\ n >= 0
         /\ \A i \in 1 .. Len(ss) : ss[i].from > 0 =>
              /\ Level(ss[i], tx) \in Int /\ 0 <= Level(ss[i], tx) /\ Level(ss[i], tx) <= n
              /\ ss[i].key = "(" => Level(ss[i], tx) < n
<1> DEFINE m == Len(ss)
<1>1. m \in Nat /\ m \in 1 .. Len(ss) /\ b \in 2 .. 3 /\ b <= m
  <2>1. Len(ss) \in Nat /\ b \in 2 .. 3 /\ b <= Len(ss)
    BY SolidIs
  <2> QED BY <2>1
<1> HIDE DEF m
<1>2. \A i \in 1 .. Len(ss) : ss[i].from > 0 => Level(ss[i], tx) \in Int /\ Level(ss[i], tx) >= 0
  <2>1. SUFFICES ASSUME NEW i \in 1 .. Len(ss), ss[i].from > 0
                 PROVE  Level(ss[i], tx) \in Int /\ Level(ss[i], tx) >= 0
    OBVIOUS
  <2>2. Item(ss[i], tx) /\ Level(ss[i], tx) \in Int
    BY <2>1, NestedIs, SymbolsAre
  <2> QED BY <2>1, <2>2, Zenon DEF Item
<1>3. /\ ss[m].from = 0 => n = 0
      /\ ss[m].from > 0 /\ ss[m].key = "(" => n = Level(ss[m], tx) + 1
      /\ ss[m].from > 0 /\ ss[m].key # "(" => n = Level(ss[m], tx)
  BY DEF Height, m
<1>4. ss[m].from \in Nat
  BY <1>1, SymbolIs
<1>5. n \in Int /\ n >= 0
  BY <1>1, <1>2, <1>3, <1>4
<1>6. ASSUME NEW i \in 1 .. Len(ss), ss[i].from > 0
      PROVE  Level(ss[i], tx) <= n /\ (ss[i].key = "(" => Level(ss[i], tx) < n)
  <2>1. i > b /\ i \in Nat
    BY <1>1, <1>6, SymbolsAre
  <2>2. m > b /\ ss[m].from > 0
    <3>1. m > b
      BY <1>1, <2>1, SolidIs DEF m
    <3> QED BY <1>1, <3>1, SymbolsAre
  <2>3. CASE i = m
    BY <1>1, <1>2, <1>3, <2>2, <2>3
  <2>4. CASE i # m
    <3>1. i \in 1 .. m - 1 /\ m \in 1 .. Len(ss)
      BY <1>1, <2>4 DEF m
    <3>2. Over(ss[i], ss[m], tx)
      BY <3>1, NestedIs
    <3>3. Level(ss[i], tx) <= Level(ss[m], tx) /\ (ss[i].key = "(" => Level(ss[i], tx) < Level(ss[m], tx))
      BY <1>6, <3>2, Zenon DEF Over
    <3> QED BY <1>1, <1>2, <1>3, <1>6, <2>2, <3>3
  <2> QED BY <2>3, <2>4
<1> QED BY <1>2, <1>5, <1>6

\* ... which has that depth.
LEMMA NextDepth ==
  ASSUME NEW tx, NEW t2, Longer(tx, t2), NEW ss, NEW st, NEW b, Solid(ss, st, b, tx), Nested(ss, tx),
         NEW n, Height(ss, tx, n)
  PROVE  \A p : p = ss[Len(ss)].to + 1 =>
           /\ t2[p] # ")" => DepthIn(t2, p) = n
           /\ t2[p] = ")" /\ ss[Len(ss)].key # "(" => DepthIn(t2, p) = n - 1
<1> DEFINE m == Len(ss)
           x == ss[m]
<1>p. SUFFICES ASSUME NEW p, p = ss[Len(ss)].to + 1
               PROVE  /\ t2[p] # ")" => DepthIn(t2, p) = n
                      /\ t2[p] = ")" /\ ss[Len(ss)].key # "(" => DepthIn(t2, p) = n - 1
  OBVIOUS
<1>0. tx \in Seq(TextKey)
  BY LongerIs
<1>1. m \in Nat /\ m \in 1 .. Len(ss) /\ b \in 2 .. 3 /\ b <= m
  <2>1. Len(ss) \in Nat /\ b \in 2 .. 3 /\ b <= Len(ss)
    BY <1>0, SolidIs
  <2> QED BY <2>1
<1>2. x.from \in Nat /\ x.to \in Nat
  BY <1>0, <1>1, SymbolIs
<1>3. CASE x.from = 0
  <2>1. n = 0 /\ x.to = 0
    BY <1>0, <1>1, <1>3, SymbolsAre DEF Height
  <2>2. p = 1
    BY <1>p, <2>1
  <2> QED BY <2>1, <2>2, DepthFirst
<1>4. CASE x.from > 0
  <2>1. x.to \in 1 .. Len(tx) /\ x.to > 0
    BY <1>0, <1>1, <1>4, SymbolsAre
  <2>2. Item(x, tx)
    BY <1>1, NestedIs
  <2>3. DepthIn(tx, x.to) = Level(x, tx)
    BY <1>4, <2>2, Zenon DEF Item, Deep
  <2>4. t2[x.to] = tx[x.to] /\ DepthIn(t2, x.to) = Level(x, tx)
    BY <2>1, <2>3, TextStays
  <2>5. x.key = "(" => tx[x.to] = "("
    <3>1. m \in b + 1 .. Len(ss)
      BY <1>0, <1>1, <1>4, SymbolsAre
    <3>2. x.key \notin OperandKey => x.from = x.to /\ tx[x.from] = x.key
      BY <1>0, <3>1, PlacedIs
    <3> QED BY <3>2, GroundKeys
  <2>6. x.key # "(" => tx[x.to] # "("
    <3>1. m \in b + 1 .. Len(ss)
      BY <1>0, <1>1, <1>4, SymbolsAre
    <3>2. x.key \notin OperandKey => x.from = x.to /\ tx[x.from] = x.key
      BY <1>0, <3>1, PlacedIs
    <3>3. x.key \in OperandKey => tx[x.to] \in {"id", "digit", ")"}
      BY <1>4, <2>2, Zenon DEF Item
    <3> QED BY <3>2, <3>3
  <2>7. Height(ss, tx, n) => /\ x.key = "(" => n = Level(x, tx) + 1
                             /\ x.key # "(" => n = Level(x, tx)
    BY <1>4 DEF Height
  <2>8. p = x.to + 1
    BY <1>p
  <2> HIDE DEF x, m
  <2>9. /\ t2[x.to] = "(" /\ t2[p] # ")" => DepthIn(t2, p) = DepthIn(t2, x.to) + 1
        /\ t2[x.to] # "(" /\ t2[p] # ")" => DepthIn(t2, p) = DepthIn(t2, x.to)
        /\ t2[x.to] # "(" /\ t2[p] = ")" => DepthIn(t2, p) = DepthIn(t2, x.to) - 1
    BY <1>2, <2>1, <2>8, DepthNext
  <2> QED BY <2>4, <2>5, <2>6, <2>7, <2>9 DEF x, m
<1> QED BY <1>2, <1>3, <1>4

LEMMA HeightStays ==
  ASSUME NEW tx, NEW t2, Longer(tx, t2), NEW ss, NEW st, NEW b, Solid(ss, st, b, tx),
         NEW n, Height(ss, tx, n)
  PROVE  Height(ss, t2, n)
<1> DEFINE x == ss[Len(ss)]
<1>0. tx \in Seq(TextKey)
  BY LongerIs
<1>1. Len(ss) \in 1 .. Len(ss)
  BY <1>0, SolidIs
<1>2. x.from > 0 => Level(x, t2) = Level(x, tx)
  <2>1. x.from > 0 => x.from \in 1 .. Len(tx)
    BY <1>0, <1>1, SymbolsAre
  <2> QED BY <2>1, LevelStays
<1> QED BY <1>2, Zenon DEF Height

\* A token more that is not ")".
LEMMA NestedMore ==
  ASSUME NEW tx, NEW t2, Longer(tx, t2), Len(t2) = Len(tx) + 1, t2[Len(t2)] # ")",
         NEW ss, NEW st, NEW b, Solid(ss, st, b, tx), Nested(ss, tx),
         NEW n, Height(ss, tx, n), ss[Len(ss)].to = Len(tx)
  PROVE  Nested(ss, t2) /\ Height(ss, t2, n) /\ DepthIn(t2, Len(t2)) = n
<1>1. Longer(tx, t2)
  OBVIOUS
<1>2. Len(t2) = Len(tx) + 1 /\ Len(tx) \in Nat /\ tx \in Seq(TextKey) /\ t2[Len(t2)] # ")"
  BY LongerIs
<1>3. DepthIn(t2, Len(t2)) = n
  <2>1. Len(t2) = ss[Len(ss)].to + 1
    BY <1>2
  <2>2. t2[Len(t2)] # ")"
    BY <1>2
  <2> DEFINE p == Len(t2)
  <2>3. p = ss[Len(ss)].to + 1 /\ t2[p] # ")"
    BY <2>1, <2>2
  <2> HIDE DEF p
  <2>0. \A q : q = ss[Len(ss)].to + 1 => (t2[q] # ")" => DepthIn(t2, q) = n)
    BY <1>1, NextDepth
  <2>4. DepthIn(t2, p) = n
    BY ONLY <2>0, <2>3, Zenon
  <2> QED BY <2>4 DEF p
<1>4. ASSUME NEW i \in 1 .. Len(ss), ss[i].from > 0, ss[i].key = "(",
             NEW q \in Len(tx) + 1 .. Len(t2)
      PROVE  DepthIn(t2, q) > Level(ss[i], tx)
  <2>1. q = Len(t2)
    BY <1>2
  <2>2. Level(ss[i], tx) < n /\ n \in Int /\ Level(ss[i], tx) \in Int
    BY <1>2, <1>4, HeightIs
  <2> QED BY <1>3, <2>1, <2>2
<1>5. Nested(ss, t2)
  BY <1>1, <1>4, NestedStays, Zenon
<1>6. Height(ss, t2, n)
  BY <1>1, HeightStays
<1> QED BY <1>3, <1>5, <1>6

LEMMA ChainCut ==
  ASSUME NEW ss, NEW zs, NEW n \in Nat, \A i \in 1 .. n : zs[i] = ss[i], NEW i \in 1 .. n, NEW j \in 1 .. n
  PROVE  Chain(zs, j, i) <=> Chain(ss, j, i)
<1>1. \A k \in j + 1 .. i : zs[k] = ss[k] /\ zs[k - 1] = ss[k - 1]
  <2>1. \A k \in j + 1 .. i : k \in 1 .. n /\ k - 1 \in 1 .. n
    OBVIOUS
  <2> QED BY <2>1
<1> QED BY <1>1, Zenon DEF Chain

LEMMA NestedCut ==
  ASSUME NEW ss, NEW tx, Nested(ss, tx), Len(ss) \in Nat, NEW n \in 0 .. Len(ss), NEW zs, Len(zs) = n,
         \A i \in 1 .. n : zs[i] = ss[i]
  PROVE  Nested(zs, tx)
<1>1. ASSUME NEW i \in 1 .. n
      PROVE  i \in 1 .. Len(ss) /\ zs[i] = ss[i] /\ n \in Nat
  OBVIOUS
<1>2. \A i \in 1 .. n : Item(zs[i], tx)
  BY <1>1, NestedIs
<1>3. ASSUME NEW i \in 2 .. n PROVE OnTop(zs[i - 1], zs[i], tx)
  <2>1. i \in 1 .. n /\ i - 1 \in 1 .. n /\ i \in 2 .. Len(ss) /\ i \in 1 .. Len(ss)
    OBVIOUS
  <2>2. OnTop(ss[i - 1], ss[i], tx)
    BY <2>1, NestedIs
  <2> QED BY <1>1, <2>1, <2>2, Zenon
<1>4. ASSUME NEW i \in 1 .. n, NEW j \in 1 .. i - 1
      PROVE  /\ Over(zs[j], zs[i], tx)
             /\ Chain(zs, j, i) => Climb(zs[j], zs[i], tx)
             /\ zs[j].from > 0 /\ (\A k \in j .. i - 1 : zs[k].key # "(") =>
                  Level(zs[j], tx) = Level(zs[i], tx)
  <2>1. j \in 1 .. n /\ i \in 1 .. Len(ss) /\ n \in Nat
    OBVIOUS
  <2>2. /\ Over(ss[j], ss[i], tx)
        /\ Chain(ss, j, i) => Climb(ss[j], ss[i], tx)
        /\ ss[j].from > 0 /\ (\A k \in j .. i - 1 : ss[k].key # "(") =>
             Level(ss[j], tx) = Level(ss[i], tx)
    BY <2>1, NestedIs, Zenon
  <2>3. Chain(zs, j, i) <=> Chain(ss, j, i)
    BY <2>1, ChainCut
  <2>4. zs[j] = ss[j] /\ zs[i] = ss[i] /\ \A k \in j .. i - 1 : zs[k] = ss[k]
    <3>1. \A k \in j .. i - 1 : k \in 1 .. n
      BY <2>1
    <3> QED BY <2>1, <3>1
  <2> QED BY <2>2, <2>3, <2>4, Zenon
<1> QED BY <1>2, <1>3, <1>4, Zenon DEF Nested

\* What has to be known of a symbol to push it.
Fits(x, y, tx, n) ==
  /\ x.from > 0 /\ Level(x, tx) = n /\ Item(x, tx)
  /\ x.key \in OperandKey /\ y.key \in OperandKey => tx[x.from] = "(" /\ tx[y.to] # "id"
  /\ x.key \in OperandKey => Kept(tx, n, x.from, x.to, y.key)
  /\ y.key \in OperandKey => Kept(tx, n, y.from, y.to, x.key)
Climbing(ss, x, tx) ==
  x.key \in Operator =>
    \A j \in 1 .. Len(ss) : ss[j].key \in Operator /\ Chain(ss, j, Len(ss)) => Climb(ss[j], x, tx)

LEMMA NestedPush ==
  ASSUME NEW ss, NEW st, NEW b, NEW tx \in Seq(TextKey), Solid(ss, st, b, tx), Nested(ss, tx),
         NEW n, Height(ss, tx, n),
         NEW zs, Len(zs) = Len(ss) + 1, \A i \in 1 .. Len(ss) : zs[i] = ss[i],
         Fits(zs[Len(zs)], ss[Len(ss)], tx, n), Climbing(ss, zs[Len(zs)], tx)
  PROVE  /\ Nested(zs, tx)
         /\ zs[Len(zs)].key = "(" => Height(zs, tx, n + 1)
         /\ zs[Len(zs)].key # "(" => Height(zs, tx, n)
<1> DEFINE m == Len(ss)
           x == zs[m + 1]
           y == ss[m]
<1>1. m \in Nat /\ m \in 1 .. Len(ss) /\ b \in 2 .. 3 /\ b <= m /\ Len(zs) = m + 1
  <2>1. Len(ss) \in Nat /\ b \in 2 .. 3 /\ b <= Len(ss)
    BY SolidIs
  <2> QED BY <2>1
<1>2. zs[Len(zs)] = x
  BY <1>1
<1>3. Fits(x, y, tx, n) /\ Climbing(ss, x, tx)
  BY <1>2
<1>4. y.from \in Nat /\ (y.from = 0 => y.key \in Grounds)
  BY <1>1, SymbolIs, SymbolsAre
<1>5. n \in Int /\ n >= 0
      /\ \A i \in 1 .. Len(ss) : ss[i].from > 0 =>
           /\ Level(ss[i], tx) \in Int /\ 0 <= Level(ss[i], tx) /\ Level(ss[i], tx) <= n
           /\ ss[i].key = "(" => Level(ss[i], tx) < n
  BY HeightIs
<1>6. /\ y.from = 0 => n = 0
      /\ y.from > 0 /\ y.key = "(" => n = Level(y, tx) + 1
      /\ y.from > 0 /\ y.key # "(" => n = Level(y, tx)
  BY DEF Height
<1>7. \A i \in 1 .. m : zs[i] = ss[i]
  OBVIOUS
<1>8. x.from > 0 /\ Level(x, tx) = n
  BY <1>3 DEF Fits
<1>9. /\ x.key = "(" => Height(zs, tx, n + 1)
      /\ x.key # "(" => Height(zs, tx, n)
  BY <1>2, <1>8 DEF Height
<1> HIDE DEF x, y, m
<1>10. OnTop(y, x, tx)
  <2>1. y.key = "(" => Level(x, tx) = Level(y, tx) + 1
    <3>1. y.key = "(" => y.from # 0
      BY <1>4, GroundKeys, Zenon
    <3> QED BY <1>4, <1>6, <1>8, <3>1
  <2> QED BY <1>3, <1>6, <1>8, <2>1, Zenon DEF OnTop, Fits
<1>11. ASSUME NEW i \in 1 .. m + 1 PROVE i \in 1 .. m \/ i = m + 1
  BY <1>1
<1>12. ASSUME NEW j \in 1 .. m
       PROVE  /\ Over(ss[j], x, tx)
              /\ Chain(zs, j, m + 1) => Climb(ss[j], x, tx)
              /\ ss[j].from > 0 /\ (\A k \in j .. m : zs[k].key # "(") => Level(ss[j], tx) = Level(x, tx)
  <2>1. Over(ss[j], x, tx)
    BY <1>5, <1>8, Zenon DEF Over, m
  <2>2. Chain(zs, j, m + 1) => Climb(ss[j], x, tx)
    <3>1. Chain(zs, j, m + 1) => Chain(zs, j, m)
      BY <1>1 DEF Chain
    <3>2. Chain(zs, j, m) <=> Chain(ss, j, m)
      <4>1. m \in Nat /\ m \in 1 .. m
        BY <1>1 DEF m
      <4> QED BY ONLY <1>7, <1>12, <4>1, ChainCut, SMTT(30)
    <3>3. Climbing(ss, x, tx) => (Chain(ss, j, m) => Climb(ss[j], x, tx))
      BY Zenon DEF Climbing, Climb, m
    <3> QED BY <1>3, <3>1, <3>2, <3>3
  <2>3. ASSUME ss[j].from > 0, \A k \in j .. m : zs[k].key # "(" PROVE Level(ss[j], tx) = Level(x, tx)
    <3>1. m \in j .. m /\ j \in Nat
      BY <1>1
    <3>2. y.key # "("
      BY <1>1, <1>7, <2>3, <3>1 DEF y, m
    <3>3. j = m \/ j \in 1 .. m - 1
      BY <1>1
    <3>4. CASE j = m
      BY <1>6, <1>8, <2>3, <3>2, <3>4 DEF y
    <3>5. CASE j \in 1 .. m - 1
      <4>1. m \in 1 .. Len(ss) /\ \A k \in j .. m - 1 : k \in 1 .. m /\ k \in j .. m
        BY <1>1, <3>5 DEF m
      <4>2. \A k \in j .. m - 1 : ss[k].key # "("
        BY <1>7, <2>3, <4>1
      <4>3. Level(ss[j], tx) = Level(ss[m], tx)
        BY <2>3, <3>5, <4>1, <4>2, NestedIs
      <4>4. y.from > 0
        <5>1. m > b
          <6>1. j > b
            BY <2>3, <1>1, SymbolsAre DEF m
          <6> QED BY <1>1, <3>5, <6>1
        <5> QED BY <1>1, <5>1, SymbolsAre DEF y, m
      <4> QED BY <1>6, <1>8, <3>2, <4>3, <4>4 DEF y
    <3> QED BY <3>3, <3>4, <3>5
  <2> QED BY <2>1, <2>2, <2>3
<1>13. \A i \in 1 .. m + 1 : Item(zs[i], tx)
  <2>1. Item(x, tx)
    BY <1>3, Zenon DEF Fits
  <2>2. \A i \in 1 .. m : Item(ss[i], tx)
    BY NestedIs DEF m
  <2> QED BY <1>7, <1>11, <2>1, <2>2 DEF x
<1>14. ASSUME NEW i \in 2 .. m + 1 PROVE OnTop(zs[i - 1], zs[i], tx)
  <2>1. CASE i = m + 1
    <3>1. zs[i - 1] = y /\ zs[i] = x
      BY <1>1, <1>7, <2>1 DEF x, y
    <3> QED BY <1>10, <3>1
  <2>2. CASE i # m + 1
    <3>1. i \in 2 .. m /\ i \in 1 .. m /\ i - 1 \in 1 .. m
      BY <1>1, <2>2
    <3>2. OnTop(ss[i - 1], ss[i], tx)
      BY <3>1, NestedIs DEF m
    <3> QED BY <1>7, <3>1, <3>2, Zenon
  <2> QED BY <2>1, <2>2
<1>15. ASSUME NEW i \in 1 .. m + 1, NEW j \in 1 .. i - 1
       PROVE  /\ Over(zs[j], zs[i], tx)
              /\ Chain(zs, j, i) => Climb(zs[j], zs[i], tx)
              /\ zs[j].from > 0 /\ (\A k \in j .. i - 1 : zs[k].key # "(") =>
                   Level(zs[j], tx) = Level(zs[i], tx)
  <2>1. j \in 1 .. m
    BY <1>1
  <2>2. CASE i = m + 1
    <3>1. zs[i] = x /\ zs[j] = ss[j] /\ i - 1 = m
      BY <1>1, <1>7, <2>1, <2>2 DEF x
    <3> QED BY <1>12, <2>1, <2>2, <3>1, Zenon
  <2>3. CASE i \in 1 .. m
    <3>1. /\ Over(ss[j], ss[i], tx)
          /\ Chain(ss, j, i) => Climb(ss[j], ss[i], tx)
          /\ ss[j].from > 0 /\ (\A k \in j .. i - 1 : ss[k].key # "(") =>
               Level(ss[j], tx) = Level(ss[i], tx)
      BY <2>3, NestedIs, Zenon DEF m
    <3>2. Chain(zs, j, i) <=> Chain(ss, j, i)
      BY <1>1, <1>7, <2>1, <2>3, ChainCut
    <3>3. zs[j] = ss[j] /\ zs[i] = ss[i] /\ \A k \in j .. i - 1 : zs[k] = ss[k]
      <4>1. \A k \in j .. i - 1 : k \in 1 .. m
        BY <1>1, <2>3
      <4> QED BY <1>7, <2>1, <2>3, <4>1
    <3> QED BY <3>1, <3>2, <3>3, Zenon
  <2> QED BY <1>11, <2>2, <2>3
<1>16. Nested(zs, tx)
  BY <1>1, <1>13, <1>14, <1>15, Zenon DEF Nested
<1> QED BY <1>2, <1>9, <1>16 DEF x

-----------------------------------------------------------------------------
(* last_priority and the priorities that the parentheses keep. *)

\* The operators of the stack that must have left their priority.
Ending(ss, tx, i) ==
  ss[i].key \in Operator /\ \A j \in i + 2 .. Len(ss) : Level(ss[j], tx) = Level(ss[i], tx) => ss[j].key = "("

LEMMA SettledIs ==
  ASSUME NEW ss, NEW tx, NEW pr, NEW l, NEW n
  PROVE  Settled(ss, tx, pr, l, n) <=>
           \A i \in 1 .. Len(ss) : Ending(ss, tx, i) /\ Level(ss[i], tx) < n =>
                                     Left(ss[i], tx, SavedAt(pr, l, Level(ss[i], tx)))
  BY Zenon DEF Settled, Ending

\* The same priorities, in another form.
LEMMA SettledAs ==
  ASSUME NEW ss, NEW tx, NEW pr, NEW l, NEW n, Settled(ss, tx, pr, l, n), NEW p2, NEW l2, NEW m,
         \A i \in 1 .. Len(ss) : ss[i].key \in Operator /\ Level(ss[i], tx) < m =>
           Level(ss[i], tx) < n /\ SavedAt(p2, l2, Level(ss[i], tx)) = SavedAt(pr, l, Level(ss[i], tx))
  PROVE  Settled(ss, tx, p2, l2, m)
  BY Zenon DEF Settled

LEMMA LeftStays ==
  ASSUME NEW tx, NEW t2, Longer(tx, t2), NEW x, x.from \in 1 .. Len(tx), NEW l, Left(x, tx, l)
  PROVE  Left(x, t2, l)
  BY LevelStays, TighterStays DEF Left

LEMMA SettledStays ==
  ASSUME NEW tx, NEW t2, Longer(tx, t2), NEW ss, NEW st, NEW b, Solid(ss, st, b, tx),
         NEW pr, NEW l, NEW n, Settled(ss, tx, pr, l, n)
  PROVE  Settled(ss, t2, pr, l, n)
<1>1. SUFFICES ASSUME NEW i \in 1 .. Len(ss), Ending(ss, t2, i), Level(ss[i], t2) < n
               PROVE  Left(ss[i], t2, SavedAt(pr, l, Level(ss[i], t2)))
  BY SettledIs, Zenon
<1>2. tx \in Seq(TextKey) /\ Len(ss) \in Nat /\ b \in 2 .. 3
  BY LongerIs, SolidIs
<1>3. ss[i].from > 0 /\ ss[i].from \in 1 .. Len(tx) /\ i > b
  BY <1>1, <1>2, SymbolsAre DEF Ending
<1>4. Level(ss[i], t2) = Level(ss[i], tx)
  BY <1>3, LevelStays
<1>5. \A j \in i + 2 .. Len(ss) : Level(ss[j], t2) = Level(ss[j], tx)
  <2>1. SUFFICES ASSUME NEW j \in i + 2 .. Len(ss) PROVE Level(ss[j], t2) = Level(ss[j], tx)
    OBVIOUS
  <2>2. j \in 1 .. Len(ss) /\ j > b
    BY <1>2, <1>3
  <2>3. ss[j].from \in 1 .. Len(tx)
    BY <1>2, <2>2, SymbolsAre
  <2> QED BY <2>3, LevelStays
<1>6. Ending(ss, tx, i)
  BY <1>1, <1>4, <1>5, Zenon DEF Ending
<1>7. Left(ss[i], tx, SavedAt(pr, l, Level(ss[i], tx)))
  BY <1>1, <1>4, <1>6, SettledIs
<1> QED BY <1>3, <1>4, <1>7, LeftStays

\* What is taken off had the depth n or more.
LEMMA SettledCut ==
  ASSUME NEW ss, NEW tx, NEW pr, NEW l, NEW n, Settled(ss, tx, pr, l, n), Len(ss) \in Nat,
         NEW m \in 0 .. Len(ss), NEW zs, Len(zs) = m, \A i \in 1 .. m : zs[i] = ss[i],
         \A i \in m + 1 .. Len(ss) : ss[i].key = "(" \/ ~(Level(ss[i], tx) < n)
  PROVE  Settled(zs, tx, pr, l, n)
<1>1. SUFFICES ASSUME NEW i \in 1 .. m, Ending(zs, tx, i), Level(zs[i], tx) < n
               PROVE  Left(zs[i], tx, SavedAt(pr, l, Level(zs[i], tx)))
  BY SettledIs, Zenon
<1>2. zs[i] = ss[i] /\ i \in 1 .. Len(ss)
  OBVIOUS
<1>3. ASSUME NEW j \in i + 2 .. Len(ss), Level(ss[j], tx) = Level(ss[i], tx) PROVE ss[j].key = "("
  <2>1. j \in i + 2 .. m \/ j \in m + 1 .. Len(ss)
    OBVIOUS
  <2>2. CASE j \in i + 2 .. m
    <3>1. zs[j] = ss[j]
      BY <2>2
    <3> QED BY <1>1, <1>2, <1>3, <2>2, <3>1, Zenon DEF Ending
  <2>3. CASE j \in m + 1 .. Len(ss)
    BY <1>1, <1>2, <1>3, <2>3, Zenon
  <2> QED BY <2>1, <2>2, <2>3
<1>4. Ending(ss, tx, i)
  BY <1>1, <1>2, <1>3, Zenon DEF Ending
<1> QED BY <1>1, <1>2, <1>4, SettledIs

\* What is pushed is no operator, or not of a depth below n.
LEMMA SettledPush ==
  ASSUME NEW ss, NEW tx, NEW pr, NEW l, NEW n, Settled(ss, tx, pr, l, n), Len(ss) \in Nat,
         NEW zs, Len(zs) = Len(ss) + 1, \A i \in 1 .. Len(ss) : zs[i] = ss[i],
         zs[Len(zs)].key \notin Operator \/ ~(Level(zs[Len(zs)], tx) < n)
  PROVE  Settled(zs, tx, pr, l, n)
<1>1. SUFFICES ASSUME NEW i \in 1 .. Len(zs), Ending(zs, tx, i), Level(zs[i], tx) < n
               PROVE  Left(zs[i], tx, SavedAt(pr, l, Level(zs[i], tx)))
  BY SettledIs, Zenon
<1>2. i # Len(zs)
  BY <1>1, Zenon DEF Ending
<1>3. i \in 1 .. Len(ss)
  BY <1>2
<1>4. zs[i] = ss[i] /\ \A j \in i + 2 .. Len(ss) : zs[j] = ss[j] /\ j \in i + 2 .. Len(zs)
  BY <1>3
<1>5. Ending(ss, tx, i)
  BY <1>1, <1>4, Zenon DEF Ending
<1> QED BY <1>1, <1>3, <1>4, <1>5, SettledIs

\* On top is a symbol of the depth of the next token.
LEMMA SettledTop ==
  ASSUME NEW zs, NEW tx, NEW pr, NEW l, Len(pr) \in Nat, Settled(zs, tx, pr, l, Len(pr)),
         Len(zs) \in Nat, Len(zs) > 1, Level(zs[Len(zs)], tx) = Len(pr), zs[Len(zs)].key # "(", NEW l2,
         \A i \in 1 .. Len(zs) : zs[i].key \in Operator => Level(zs[i], tx) \in Int,
         \A i \in Len(zs) - 1 .. Len(zs) : zs[i].key \in Operator => Left(zs[i], tx, l2)
  PROVE  Settled(zs, tx, pr, l2, Len(pr) + 1)
<1>1. SUFFICES ASSUME NEW i \in 1 .. Len(zs), Ending(zs, tx, i), Level(zs[i], tx) < Len(pr) + 1
               PROVE  Left(zs[i], tx, SavedAt(pr, l2, Level(zs[i], tx)))
  BY SettledIs, Zenon
<1>2. Level(zs[i], tx) \in Int /\ zs[i].key \in Operator
  BY <1>1 DEF Ending
<1>3. CASE Level(zs[i], tx) < Len(pr)
  <2>1. Left(zs[i], tx, SavedAt(pr, l, Level(zs[i], tx)))
    BY <1>1, <1>3, SettledIs
  <2>2. Level(zs[i], tx) # Len(pr)
    BY <1>2, <1>3
  <2>3. SavedAt(pr, l, Level(zs[i], tx)) = SavedAt(pr, l2, Level(zs[i], tx))
    BY <2>2 DEF SavedAt
  <2> QED BY <2>1, <2>3
<1>4. CASE Level(zs[i], tx) = Len(pr)
  <2>1. Len(zs) \notin i + 2 .. Len(zs)
    BY <1>1, <1>4, Zenon DEF Ending
  <2>2. i \in Len(zs) - 1 .. Len(zs)
    BY <2>1
  <2>3. SavedAt(pr, l2, Level(zs[i], tx)) = l2
    BY <1>4 DEF SavedAt
  <2> QED BY <1>2, <2>2, <2>3
<1> QED BY <1>1, <1>2, <1>3, <1>4

LEMMA MetStays ==
  ASSUME NEW tx, NEW t2, Longer(tx, t2), NEW pr, NEW l, NEW n, NEW m, Met(tx, pr, l, n, m)
  PROVE  Met(t2, pr, l, n, m)
<1>1. \A d : \A q \in At(tx, d) : q \in At(t2, d) /\ t2[q] = tx[q]
  BY OperatorsStay
<1>2. SUFFICES ASSUME NEW d \in 0 .. n
               PROVE  \/ SavedAt(pr, l, d) = 255
                      \/ \E s \in At(t2, d) : s <= m /\ Priority[t2[s]] = SavedAt(pr, l, d)
  BY DEF Met
<1>3. \/ SavedAt(pr, l, d) = 255
      \/ \E s \in At(tx, d) : s <= m /\ Priority[tx[s]] = SavedAt(pr, l, d)
  BY DEF Met
<1> QED BY <1>1, <1>3

LEMMA MetMore ==
  ASSUME NEW tx \in Seq(TextKey), NEW pr, NEW l, NEW n, NEW m \in Nat, Met(tx, pr, l, n, m),
         NEW m2 \in Nat, m <= m2
  PROVE  Met(tx, pr, l, n, m2)
<1>1. SUFFICES ASSUME NEW d \in 0 .. n
               PROVE  \/ SavedAt(pr, l, d) = 255
                      \/ \E s \in At(tx, d) : s <= m2 /\ Priority[tx[s]] = SavedAt(pr, l, d)
  BY DEF Met
<1>2. \/ SavedAt(pr, l, d) = 255
      \/ \E s \in At(tx, d) : s <= m /\ Priority[tx[s]] = SavedAt(pr, l, d)
  BY DEF Met
<1>3. \A s \in At(tx, d) : s <= m => s <= m2
  BY OperatorsArePlaces
<1> QED BY <1>2, <1>3

\* Another priority at the depth of the next token, or the same ones in another form.
LEMMA MetLast ==
  ASSUME NEW tx, NEW pr, NEW l, NEW n \in Nat, NEW m, NEW p2, NEW l2, Met(tx, pr, l, n, m),
         NEW k \in Nat,
         \A d \in 0 .. k : \/ d \in 0 .. n /\ SavedAt(p2, l2, d) = SavedAt(pr, l, d)
                           \/ SavedAt(p2, l2, d) = 255
                           \/ \E s \in At(tx, d) : s <= m /\ Priority[tx[s]] = SavedAt(p2, l2, d)
  PROVE  Met(tx, p2, l2, k, m)
<1>1. SUFFICES ASSUME NEW d \in 0 .. k
               PROVE  \/ SavedAt(p2, l2, d) = 255
                      \/ \E s \in At(tx, d) : s <= m /\ Priority[tx[s]] = SavedAt(p2, l2, d)
  BY DEF Met
<1>2. CASE d \in 0 .. n /\ SavedAt(p2, l2, d) = SavedAt(pr, l, d)
  <2>1. \/ SavedAt(pr, l, d) = 255
        \/ \E s \in At(tx, d) : s <= m /\ Priority[tx[s]] = SavedAt(pr, l, d)
    BY <1>2 DEF Met
  <2> QED BY <1>2, <2>1
<1> QED BY <1>1, <1>2

\* The priorities when a parenthesis is opened, ...
LEMMA SavedEnter ==
  ASSUME NEW pr, Len(pr) \in Nat, NEW l, NEW p2, Len(p2) = Len(pr) + 1,
         \A i \in 1 .. Len(pr) : p2[i] = pr[i], p2[Len(pr) + 1] = l
  PROVE  /\ \A e \in Nat : e <= Len(pr) => SavedAt(p2, 255, e) = SavedAt(pr, l, e)
         /\ SavedAt(p2, 255, Len(pr) + 1) = 255
<1>1. /\ Len(p2) = Len(pr) + 1 /\ Len(pr) \in Nat
      /\ (\A i \in 1 .. Len(pr) : p2[i] = pr[i]) /\ p2[Len(pr) + 1] = l
  OBVIOUS
<1>2. ASSUME NEW e \in Nat, e <= Len(pr) PROVE SavedAt(p2, 255, e) = SavedAt(pr, l, e)
  <2>1. e # Len(p2)
    BY <1>1, <1>2
  <2>2. SavedAt(p2, 255, e) = p2[e + 1]
    BY <2>1 DEF SavedAt
  <2>3. e = Len(pr) \/ e + 1 \in 1 .. Len(pr)
    BY <1>1, <1>2
  <2>4. CASE e = Len(pr)
    <3>1. SavedAt(pr, l, e) = l
      BY <2>4 DEF SavedAt
    <3> QED BY <1>1, <2>2, <2>4, <3>1
  <2>5. CASE e # Len(pr)
    <3>1. SavedAt(pr, l, e) = pr[e + 1]
      BY <2>5 DEF SavedAt
    <3> QED BY <1>1, <2>2, <2>3, <2>5, <3>1
  <2> QED BY <2>4, <2>5
<1>3. SavedAt(p2, 255, Len(pr) + 1) = 255
  BY <1>1, SMTT(30) DEF SavedAt
<1> QED BY <1>2, <1>3

\* ... when it is closed, ...
LEMMA SavedLeave ==
  ASSUME NEW pr \in Seq(1 .. 255), NEW l, Len(pr) > 0
  PROVE  /\ Pop(pr, 1) \in Seq(1 .. 255) /\ Len(Pop(pr, 1)) = Len(pr) - 1 /\ Len(pr) \in Nat
         /\ Last(pr) \in 1 .. 255
         /\ \A e \in Nat : e < Len(pr) => SavedAt(Pop(pr, 1), Last(pr), e) = SavedAt(pr, l, e)
<1> DEFINE n == Len(pr) - 1
           p2 == SubSeq(pr, 1, n)
<1>0. Pop(pr, 1) = p2 /\ Last(pr) = pr[Len(pr)]
  BY DEF Pop, Last
<1>a. Len(pr) \in Nat /\ pr[Len(pr)] \in 1 .. 255
  <2>1. Len(pr) \in Nat /\ Len(pr) \in 1 .. Len(pr)
    OBVIOUS
  <2> QED BY <2>1, ElementIs
<1>1. n \in 0 .. Len(pr) /\ Len(pr) \in Nat /\ n \in Nat /\ n + 1 = Len(pr) /\ pr[n + 1] \in 1 .. 255
  <2>1. n + 1 = Len(pr) /\ n \in Nat /\ n \in 0 .. Len(pr)
    BY <1>a
  <2> QED BY <1>a, <2>1
<1>2. p2 \in Seq(1 .. 255) /\ Len(p2) = n /\ \A i \in 1 .. n : p2[i] = pr[i]
  BY <1>1, CutIs, ZenonT(60)
<1> HIDE DEF p2, n
<1>3. ASSUME NEW e \in Nat, e < Len(pr) PROVE SavedAt(p2, pr[n + 1], e) = SavedAt(pr, l, e)
  <2>1. SavedAt(pr, l, e) = pr[e + 1]
    BY <1>1, <1>3 DEF SavedAt
  <2>2. e = n \/ (e # n /\ e + 1 \in 1 .. n)
    BY <1>1, <1>3
  <2> QED BY <1>2, <2>1, <2>2 DEF SavedAt
<1>4. Len(p2) = Len(pr) - 1
  BY <1>1, <1>2
<1> QED BY <1>0, <1>1, <1>2, <1>3, <1>4, ZenonT(60)

\* ... and when only the last one changes.
LEMMA SavedSame ==
  ASSUME NEW pr, NEW l, NEW l2, NEW e, e # Len(pr)
  PROVE  SavedAt(pr, l2, e) = SavedAt(pr, l, e)
  BY DEF SavedAt
LEMMA SavedHere ==
  ASSUME NEW pr, NEW l
  PROVE  SavedAt(pr, l, Len(pr)) = l
  BY DEF SavedAt

\* Another operand on top, of the same depth.
LEMMA SettledSwap ==
  ASSUME NEW ss, NEW tx, NEW pr, NEW l, NEW n, Settled(ss, tx, pr, l, n), Len(ss) \in Nat,
         NEW zs, Len(zs) = Len(ss), \A i \in 1 .. Len(ss) - 1 : zs[i] = ss[i],
         Level(zs[Len(ss)], tx) = Level(ss[Len(ss)], tx),
         ss[Len(ss)].key # "(", zs[Len(ss)].key \notin Operator \cup {"("}
  PROVE  Settled(zs, tx, pr, l, n)
<1>1. SUFFICES ASSUME NEW i \in 1 .. Len(zs), Ending(zs, tx, i), Level(zs[i], tx) < n
               PROVE  Left(zs[i], tx, SavedAt(pr, l, Level(zs[i], tx)))
  BY SettledIs, Zenon
<1>2. i # Len(ss) /\ zs[i].key \in Operator
  BY <1>1, Zenon DEF Ending
<1>3. i \in 1 .. Len(ss) - 1 /\ i \in 1 .. Len(ss)
  BY <1>2
<1>4. ASSUME NEW j \in i + 2 .. Len(ss), Level(ss[j], tx) = Level(ss[i], tx) PROVE ss[j].key = "("
  <2>1. j \in 1 .. Len(ss) - 1 \/ j = Len(ss)
    BY <1>3
  <2>2. CASE j = Len(ss)
    <3>1. zs[j].key = "("
      BY <1>1, <1>3, <1>4, <2>2, Zenon DEF Ending
    <3> QED BY <2>2, <3>1
  <2>3. CASE j \in 1 .. Len(ss) - 1
    BY <1>1, <1>3, <1>4, <2>3, Zenon DEF Ending
  <2> QED BY <2>1, <2>2, <2>3
<1>5. Ending(ss, tx, i)
  BY <1>2, <1>3, <1>4, Zenon DEF Ending
<1> QED BY <1>1, <1>3, <1>5, SettledIs

-----------------------------------------------------------------------------
(* The symbols next to each other. *)

\* What is said of two symbols, one on the other.
LEMMA Pairs ==
  ASSUME NEW ss, NEW st, NEW b, NEW tx \in Seq(TextKey), Solid(ss, st, b, tx), Nested(ss, tx),
         NEW i \in 2 .. Len(ss), ss[i].from > 0
  PROVE  /\ i - 1 \in 1 .. Len(ss) /\ i \in 1 .. Len(ss)
         /\ OnTop(ss[i - 1], ss[i], tx)
         /\ ss[i - 1].from > 0 /\ ss[i - 1].key # "(" => Level(ss[i - 1], tx) = Level(ss[i], tx)
<1>1. Len(ss) \in Nat
  BY SolidIs
<1>2. i - 1 \in 1 .. Len(ss) /\ i \in 1 .. Len(ss) /\ i - 1 \in 1 .. i - 1
  BY <1>1
<1>3. OnTop(ss[i - 1], ss[i], tx)
  BY <1>2, NestedIs
<1>4. (i - 1) .. (i - 1) = {i - 1}
  BY <1>2
<1>5. ss[i - 1].from > 0 /\ (\A k \in (i - 1) .. (i - 1) : ss[k].key # "(") =>
        Level(ss[i - 1], tx) = Level(ss[i], tx)
  BY <1>2, NestedIs
<1>6. ss[i - 1].key # "(" => \A k \in (i - 1) .. (i - 1) : ss[k].key # "("
  BY <1>4
<1> QED BY <1>2, <1>3, <1>5, <1>6

LEMMA HeightUnder ==
  ASSUME NEW ss, NEW st, NEW b, NEW tx \in Seq(TextKey), Solid(ss, st, b, tx), Nested(ss, tx),
         NEW i \in 2 .. Len(ss), ss[i].from > 0,
         NEW zs, Len(zs) = i - 1, zs[i - 1] = ss[i - 1]
  PROVE  Height(zs, tx, Level(ss[i], tx))
<1>1. /\ OnTop(ss[i - 1], ss[i], tx)
      /\ ss[i - 1].from > 0 /\ ss[i - 1].key # "(" => Level(ss[i - 1], tx) = Level(ss[i], tx)
  BY Pairs
<1>2. /\ ss[i - 1].from = 0 => Level(ss[i], tx) = 0
      /\ ss[i - 1].key = "(" => Level(ss[i], tx) = Level(ss[i - 1], tx) + 1
  BY <1>1, Zenon DEF OnTop
<1> QED BY <1>1, <1>2 DEF Height

\* An operator below the operand on top: it is on the same level, and so are the
\* operators below it that a walk comes to.
LEMMA UnderTop ==
  ASSUME NEW ss, NEW st, NEW b, NEW tx \in Seq(TextKey), Solid(ss, st, b, tx), Nested(ss, tx),
         NEW n, Height(ss, tx, n), NEW m, m = Len(ss), m > b, ss[m].key \in OperandKey,
         NEW j \in 1 .. m, ss[j].key \in Operator, Level(ss[j], tx) = n, Chain(ss, j, m)
  PROVE  /\ m - 1 \in 1 .. m /\ ss[m - 1].key \in Operator /\ Level(ss[m - 1], tx) = n
         /\ j = m - 1 \/ Climb(ss[j], ss[m - 1], tx)
<1>1. m \in Nat /\ b \in 2 .. 3 /\ m \in 2 .. Len(ss) /\ m \in 1 .. Len(ss)
  <2>1. Len(ss) \in Nat /\ b \in 2 .. 3 /\ b <= Len(ss)
    BY SolidIs
  <2> QED BY <2>1
<1>2. ss[m].from > 0 /\ ss[m].key # "(" /\ ss[m].key \notin Operator
  <2>1. ss[m].from > 0
    BY <1>1, SymbolsAre
  <2> QED BY <2>1, GroundKeys
<1>3. m - 1 \in 1 .. m /\ m - 1 \in 1 .. Len(ss) /\ m - 1 \in Nat
  BY <1>1
<1>4. j # m /\ j \in 1 .. m - 1 /\ j \in 1 .. Len(ss) /\ m \in j + 1 .. m
  <2>1. j # m
    BY <1>2
  <2> QED BY <1>1, <2>1
<1>5. ss[j].from > 0
  BY <1>4, SymbolsAre
<1>6. ss[m - 1].key \notin OperandKey
  BY <1>4, Zenon DEF Chain
<1>7. m - 1 > b
  <2>1. j > b
    BY <1>4, <1>5, SymbolsAre
  <2> QED BY <1>1, <1>4, <2>1
<1>8. ss[m - 1].from > 0 /\ m - 1 \in b + 1 .. Len(ss)
  BY <1>1, <1>3, <1>7, SymbolsAre
<1>9. n = Level(ss[m], tx)
  BY <1>2 DEF Height
<1>10. n \in Int /\ Level(ss[m - 1], tx) \in Int
  BY <1>3, <1>8, HeightIs
<1>11. ss[m - 1].key # "("
  <2>1. SUFFICES ASSUME ss[m - 1].key = "(" PROVE FALSE
    OBVIOUS
  <2>2. m - 1 \in 1 .. m - 1
    BY <1>1, <1>7
  <2>3. Over(ss[m - 1], ss[m], tx)
    BY <1>1, <2>2, NestedIs
  <2>4. Level(ss[m - 1], tx) < n
    BY <1>8, <1>9, <2>1, <2>3, Zenon DEF Over
  <2>5. j # m - 1
    BY <2>1, GroundKeys
  <2>6. j \in 1 .. (m - 1) - 1
    BY <1>1, <1>4, <2>5
  <2>7. Over(ss[j], ss[m - 1], tx)
    BY <1>3, <2>6, NestedIs
  <2>8. n <= Level(ss[m - 1], tx)
    BY <1>5, <2>7, Zenon DEF Over
  <2> QED BY <1>10, <2>4, <2>8
<1>12. ss[m - 1].key \in Operator
  BY <1>6, <1>8, <1>11, PlacedIs
<1>13. Level(ss[m - 1], tx) = n
  BY <1>1, <1>2, <1>8, <1>9, <1>11, Pairs
<1>14. ASSUME j # m - 1 PROVE Climb(ss[j], ss[m - 1], tx)
  <2>1. j \in 1 .. (m - 1) - 1
    BY <1>1, <1>4, <1>14
  <2>2. Chain(ss, j, m - 1)
    <3>1. \A k \in j + 1 .. m - 1 : k \in j + 1 .. m
      BY <1>1, <1>4
    <3> QED BY <3>1, Zenon DEF Chain
  <2> QED BY <1>3, <2>1, <2>2, NestedIs
<1> QED BY <1>3, <1>12, <1>13, <1>14

\* What the operator of key k, which comes to stand at position p, needs.
Firm(ss, tx, n, k, p) ==
  LET z == ss[Len(ss) - 1] IN
  z.key \in Operator /\ Level(z, tx) = n =>
    Priority[k] <= Priority[z.key] \/ Tighter(tx, n, p, Priority[z.key])

LEMMA Climbs ==
  ASSUME NEW ss, NEW st, NEW b, NEW tx \in Seq(TextKey), Solid(ss, st, b, tx), Nested(ss, tx),
         NEW n, Height(ss, tx, n), Len(ss) > b, ss[Len(ss)].key \in OperandKey,
         NEW p \in Nat, ss[Len(ss)].to < p, NEW k \in Operator, Firm(ss, tx, n, k, p),
         NEW j \in 1 .. Len(ss), ss[j].key \in Operator, Level(ss[j], tx) = n, Chain(ss, j, Len(ss)),
         Priority[ss[j].key] < Priority[k]
  PROVE  Tighter(tx, n, p, Priority[ss[j].key])
<1> DEFINE m == Len(ss)
           z == ss[m - 1]
           q == Priority[ss[j].key]
<1>1. /\ m - 1 \in 1 .. m /\ z.key \in Operator /\ Level(z, tx) = n
      /\ j = m - 1 \/ Climb(ss[j], z, tx)
  BY UnderTop
<1>2. Priority[z.key] \in Nat /\ q \in Nat /\ Priority[k] \in Nat
  BY <1>1, OperatorsRank
<1>3. Priority[k] <= Priority[z.key] \/ Tighter(tx, n, p, Priority[z.key])
  BY <1>1 DEF Firm
<1>4. z.from \in Nat /\ z.from <= p
  <2>1. m - 1 \in 1 .. Len(ss) /\ m \in 1 .. Len(ss) /\ m \in b + 1 .. Len(ss) /\ m - 1 \in 1 .. m - 1 /\ b \in 2 .. 3
    <3>1. Len(ss) \in Nat /\ b \in 2 .. 3
      BY SolidIs
    <3> QED BY <3>1
  <2>2. z.from \in Nat /\ z.to \in Nat /\ z.from <= z.to
    BY <2>1, SymbolIs
  <2>3. z.to < ss[m].from /\ ss[m].from \in Nat /\ ss[m].to \in Nat /\ ss[m].from <= ss[m].to
    BY <2>1, PlacedIs, SymbolIs
  <2> QED BY <2>2, <2>3
<1>5. ASSUME q < Priority[z.key] PROVE Tighter(tx, n, p, q)
  <2>1. Climb(ss[j], z, tx)
    BY <1>1, <1>2, <1>5
  <2>2. Tighter(tx, n, z.from, q)
    BY <1>1, <1>5, <2>1, Zenon DEF Climb
  <2> QED BY <1>2, <1>4, <2>2, TighterUp
<1>6. ASSUME ~(q < Priority[z.key]) PROVE Tighter(tx, n, p, q)
  <2>1. Priority[z.key] <= q /\ ~(Priority[k] <= Priority[z.key])
    BY <1>2, <1>6
  <2>2. Tighter(tx, n, p, Priority[z.key])
    BY <1>3, <2>1
  <2> QED BY <1>2, <2>1, <2>2, TighterUp
<1> QED BY <1>5, <1>6

\* The last token as a symbol.
LEMMA TokenItem ==
  ASSUME NEW tx \in Seq(TextKey), Len(tx) > 0, NEW x, x.from = Len(tx), x.to = Len(tx),
         x.key = tx[Len(tx)], x.key # "value", DepthIn(tx, Len(tx)) >= 0
  PROVE  /\ Level(x, tx) = DepthIn(tx, Len(tx)) /\ Item(x, tx)
         /\ x.key \notin Operator => \A d : None(tx, d, x.from, x.to)
<1>1. Len(tx) \in Nat
  OBVIOUS
<1>2. Level(x, tx) = DepthIn(tx, Len(tx))
  BY DEF Level
<1>3. Deep(tx, Level(x, tx), x.from, x.to)
  BY <1>1, <1>2, DeepOne
<1>4. ASSUME x.key \notin Operator, NEW d PROVE None(tx, d, x.from, x.to)
  <2>1. SUFFICES ASSUME NEW q \in At(tx, d), x.from <= q, q <= x.to PROVE FALSE
    BY Zenon DEF None
  <2>2. q = Len(tx) /\ tx[q] \in Operator
    BY <1>1, <2>1, OperatorsArePlaces
  <2> QED BY <1>4, <2>2
<1>5. x.key \in OperandKey => tx[x.to] \in {"id", "digit", ")"}
  BY DEF OperandKey
<1>6. x.key = "digit" => tx[x.to] # "id"
  OBVIOUS
<1>7. x.key = "id" => x.key \notin Operator
  BY GroundKeys DEF OperandKey
<1>8. \A q \in x.to + 1 .. Len(tx) : DepthIn(tx, q) > Level(x, tx)
  BY <1>1
<1>9. Level(x, tx) >= 0
  BY <1>2
<1>10. Item(x, tx)
  BY <1>3, <1>4, <1>5, <1>6, <1>7, <1>8, <1>9, Zenon DEF Item
<1> QED BY <1>2, <1>4, <1>10

\* The operator that was read is pushed on an operand.
LEMMA NestedOperator ==
  ASSUME NEW ss, NEW st, NEW b, NEW tx \in Seq(TextKey), Solid(ss, st, b, tx), Nested(ss, tx),
         NEW n, Height(ss, tx, n), Len(ss) > b, ss[Len(ss)].key \in OperandKey,
         Len(tx) > 0, ss[Len(ss)].to = Len(tx) - 1, tx[Len(tx)] \in Operator, DepthIn(tx, Len(tx)) = n,
         Kept(tx, n, ss[Len(ss)].from, ss[Len(ss)].to, tx[Len(tx)]),
         Firm(ss, tx, n, tx[Len(tx)], Len(tx)),
         NEW zs, Len(zs) = Len(ss) + 1, \A i \in 1 .. Len(ss) : zs[i] = ss[i],
         zs[Len(zs)] = Symbol(tx[Len(tx)], Len(tx), Len(tx))
  PROVE  Nested(zs, tx) /\ Height(zs, tx, n)
<1> DEFINE x == zs[Len(zs)]
           k == tx[Len(tx)]
           p == Len(tx)
<1>1. x.key = k /\ x.from = p /\ x.to = p
  BY DEF Symbol
<1>2. p \in Nat /\ k \notin OperandKey /\ k # "(" /\ k # "value"
  <2>1. "value" \in OperandKey
    BY DEF OperandKey
  <2> QED BY <2>1, GroundKeys
<1>3. n \in Int /\ n >= 0
  BY HeightIs
<1>4. Level(x, tx) = n /\ Item(x, tx)
  BY <1>1, <1>2, <1>3, TokenItem
<1>5. Fits(x, ss[Len(ss)], tx, n)
  BY <1>1, <1>2, <1>4 DEF Fits
<1>6. Climbing(ss, x, tx)
  <2>1. SUFFICES ASSUME NEW j \in 1 .. Len(ss), ss[j].key \in Operator, Chain(ss, j, Len(ss)),
                        Level(ss[j], tx) = Level(x, tx), Priority[ss[j].key] < Priority[x.key]
                 PROVE  Tighter(tx, Level(x, tx), x.from, Priority[ss[j].key])
    BY Zenon DEF Climbing, Climb
  <2>2. ss[Len(ss)].to < p
    BY <1>2
  <2> QED BY <1>1, <1>2, <1>4, <2>1, <2>2, Climbs
<1> HIDE DEF x
<1>7. Fits(zs[Len(zs)], ss[Len(ss)], tx, n) /\ Climbing(ss, zs[Len(zs)], tx) /\ zs[Len(zs)].key # "("
  BY <1>1, <1>2, <1>5, <1>6 DEF x
<1> QED BY <1>7, NestedPush

-----------------------------------------------------------------------------
(* The tables. *)

LEMMA RowOfPriority == \A k \in Prioritised : <<k, Priority[k]>> \in PriorityRows
<1>1. \A k \in Prioritised : \E p \in 1 .. 15 : <<k, p>> \in PriorityRows
  BY DEF Prioritised, PriorityRows
<1>2. SUFFICES ASSUME NEW k \in Prioritised PROVE <<k, Priority[k]>> \in PriorityRows
  OBVIOUS
<1>3. Priority[k] = CHOOSE p \in 1 .. 15 : <<k, p>> \in PriorityRows
  BY DEF Priority
<1> QED BY <1>1, <1>3

LEMMA RowCases ==
  ASSUME NEW k, NEW p, <<k, p>> \in PriorityRows
  PROVE  \/ k \in {"[", "]", "(", ")", "->", "."} /\ p = 1
         \/ k \in {"*", "&", "!", "~"} /\ p = 2
         \/ k \in {"/", "%"} /\ p = 3
         \/ k \in {"+", "-"} /\ p = 4
         \/ k \in {"<<", ">>"} /\ p = 5
         \/ k \in {">", ">=", "<", "<="} /\ p = 6
         \/ k \in {"==", "!="} /\ p = 7
         \/ k = "^" /\ p = 9
         \/ k = "|" /\ p = 10
         \/ k = "||" /\ p = 12
         \/ k = "?" /\ p = 13
         \/ k = "COMMA" /\ p = 15
         \/ k \in AssignOp /\ p = 14
  BY DEF PriorityRows

\* "(" binds tightest, and nothing that binds so tight is evaluated.
LEMMA Tightest ==
  /\ Priority["("] = 1
  /\ \A k \in Prioritised : Priority[k] \in Nat /\ 1 <= Priority[k]
  /\ \A k \in Prioritised : Priority[k] <= 1 => Priority[k] = 1 /\ k \notin Emitted
  /\ "(" \notin Emitted
<1>1. "(" \in Prioritised
  <2>1. <<"(", 1>> \in PriorityRows
    BY DEF PriorityRows
  <2> QED BY <2>1 DEF Prioritised
<1>2. \A k \in Prioritised : Priority[k] \in 1 .. 255
  BY PriorityRange
<1>3. \A k \in Prioritised : Priority[k] \in Nat /\ 1 <= Priority[k]
  BY <1>2
<1>4. ASSUME NEW k \in Prioritised, Priority[k] = 1 PROVE k \notin Emitted
  <2> DEFINE p == Priority[k]
  <2>2. <<k, p>> \in PriorityRows /\ p = 1
    BY <1>4, RowOfPriority
  <2> HIDE DEF p
  <2>1. k \in {"[", "]", "(", ")", "->", "."}
    BY <2>2, RowCases
  <2> QED BY <2>1 DEF Emitted
<1>5. Priority["("] = 1
  <2>1. "(" \notin AssignOp
    BY DEF AssignOp
  <2>2. <<"(", Priority["("]>> \in PriorityRows
    BY <1>1, RowOfPriority
  <2> DEFINE p == Priority["("]
  <2> HIDE DEF p
  <2>3. <<"(", p>> \in PriorityRows => p = 1
    BY <2>1, RowCases
  <2> QED BY <2>2, <2>3 DEF p
<1>6. \A k \in Prioritised : Priority[k] <= 1 => Priority[k] = 1
  BY <1>3
<1> QED BY <1>1, <1>3, <1>4, <1>5, <1>6

\* An operand is shifted on no other operand.
LEMMA NoShift == \A k \in {"id", "digit"} : ShiftTo[2][k] # 2
<1>1. SUFFICES ASSUME NEW k \in {"id", "digit"} PROVE ShiftTo[2][k] # 2
  OBVIOUS
<1>2. 2 \in Status /\ k \in Key
  BY DEF Status, Key
<1>3. ~ \E n \in Status : <<2, k, n>> \in ShiftRows
  <2>1. SUFFICES ASSUME NEW n, <<2, k, n>> \in ShiftRows PROVE FALSE
    OBVIOUS
  <2>2. \/ <<2, k, n>> \in {0} \X {"id", "digit"} \X {2}
        \/ <<2, k, n>> \in {<<0, "let", 3>>, <<0, "fn", 8>>, <<15, "let", 3>>}
        \/ <<2, k, n>> \in {<<4, "COMMA", 5>>, <<8, "id", 9>>, <<10, "id", 11>>, <<11, ":", 12>>,
                            <<14, "->", 18>>, <<21, "LBRACES", 22>>}
        \/ <<2, k, n>> \in {7} \X ({"id", "digit"} \cup (Punchation \ {"("})) \X {2}
        \/ <<2, k, n>> \in Opening \X {"id"} \X {2}
        \/ <<2, k, n>> \in (Opening \ {15}) \X {"digit"} \X {2}
        \/ <<2, k, n>> \in {15, 19, 22} \X {"return"} \X {16}
        \/ <<2, k, n>> \in {16, 17, 23} \X {"RBRACES"} \X {1}
        \/ <<2, k, n>> \in Opening \X (Punchation \ {"RBRACES"}) \X {1}
    BY <2>1, Zenon DEF ShiftRows
  <2>3. 2 \notin Opening
    BY DEF Opening
  <2> QED BY <2>2, <2>3
<1>4. ShiftTo[2][k] = -1
  BY <1>2, <1>3 DEF ShiftTo
<1> QED BY <1>4

-----------------------------------------------------------------------------
(* The theorems. *)

LEMMA Invariant == Spec => []EInv
<1>1. Init => EInv
  BY FirstState
<1>2. EInv /\ [Next]_vars => EInv'
  BY EveryStep
<1> QED BY <1>1, <1>2, PTL DEF Spec

\* Every variable keeps to its type, whatever the expression: the statuses are
\* those an expression meets, priorities fit their byte, each symbol stands for
\* a stretch of the text that was read, and each evaluation for one in it.
THEOREM TypesAreKept == Spec => []TypeOK
<1>1. EInv => TypeOK
  BY TypesHold
<1> QED BY <1>1, Invariant, PTL

\* Whatever the expression, however deep its parentheses and in whatever order
\* back_ward_solve_expr, clear_process_stack and reduce_rparenthese move its
\* symbols: between them symbol_stack and process_stack hold every one of them
\* in the order of the text and without a gap but the "(" just removed, and no
\* operator is evaluated twice.
THEOREM NothingIsLost == Spec => []EverythingIsKept
<1>1. EInv => EverythingIsKept
  BY EverythingKept
<1> QED BY <1>1, Invariant, PTL
=============================================================================
