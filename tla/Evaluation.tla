----------------------------- MODULE Evaluation -----------------------------
(***************************************************************************)
(* The operator-precedence part of Parser as the loops it is:              *)
(* check_priority, back_ward_solve_expr, clear_process_stack and           *)
(* reduce_rparenthese, one step per iteration, over symbol_stack,          *)
(* process_stack and last_priority.  Module Parser takes the same handlers *)
(* in one step each, by the closed form of module Reduction.               *)
(*                                                                         *)
(* The text is one expression in the body of a function, on its own or     *)
(* behind "return"; every name in it is a variable that has storage and a  *)
(* function.  A symbol is its key and the stretch of text it stands for.   *)
(* Operators in the place of operands, and an expression that is the       *)
(* condition of a statement, are left to module Parser.                    *)
(***************************************************************************)
EXTENDS ParserTable, SequencesExt, FiniteSets

CONSTANTS
  Operand,    \* the keys of the operands the text may hold
  Operator,   \* the binary operators it may hold
  MaxTokens,  \* bound: length of the text
  MaxParens   \* bound: parentheses open at a time

ASSUME TextAssumption ==
  /\ Operand \subseteq {"id", "digit"}
  /\ Operator \subseteq Prioritised \ {"(", ")", "[", "]"}
  /\ MaxTokens \in Nat /\ MaxParens \in Nat

VARIABLES
  symbol_stack, status_stack,
  process_stack,   \* its back is the last element
  priority_stack, last_priority,
  current_input,   \* the token the handlers are working on
  flag,            \* of the call of back_ward_solve_expr; then what it returned
  pc,              \* which loop the parser is in, or how the expression ended
  text,            \* history: the keys of the tokens read
  applied,         \* history: the operators evaluated, and on which operands
  before           \* history: the parser when the current handler was called

machine == <<symbol_stack, status_stack, process_stack, priority_stack, last_priority,
             current_input, flag, pc>>
vars == <<machine, text, applied, before>>

Symbol(key, from, to) == [key |-> key, from |-> from, to |-> to]
Outer(key) == Symbol(key, 0, 0)    \* what the expression stands on

Pop(s, n) == SubSeq(s, 1, Len(s) - n)
Top == Last(symbol_stack)
is_punc(symbol) == symbol.key \in Punchation

Starts == {<<Outer("fn"), Outer("LBRACES")>>,
           <<Outer("fn"), Outer("LBRACES"), Outer("return")>>}
StatusOf(key) == CASE key = "fn" -> 14 [] key = "LBRACES" -> 15 [] key = "return" -> 16

Snapshot == [symbols |-> symbol_stack, statuses |-> status_stack,
             priorities |-> priority_stack, last |-> last_priority]

Init ==
  /\ symbol_stack \in Starts
  /\ status_stack = [i \in DOMAIN symbol_stack |-> StatusOf(symbol_stack[i].key)]
  /\ process_stack = <<>> /\ priority_stack = <<>> /\ last_priority = 255
  /\ current_input = Outer("") /\ flag = FALSE /\ pc = "reading"
  /\ text = <<>> /\ applied = {}
  /\ before = Snapshot

-----------------------------------------------------------------------------
(* The tokens. *)

\* The next token of the text is k; its handler has not run yet.
Read(k) ==
  /\ pc = "reading"
  /\ Len(text) < MaxTokens
  /\ text' = Append(text, k)
  /\ current_input' = Symbol(k, Len(text) + 1, Len(text) + 1)
  /\ before' = Snapshot

Row(handler) == Handler[Last(status_stack)][current_input'.key] = handler
Pushed(symbol, status) ==
  /\ symbol_stack' = Append(symbol_stack, symbol)
  /\ status_stack' = Append(status_stack, status)

\* A shift row of the table.
shift ==
  /\ \E k \in Operand : Read(k)
  /\ ShiftTo[Last(status_stack)][current_input'.key] = 2
  /\ Pushed(current_input', 2)
  /\ UNCHANGED <<process_stack, priority_stack, last_priority, flag, pc, applied>>

enter_parentheses ==
  /\ Len(priority_stack) < MaxParens
  /\ Read("(")
  /\ Row("enter_parentheses")
  /\ Pushed(current_input', 7)
  /\ priority_stack' = Append(priority_stack, last_priority)
  /\ last_priority' = 255
  /\ UNCHANGED <<process_stack, flag, pc, applied>>

\* check_priority of an operator that binds no looser than last_priority.
push_operator ==
  /\ \E k \in Operator : Read(k)
  /\ Row("check_priority")
  /\ Priority[current_input'.key] <= last_priority
  /\ last_priority' = Priority[current_input'.key]
  /\ Pushed(current_input', 7)
  /\ UNCHANGED <<process_stack, priority_stack, flag, pc, applied>>

\* ... and of any other one, and of "SEMICOLON": back_ward_solve_expr is called.
Call == pc' = "walking" /\ flag' = FALSE

solve_first ==
  /\ \E k \in Operator \cup {"SEMICOLON"} : Read(k)
  /\ Row("check_priority")
  /\ current_input'.key # "SEMICOLON" => Priority[current_input'.key] > last_priority
  /\ Call
  /\ UNCHANGED <<symbol_stack, status_stack, process_stack, priority_stack,
                 last_priority, applied>>

\* reduce_rparenthese: what stands behind the last "(" moves to process_stack.
Opens(q) ==
  /\ symbol_stack[q].key = "("
  /\ \A i \in q + 1 .. Len(symbol_stack) : symbol_stack[i].key # "("

reduce_rparenthese ==
  /\ Read(")")
  /\ Row("reduce_rparenthese")
  /\ IF \E q \in DOMAIN symbol_stack : Opens(q)
     THEN \E q \in DOMAIN symbol_stack :
            /\ Opens(q)
            /\ process_stack' =
                 process_stack \o Reverse(SubSeq(symbol_stack, q + 1, Len(symbol_stack)))
            /\ symbol_stack' = SubSeq(symbol_stack, 1, q - 1)
            /\ status_stack' = SubSeq(status_stack, 1, q - 1)
            /\ pc' = CASE symbol_stack[q - 1].key = "id" -> "calling"
                       [] symbol_stack[q - 1].key = "value" -> "threw"
                       [] OTHER -> "clearing"
     ELSE /\ pc' = "threw"
          /\ process_stack' = process_stack \o Reverse(symbol_stack)
          /\ symbol_stack' = <<>> /\ status_stack' = <<>>
  /\ UNCHANGED <<priority_stack, last_priority, flag, applied>>

-----------------------------------------------------------------------------
(* back_ward_solve_expr. *)

\* check_priority(punc): an operator that has a priority sets last_priority,
\* whether it is accepted or not.
BrokenAfter(punc) ==                  \* only an accepted one sets it
  IF /\ is_punc(punc) /\ punc.key \in Prioritised
     /\ Priority[punc.key] <= last_priority
  THEN Priority[punc.key] ELSE last_priority
After(punc) ==
  IF is_punc(punc) /\ punc.key \in Prioritised THEN Priority[punc.key] ELSE last_priority

BrokenAccepted(punc) ==               \* an equal one is not accepted
  is_punc(punc) /\ punc.key \in Prioritised /\ Priority[punc.key] < last_priority
BrokenLooser(punc) ==                 \* the comparison the wrong way round
  is_punc(punc) /\ punc.key \in Prioritised /\ Priority[punc.key] >= last_priority
Accepted(punc) ==
  is_punc(punc) /\ punc.key \in Prioritised /\ Priority[punc.key] <= last_priority

\* An iteration that takes the operand on top and the operator below it.  A
\* token that is no operand goes to sovle_unary, which is not followed.
absorb ==
  LET value == Top
      punc == symbol_stack[Len(symbol_stack) - 1]
  IN
  /\ pc = "walking"
  /\ Len(symbol_stack) >= 2
  /\ Accepted(punc)
  /\ last_priority' = After(punc)
  /\ process_stack' = process_stack \o <<value, punc>>
  /\ symbol_stack' = Pop(symbol_stack, 2)
  /\ status_stack' = Pop(status_stack, 2)
  /\ flag' = TRUE
  /\ pc' = IF is_punc(value) THEN "untracked" ELSE "walking"
  /\ UNCHANGED <<priority_stack, current_input, text, applied, before>>

\* The iteration that ends the loop: the operator goes back, and so does the
\* operand if no operator was taken.
Brokenstop ==                         \* the operand is not put back
  LET punc == symbol_stack[Len(symbol_stack) - 1] IN
  /\ pc = "walking"
  /\ Len(symbol_stack) >= 2
  /\ ~Accepted(punc)
  /\ last_priority' = After(punc)
  /\ IF flag
     THEN process_stack' = Append(process_stack, Top) /\ pc' = "clearing"
     ELSE process_stack' = process_stack /\ pc' = "returned"
  /\ symbol_stack' = Pop(symbol_stack, 1)
  /\ status_stack' = Pop(status_stack, 1)
  /\ UNCHANGED <<priority_stack, current_input, flag, text, applied, before>>

stop ==
  LET punc == symbol_stack[Len(symbol_stack) - 1] IN
  /\ pc = "walking"
  /\ Len(symbol_stack) >= 2
  /\ ~Accepted(punc)
  /\ last_priority' = After(punc)
  /\ IF flag
     THEN /\ process_stack' = Append(process_stack, Top)
          /\ symbol_stack' = Pop(symbol_stack, 1)
          /\ status_stack' = Pop(status_stack, 1)
          /\ pc' = "clearing"
     ELSE /\ pc' = "returned"
          /\ UNCHANGED <<process_stack, symbol_stack, status_stack>>
  /\ UNCHANGED <<priority_stack, current_input, flag, text, applied, before>>

-----------------------------------------------------------------------------
(* clear_process_stack. *)

lhs == Last(process_stack)
punc_of_lhs == process_stack[Len(process_stack) - 1]
rhs == process_stack[Len(process_stack) - 2]

\* What get_value, or the switch over the operators, does not let through.
Rejected ==
  \/ ~is_punc(punc_of_lhs)
  \/ punc_of_lhs.key \notin Emitted
  \/ punc_of_lhs.key = "=" /\ lhs.key # "id"

\* The operands are taken from the back, so the suffix is evaluated from left
\* to right, whatever its operators are.
Brokenevaluate ==                     \* from the right
  LET l == process_stack[3]
      r == process_stack[1]
      punc == process_stack[2]
  IN
  /\ pc = "clearing" /\ Len(process_stack) > 1
  /\ IF Rejected THEN pc' = "threw" /\ UNCHANGED <<process_stack, applied>>
     ELSE /\ process_stack' = <<Symbol("value", l.from, r.to)>>
                                \o SubSeq(process_stack, 4, Len(process_stack))
          /\ applied' = applied \cup
               {[at |-> punc.from, from |-> l.from, to |-> r.to,
                 grouped |-> current_input.key = ")"]}
          /\ pc' = pc
  /\ UNCHANGED <<symbol_stack, status_stack, priority_stack, last_priority,
                 current_input, flag, text, before>>

evaluate ==
  /\ pc = "clearing" /\ Len(process_stack) > 1
  /\ IF Rejected THEN pc' = "threw" /\ UNCHANGED <<process_stack, applied>>
     ELSE /\ process_stack' =
               Append(Pop(process_stack, 3), Symbol("value", lhs.from, rhs.to))
          /\ applied' = applied \cup
               {[at |-> punc_of_lhs.from, from |-> lhs.from, to |-> rhs.to,
                 grouped |-> current_input.key = ")"]}
          /\ pc' = pc
  /\ UNCHANGED <<symbol_stack, status_stack, priority_stack, last_priority,
                 current_input, flag, text, before>>

Brokenleave_parentheses ==            \* as a new parser would have it
  /\ last_priority' = 0
  /\ priority_stack' = Pop(priority_stack, 1)

leave_parentheses ==
  /\ last_priority' = Last(priority_stack)
  /\ priority_stack' = Pop(priority_stack, 1)

\* The value goes back.  In parentheses it stands for them as well.
push_value ==
  LET inside == process_stack[1]
      value == IF current_input.key = ")"
               THEN [inside EXCEPT !.from = @ - 1, !.to = @ + 1] ELSE inside
  IN
  /\ pc = "clearing" /\ Len(process_stack) = 1
  /\ process_stack' = <<>>
  /\ Pushed(value, 2)
  /\ IF current_input.key = ")"
     THEN leave_parentheses /\ pc' = "reading"
     ELSE pc' = "returned" /\ UNCHANGED <<priority_stack, last_priority>>
  /\ UNCHANGED <<current_input, flag, text, applied, before>>

\* reduce_operatorbrace: every operand is an argument, whatever the operator
\* behind it; where there is none, as in x(1(1)), std::get throws.  A call may
\* also throw because the types of the arguments are those of no function, and
\* take_invocable never finds a member of something.
reduce_operatorbrace ==
  /\ pc = "calling"
  /\ \A i \in 1 .. Len(process_stack) - 1 :
       (Len(process_stack) - i) % 2 = 1 => is_punc(process_stack[i])
  /\ symbol_stack[Len(symbol_stack) - 1].key \notin {".", "->"}
  /\ process_stack' = <<>>
  /\ symbol_stack' = Append(Pop(symbol_stack, 1), Symbol("value", Top.from, current_input.to))
  /\ status_stack' = Append(Pop(status_stack, 1), 2)
  /\ leave_parentheses
  /\ pc' = "reading"
  /\ UNCHANGED <<current_input, flag, text, applied, before>>

no_such_function ==
  /\ pc = "calling"
  /\ pc' = "threw"
  /\ UNCHANGED <<symbol_stack, status_stack, process_stack, priority_stack,
                 last_priority, current_input, flag, text, applied, before>>

-----------------------------------------------------------------------------
(* Back in check_priority. *)

\* After one call, whatever it did, the operator is pushed.
push_after_step ==
  /\ pc = "returned" /\ current_input.key # "SEMICOLON"
  /\ Pushed(current_input, 7)
  /\ pc' = "reading"
  /\ UNCHANGED <<process_stack, priority_stack, last_priority, current_input, flag,
                 text, applied, before>>

\* "SEMICOLON" calls it again until it returns false.
Brokenloop ==                         \* the first call is the only one
  /\ pc = "returned" /\ current_input.key = "SEMICOLON" /\ flag
  /\ pc' = "returned" /\ flag' = FALSE
  /\ UNCHANGED <<symbol_stack, status_stack, process_stack, priority_stack,
                 last_priority, current_input, text, applied, before>>

Brokencall_again ==                   \* whatever it returned
  /\ pc = "returned" /\ current_input.key = "SEMICOLON"
  /\ Call
  /\ UNCHANGED <<symbol_stack, status_stack, process_stack, priority_stack,
                 last_priority, current_input, text, applied, before>>

loop ==
  /\ pc = "returned" /\ current_input.key = "SEMICOLON" /\ flag
  /\ Call
  /\ UNCHANGED <<symbol_stack, status_stack, process_stack, priority_stack,
                 last_priority, current_input, text, applied, before>>

\* Then the value is returned, together with "return", or dropped, together
\* with the commas in front of it and what stands in front of those.
Commas(k) ==
  LET below(i) == symbol_stack[Len(symbol_stack) - 1 - 2 * i].key IN
  /\ \A i \in 0 .. k - 1 : below(i) = "COMMA"
  /\ below(k) # "COMMA"

finish ==
  LET returns == status_stack[Len(status_stack) - 1] = 16 IN
  /\ pc = "returned" /\ current_input.key = "SEMICOLON" /\ ~flag
  /\ last_priority' = 255
  /\ IF returns
     THEN symbol_stack' = Pop(symbol_stack, 2) /\ status_stack' = Pop(status_stack, 2)
     ELSE \E k \in 0 .. Len(symbol_stack) \div 2 :
            /\ 2 * k + 1 < Len(symbol_stack)
            /\ Commas(k)
            /\ symbol_stack' = Pop(symbol_stack, 2 * k + 1)
            /\ status_stack' = Pop(status_stack, 2 * k + 1)
  /\ pc' = IF returns THEN "returns" ELSE "done"
  /\ UNCHANGED <<process_stack, priority_stack, current_input, flag, text, applied, before>>

-----------------------------------------------------------------------------
Token == shift \/ enter_parentheses \/ push_operator \/ solve_first \/ reduce_rparenthese

Solving ==
  \/ absorb \/ stop \/ evaluate \/ push_value \/ reduce_operatorbrace
  \/ no_such_function \/ push_after_step \/ loop \/ finish

Next == Token \/ Solving

\* A loop, once entered, runs on by itself; no token has to come.
Spec == Init /\ [][Next]_vars /\ WF_vars(Solving)
=============================================================================
