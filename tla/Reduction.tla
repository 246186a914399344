----------------------------- MODULE Reduction -----------------------------
(***************************************************************************)
(* What the operator-precedence part of Parser does to the symbol stack,   *)
(* in closed form: which suffix of the stack one call of                   *)
(* back_ward_solve_expr absorbs, which suffix the loop                     *)
(* "while (back_ward_solve_expr());" absorbs, and what clear_process_stack *)
(* asks of that suffix.                                                    *)
(*                                                                         *)
(* A stack S is a sequence of symbols, records with at least a field key   *)
(* (and name, for identifiers); its top is S[Len(S)].  Operands are at the *)
(* positions Len(S), Len(S)-2, ... of an expression, operators between.    *)
(***************************************************************************)
EXTENDS ParserTable, Sequences

OperandKey == {"id", "digit", "value"}

\* Positions of the operands and of the operators of the suffix from m on.
OperandsFrom(S, m) == {i \in m .. Len(S) : (i - m) % 2 = 0}
OperatorsFrom(S, m) == {i \in m .. Len(S) : (i - m) % 2 = 1}

\* The suffix from m on alternates operand, operator, ..., operand.
Alternates(S, m) ==
  /\ m \in 1 .. Len(S)
  /\ (Len(S) - m) % 2 = 0
  /\ \A i \in OperatorsFrom(S, m) : S[i].key \in Punchation

(***************************************************************************)
(* check_priority(punc): walking down from the top, the operator at i is   *)
(* taken if it has a priority that does not exceed the one met before it   *)
(* (last_priority for the first).                                          *)
(***************************************************************************)
Accepts(S, last, i) ==
  /\ S[i].key \in Prioritised
  /\ IF i = Len(S) - 1 THEN Priority[S[i].key] <= last
     ELSE /\ S[i + 2].key \in Prioritised
          /\ Priority[S[i].key] <= Priority[S[i + 2].key]

\* One call of back_ward_solve_expr walks down at least to the operand m.
Reaches(S, last, m) ==
  /\ Alternates(S, m)
  /\ \A i \in OperatorsFrom(S, m) : Accepts(S, last, i)

\* ... and stops there; at m = Len(S) it absorbs nothing and returns false.
StepStart(S, last, m) ==
  /\ Reaches(S, last, m)
  /\ m > 1
  /\ ~Accepts(S, last, m - 1)

\* last_priority after that call: the operator it stopped at has set it too.
StepPriority(S, last, m) ==
  IF S[m - 1].key \in Prioritised THEN Priority[S[m - 1].key]
  ELSE IF m = Len(S) THEN last ELSE Priority[S[m + 1].key]

(***************************************************************************)
(* The loop: a first call that absorbs nothing ends it; after a call that  *)
(* absorbed something, last_priority is the priority of the operator below,*)
(* so the next call absorbs that one too, down to the first symbol that is *)
(* no operator with a priority.                                            *)
(***************************************************************************)
LoopStart(S, last, m) ==
  /\ m > 1
  /\ \/ m = Len(S) /\ ~Accepts(S, last, m - 1)
     \/ /\ m < Len(S)
        /\ Alternates(S, m)
        /\ \A i \in OperatorsFrom(S, m) : S[i].key \in Prioritised
        /\ Accepts(S, last, Len(S) - 1)
        /\ S[m - 1].key \notin Prioritised

(***************************************************************************)
(* A walk that reaches the bottom of the stack (an expression outside any  *)
(* function) reads an empty process_stack or mistakes an operand for an    *)
(* operator.                                                               *)
(***************************************************************************)
StepFallsOff(S, last) == Reaches(S, last, 1)
LoopFallsOff(S, last) ==
  \/ Len(S) = 1
  \/ /\ Len(S) > 1
     /\ Alternates(S, 1)
     /\ \A i \in OperatorsFrom(S, 1) : S[i].key \in Prioritised
     /\ Accepts(S, last, Len(S) - 1)
FallOutcomes(S) == IF Len(S) = 1 THEN {"undefined"} ELSE {"threw"}

\* The suffix from m on replaced by its value; nothing to replace at the top.
Reduced(S, m, value) == IF m = Len(S) THEN S ELSE SubSeq(S, 1, m - 1) \o <<value>>

(***************************************************************************)
(* clear_process_stack evaluates the suffix from left to right.  It throws *)
(* on an operator it has no case for, and on an assignment whose left side *)
(* is not an identifier still on its own.                                  *)
(***************************************************************************)
BadAssign(S, m, p) ==
  /\ S[p].key = "="
  /\ \/ S[p - 1].key # "id"
     \/ /\ p - 2 > m
        /\ S[p - 2].key \in Prioritised
        /\ Priority[S[p - 2].key] <= Priority["="]

Uncomputable(S, m) ==
  \E p \in OperatorsFrom(S, m) : S[p].key \notin Emitted \/ BadAssign(S, m, p)

\* Operators that were shifted in operand position.  Such a value on top of an
\* accepted operator goes to sovle_unary; the leftmost one to get_value, unless
\* clear_process_stack has thrown on its operator.
Strays(S, m) == {i \in OperandsFrom(S, m) : S[i].key \notin OperandKey}
StrayIsUnary(S, m) == \E i \in Strays(S, m) : i > m
StrayIsRead(S, m) ==
  m \in Strays(S, m) /\ (m = Len(S) \/ S[m + 1].key \in Emitted)

\* The identifiers the suffix stores to, and those it loads.
IsTarget(S, i) == i < Len(S) /\ S[i + 1].key = "="
Identifiers(S, m) == {i \in OperandsFrom(S, m) : S[i].key = "id"}
Targets(S, m) == {S[i].name : i \in {j \in Identifiers(S, m) : IsTarget(S, j)}}
Loads(S, m) == {S[i].name : i \in {j \in Identifiers(S, m) : ~IsTarget(S, j)}}
=============================================================================
