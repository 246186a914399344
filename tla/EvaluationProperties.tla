------------------------ MODULE EvaluationProperties ------------------------
(***************************************************************************)
(* What the loops of the expression parser keep true, and that each call   *)
(* of a handler, loops and all, is one step of module Parser.              *)
(***************************************************************************)
EXTENDS Evaluation

Phase == {"reading", "walking", "clearing", "calling", "returned", "done", "returns",
          "threw", "untracked"}
Running == {"reading", "walking", "clearing", "calling", "returned"}

IsSymbol(s) ==
  /\ s.key \in Key \cup {"value"}
  /\ {s.from, s.to} \subseteq 0 .. Len(text) /\ s.from <= s.to

\* Every variable keeps to its type; symbols stand for stretches of the text.
TypeOK ==
  /\ \A stack \in {symbol_stack, process_stack} :
       \A i \in DOMAIN stack : IsSymbol(stack[i])
  /\ status_stack \in Seq({2, 7, 14, 15, 16})
  /\ priority_stack \in Seq(1 .. 255) /\ last_priority \in 1 .. 255
  /\ flag \in BOOLEAN /\ pc \in Phase
  /\ text \in Seq(Operand \cup Operator \cup {"(", ")", "SEMICOLON"})
  /\ applied \subseteq [at : 1 .. Len(text), from : 1 .. Len(text),
                        to : 1 .. Len(text), grouped : BOOLEAN]

-----------------------------------------------------------------------------
(* The text. *)

\* How many parentheses are open around position i; those of a pair are outside it.
Depth(i) ==
  Cardinality({j \in 1 .. i - 1 : text[j] = "("}) - Cardinality({j \in 1 .. i : text[j] = ")"})

\* The operators between positions i and j that stand in no parenthesis there,
\* given that the one at p does not.
Beside(p, i, j) == {q \in (i .. j) \cap DOMAIN text : text[q] \in Operator /\ Depth(q) = Depth(p)}

-----------------------------------------------------------------------------
(* Nothing is lost. *)

\* The symbols of the expression in the order of the text: back_ward_solve_expr
\* and reduce_rparenthese turn round what they move.
Outside == {i \in DOMAIN symbol_stack : symbol_stack[i].from = 0}
InOrder == SubSeq(symbol_stack, Cardinality(Outside) + 1, Len(symbol_stack))
             \o Reverse(process_stack)

\* While an expression is solved its symbols are on one of the two stacks, in
\* order and without a gap but the "(" just removed: an operand taken off to
\* look below it is put back, and each operator is either still there or has
\* been evaluated once.  Between the handlers process_stack is empty.
EverythingIsKept ==
  pc \in Running =>
    LET s == InOrder
        opened == pc \in {"clearing", "calling"} /\ current_input.key = ")"
        read == IF pc = "reading" THEN Len(text) ELSE Len(text) - 1
        gaps == {i \in 1 .. Len(s) :
                   s[i].from # (IF i = 1 THEN 0 ELSE s[i - 1].to) + 1}
    IN
    /\ pc = "reading" => process_stack = <<>>
    /\ (IF s = <<>> THEN 0 ELSE Last(s).to) = read
    /\ Cardinality(gaps) = (IF opened THEN 1 ELSE 0)
    /\ \A i \in gaps : text[s[i].from - 1] = "("
    /\ \A a, b \in applied : a.at = b.at => a = b
    /\ \A a \in applied : \E i \in DOMAIN s : s[i].from <= a.from /\ a.to <= s[i].to

-----------------------------------------------------------------------------
(* Priorities. *)

\* No operator takes an operand from one that binds tighter: inside its operands
\* none binds looser, beside them none binds tighter.
TightestFirst(a) ==
  /\ \A q \in Beside(a.at, a.from, a.to) : Priority[text[q]] <= Priority[text[a.at]]
  /\ \A q \in Beside(a.at, a.from - 1, a.from - 1) \cup Beside(a.at, a.to + 1, a.to + 1) :
       Priority[text[q]] >= Priority[text[a.at]]

\* Every operator is applied where precedence wants it.
PrecedenceIsKept == \A a \in applied : TightestFirst(a)

\* clear_process_stack evaluates from left to right without looking at the
\* priorities.  So does it with all that stands between parentheses; outside of
\* them back_ward_solve_expr gives it only stretches where that is right, as long
\* as the operators side by side have less than four priorities.  check_priority
\* solves once for an operator and then pushes it, whatever is left below.  In
\* a < b + c * d == e == f ; the first "==" has only "*" applied; ";" takes off
\* both "==" and then "+", and leaves the "<", which binds looser than "+".
FourPriorities(p) ==
  \E s, t, u, v \in Beside(p, 1, Len(text)) :
    /\ Priority[text[s]] < Priority[text[t]]
    /\ Priority[text[t]] < Priority[text[u]]
    /\ Priority[text[u]] < Priority[text[v]]

PrioritiesAreKept ==
  \A a \in applied : ~a.grouped => TightestFirst(a) \/ FourPriorities(a.at)

\* Of two operators of equal priority the left one is evaluated first, but for
\* one case: a call that stops at an operator makes its priority last_priority,
\* although the operator then pushed may bind tighter.  So in a - b * c % d - e
\* the second "-" finds the priority of the first one and not that of "%".
LeftFirst ==
  \A a \in applied :
    LET equal == {q \in Beside(a.at, a.from - 1, a.from - 1) :
                    Priority[text[q]] = Priority[text[a.at]]}
    IN  ~a.grouped /\ equal # {} =>
          \E p \in Beside(a.at, a.from, a.at - 1) : \E t \in Beside(a.at, 1, a.at - 1) :
            /\ Priority[text[t]] < Priority[text[p]]
            /\ Priority[text[p]] < Priority[text[a.at]]

\* A statement that ends leaves nothing behind, if no operator of it binds
\* looser than one to the left of it (one that does is pushed with the
\* last_priority of the tighter one still in force, and "SEMICOLON" may then
\* refuse it: return a * b + c; neither adds nor returns), and if no "(" follows
\* a literal or a ")": the operand in front of it stays on the stack.
StatementsComplete ==
  pc \in {"done", "returns"} =>
    \/ symbol_stack = <<Outer("fn"), Outer("LBRACES")>>
    \/ \E p, q \in DOMAIN text :
         /\ p < q /\ {text[p], text[q]} \subseteq Operator
         /\ Depth(p) = Depth(q) /\ Priority[text[p]] < Priority[text[q]]
    \/ \E p \in 1 .. Len(text) - 1 : text[p] \in {"digit", ")"} /\ text[p + 1] = "("

-----------------------------------------------------------------------------
(* Steps. *)

\* "while (back_ward_solve_expr());" and the loops inside it come to an end.
SolvingEnds ==
  pc \in {"walking", "clearing", "calling", "returned"} ~> pc \in Phase \ (Running \ {"reading"})

-----------------------------------------------------------------------------
(* The refinement. *)

\* Module Parser does not see the loops: until they are over the parser is as
\* it was when the handler was called.
Seen == IF pc \in {"reading", "done", "returns"} THEN Snapshot ELSE before

Seen_symbols ==
  [i \in DOMAIN Seen.symbols |->
     LET key == Seen.symbols[i].key IN
     [key |-> key, name |-> IF key = "id" THEN "x" ELSE "", cond |-> 0]]

\* The scopes the expression stands in: a module-level variable x, functions x of
\* every arity and the function main() with its entry block 1.
Node(address, function_ptr, has_return) ==
  [is_type |-> FALSE, has_return |-> has_return, is_func_root |-> function_ptr = 0,
   name_no |-> 0, address |-> address, home |-> <<>>, function_ptr |-> function_ptr]
Path(sort, name, no) == <<[sort |-> sort, name |-> name, no |-> no]>>
Main == Path("fn", "main", 0)
Functions == {Path("fn", "x", arity) : arity \in 1 .. MaxTokens}

Scopes ==
  [p \in {<<>>, Path("id", "x", 0), Main} \cup Functions |->
     CASE p = Main -> Node(0, 0, pc = "returns")
       [] p \in Functions -> Node(0, 1, FALSE)
       [] OTHER -> Node(-1, 0, FALSE)]

P == INSTANCE Parser WITH
  Name <- {"x"}, Type <- {},
  Offered <- Operator \cup (Operand \ {"id"}) \cup {"(", ")", "SEMICOLON"},
  MaxSymbols <- 0, MaxBlocks <- 0, MaxBodies <- 0, MaxArity <- 0, MaxParens <- 0,
  MaxStrays <- 0, MaxNesting <- 0, MaxPointers <- 0, UnsetPointerLevel <- 0,
  outcome <- IF pc \in {"threw", "untracked"} THEN pc ELSE "running",
  symbol_stack <- Seen_symbols, status_stack <- Seen.statuses,
  priority_stack <- Seen.priorities, last_priority <- Seen.last,
  scope_count <- 0, pointer_level <- 0,
  scopes <- Scopes, current_node <- Main,
  func_param <- [name |-> "main", arg |-> <<>>, return_type |-> "none",
                 basic_blocks |-> <<1>>, return_block |-> IF pc = "returns" THEN 2 ELSE 0],
  conds <- <<>>, functions <- <<>>, definitions <- <<>>,
  terms <- IF pc = "returns" THEN <<<<{2}>>, <<{}>>>> ELSE <<<<>>>>,
  insert_block <- 1, uses <- {[at |-> 1, of |-> -1, within |-> TRUE]}

\* Module Parser takes each of these handlers in one step, by a closed form of
\* the loops (module Reduction).  The loops do just that: each handler, from its
\* call to its end, is a step process_token of Parser with the same token.
LoopsImplementParser ==
  [][\E t \in P!Token : t.key = current_input'.key /\ P!process_token(t)]_(P!vars)
=============================================================================
