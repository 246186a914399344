------------------------------- MODULE Parser -------------------------------
(***************************************************************************)
(* The table-driven parser of the Lethon compiler (class Parser with its   *)
(* BlockScopeManager): one step takes one token from the lexer, looks it   *)
(* up in the row of the current status and either shifts it or runs the    *)
(* handler registered there.  Handlers work on two parallel stacks, build  *)
(* the tree of scopes and emit basic blocks.                               *)
(*                                                                         *)
(* Abstractions.  A token is its key and, for an identifier, its name; all *)
(* values have one type, so a mangled name is the name and the number of   *)
(* arguments, and where the code compares types the model lets it throw;   *)
(* of the emitted code the terminators, loads, stores and calls of each    *)
(* block are kept, with the block that allocated what they refer to; the   *)
(* arithmetic on loaded values is left out.  An exception leaves parse();  *)
(* what it leaves behind in the parser is not modelled.                    *)
(***************************************************************************)
EXTENDS Reduction, SequencesExt, FiniteSets

CONSTANTS
  Name,        \* the identifiers of the source text
  Type,        \* those of them that type_define puts into the root scope
  Offered,     \* the keys of the other tokens the source text may hold
  MaxSymbols,  \* bound: length of the symbol stack
  MaxBlocks,   \* bound: number of basic blocks
  MaxBodies,   \* bound: the source text ends with this many function bodies
  MaxArity,    \* bound: arguments of a function
  MaxParens,   \* bound: parentheses open in an expression
  MaxStrays,   \* bound: operators on the stack in operand position
  MaxNesting,  \* bound: scope_count
  MaxPointers, \* bound: pointer_level
  UnsetPointerLevel  \* what pointer_level holds before it is first assigned:
                     \* "new(this) Parser()" undoes the initialiser

ASSUME TokenAssumption ==
  /\ Type \subseteq Name
  /\ Offered \subseteq Key \ {"id"}

ASSUME BoundAssumption ==
  /\ MaxSymbols \in Nat
  /\ MaxBlocks \in Nat
  /\ MaxBodies \in Nat
  /\ MaxArity \in Nat
  /\ MaxParens \in Nat
  /\ MaxStrays \in Nat
  /\ MaxNesting \in Nat
  /\ MaxPointers \in Nat
  /\ UnsetPointerLevel \in Nat

VARIABLES
  outcome,         \* how parse() stands: "running", or how it ended
  status_stack, symbol_stack,
  priority_stack, last_priority,
  scope_count,     \* braces opened in code that is skipped
  pointer_level,
  scopes,          \* the tree of BlockScopeNodes: path -> node
  current_node,    \* path of the current scope; <<>> is the root
  func_param,
  conds,           \* every CondParam allocated so far
  functions,       \* scope of each function the module declares
  definitions,     \* the calls of define_function that completed
  terms,           \* the terminators of each basic block, in order
  insert_block,    \* where the builder inserts; 0 before the first block
  uses             \* loads, stores and calls: in which block, of whose storage

stacks == <<status_stack, symbol_stack>>
priorities == <<priority_stack, last_priority>>
tree == <<scopes, current_node>>
code == <<terms, insert_block, uses>>
module == <<functions, definitions>>
vars == <<outcome, stacks, priorities, scope_count, pointer_level, tree,
          func_param, conds, module, code>>

-----------------------------------------------------------------------------
(* Tokens and symbols. *)

Token == [key : {"id"}, name : Name] \cup [key : Offered, name : {""}]

Symbol == [key : Key \cup {"value", "cond"}, name : Name \cup {""}, cond : Nat]

Lexeme(t) == [key |-> t.key, name |-> t.name, cond |-> 0]
Value == [key |-> "value", name |-> "", cond |-> 0]
CondSymbol(c) == [key |-> "cond", name |-> "", cond |-> c]

(* The tree of scopes. *)

NodeName == [sort : {"id", "fn", "anon"}, name : Name \cup {""}, no : Nat]
Id(x) == [sort |-> "id", name |-> x, no |-> 0]
Mangled(f, arity) == [sort |-> "fn", name |-> f, no |-> arity]
Anon(n) == [sort |-> "anon", name |-> "", no |-> n]

Root == <<>>
NoStorage == 0      \* current_value is null
Global == -1        \* a module-level variable

\* home is the scope that was current when the storage was allocated.
Fresh == [is_type |-> FALSE, has_return |-> FALSE, is_func_root |-> FALSE,
          name_no |-> 0, address |-> NoStorage, home |-> Root, function_ptr |-> 0]

\* enter_scope(Name): a child of that name is entered again, not replaced.
With(nodes, path) ==
  [p \in DOMAIN nodes \cup {path} |-> IF p \in DOMAIN nodes THEN nodes[p] ELSE Fresh]

\* find_value: the nearest scope outwards that has a child x; Root if none.
Lookup(x) ==
  LET holders == {i \in 0 .. Len(current_node) :
                    Append(SubSeq(current_node, 1, i), Id(x)) \in DOMAIN scopes}
  IN  IF holders = {} THEN Root
      ELSE LET i == CHOOSE h \in holders : \A g \in holders : g <= h
           IN  Append(SubSeq(current_node, 1, i), Id(x))

(* The code being emitted. *)

NoCond == [entery_block |-> 0, body1 |-> 0, body2 |-> 0, exit_block |-> 0, live |-> TRUE]
NoFunction == [name |-> "", arg |-> <<>>, return_type |-> "none",
               basic_blocks |-> <<>>, return_block |-> 0]

\* FunctionParameters::clear, after each function.
BrokenCleared(param) ==               \* the next function returns into this one
  [param EXCEPT !.name = "", !.arg = <<>>, !.return_type = "none", !.basic_blocks = <<>>]
Cleared(param) ==
  [param EXCEPT !.name = "", !.arg = <<>>, !.return_type = "none",
                !.basic_blocks = <<>>, !.return_block = 0]

Terminate(blocks, b, targets) == [blocks EXCEPT ![b] = Append(@, targets)]

-----------------------------------------------------------------------------
(* The driver: process_token. *)

\* A definition whose name starts with Broken is a plausible mistake in the one
\* of the same name below it; the properties are checked to notice it.

BrokenSkipping == scope_count > 0    \* a return does not make the rest dead

\* Tokens are dropped while the current scope has returned.
Skipping == scopes[current_node].has_return \/ scope_count > 0

BrokenDispatched(t) ==               \* an inner "RBRACES" closes the returned scope
  outcome = "running" /\ (~Skipping \/ t.key = "RBRACES")

BrokenDispatchedNever(t) ==          \* the closing "RBRACES" is skipped as well
  outcome = "running" /\ ~Skipping

Dispatched(t) ==
  /\ outcome = "running"
  /\ \/ ~Skipping
     \/ t.key = "RBRACES" /\ scope_count = 0

\* check_if_body2 without an else: the finished "if" is dropped and the same
\* token is processed again, in the status below.
NoElse(t) ==
  /\ status_stack # <<>>
  /\ Last(status_stack) = 20
  /\ t.key \notin {"else", "enter"}

Statuses(t) == IF NoElse(t) THEN Front(status_stack) ELSE status_stack
BrokenSymbols(t) == symbol_stack      \* the finished "if" stays on one stack
Symbols(t) == IF NoElse(t) THEN Front(symbol_stack) ELSE symbol_stack
BrokenConds(t) == conds               \* the finished "if" is not deleted
Conds(t) == IF NoElse(t)
            THEN [conds EXCEPT ![Last(symbol_stack).cond].live = FALSE]
            ELSE conds

CurrentStatus(t) == IF Statuses(t) = <<>> THEN 0 ELSE Last(Statuses(t))

On(t, handler) ==
  /\ Handler[CurrentStatus(t)][t.key] = handler
  /\ Dispatched(t)

End(o) == outcome' = o /\ UNCHANGED <<stacks, priorities, scope_count, pointer_level,
                                      tree, func_param, conds, module, code>>

Pop(s, n) == SubSeq(s, 1, Len(s) - n)
Top == Last(symbol_stack)

Brokenleave_scope == UNCHANGED current_node    \* the scope stays open
leave_scope == current_node' = Pop(current_node, 1)

\* A shift row: the token is pushed with the next status.
Shift(t) ==
  LET next == ShiftTo[CurrentStatus(t)][t.key] IN
  /\ next # -1
  /\ Dispatched(t)
  /\ status_stack' = Append(Statuses(t), next)
  /\ symbol_stack' = Append(Symbols(t), Lexeme(t))
  /\ conds' = Conds(t)
  /\ UNCHANGED <<outcome, priorities, scope_count, pointer_level, tree,
                 func_param, module, code>>

\* No row: the end iterator of the row's map is dereferenced.
NoRow(t) ==
  /\ On(t, NoEntry)
  /\ ShiftTo[CurrentStatus(t)][t.key] = -1
  /\ End("undefined")

\* Code after a return: only braces are counted.
Ignore(t) ==
  /\ outcome = "running"
  /\ ~Dispatched(t)
  /\ scope_count' = CASE t.key = "LBRACES" -> scope_count + 1
                      [] t.key = "RBRACES" -> scope_count - 1
                      [] OTHER -> scope_count
  /\ UNCHANGED <<outcome, stacks, priorities, pointer_level, tree, func_param,
                 conds, module, code>>

\* The lexer is out of tokens: parse() returns the module, whatever is open.
EndOfInput == outcome = "running" /\ End("done")

skip(t) ==
  /\ On(t, "skip")
  /\ UNCHANGED vars

-----------------------------------------------------------------------------
(* Function headers. *)

get_function_name(t) ==
  /\ On(t, "get_function_name")
  /\ func_param' = [func_param EXCEPT !.name = Top.name]
  /\ status_stack' = Append(Pop(status_stack, 1), 10)
  /\ symbol_stack' = Append(Pop(symbol_stack, 1), Lexeme(t))
  /\ UNCHANGED <<outcome, priorities, scope_count, pointer_level, tree, conds,
                 module, code>>

\* find_value(type name): unknown names throw, names with storage are dropped,
\* and a variable that has no type yet passes for a type without being one.
HasType(x) == scopes[Lookup(x)].is_type \/ scopes[Lookup(x)].address # NoStorage

get_argument(t) ==
  /\ On(t, "get_argument")
  /\ IF Lookup(t.name) = Root THEN End("threw")
     ELSE /\ status_stack' = Pop(status_stack, 2)
          /\ symbol_stack' = Pop(symbol_stack, 2)
          /\ func_param' =
               IF scopes[Lookup(t.name)].address # NoStorage THEN func_param
               ELSE [func_param EXCEPT !.arg =
                       Append(@, [name |-> symbol_stack[Len(symbol_stack) - 1].name,
                                  typed |-> HasType(t.name)])]
          /\ UNCHANGED <<outcome, priorities, scope_count, pointer_level, tree,
                         conds, module, code>>

wait_function_return_type(t) ==
  /\ On(t, "wait_function_return_type")
  /\ status_stack' = Append(Pop(status_stack, 2), 14)
  /\ symbol_stack' = Pop(symbol_stack, 1)
  /\ UNCHANGED <<outcome, priorities, scope_count, pointer_level, tree,
                 func_param, conds, module, code>>

get_function_return_type(t) ==
  /\ On(t, "get_function_return_type")
  /\ IF Lookup(t.name) = Root THEN End("threw")
     ELSE /\ func_param' = [func_param EXCEPT !.return_type =
                              IF HasType(t.name) THEN "type" ELSE "null"]
          /\ status_stack' = Append(Pop(status_stack, 1), 25)
          /\ UNCHANGED <<outcome, symbol_stack, priorities, scope_count,
                         pointer_level, tree, conds, module, code>>

\* A declaration sits in the root scope, whose parent get_function_name reads.
function_declear(t) == On(t, "function_declear") /\ End("undefined")

-----------------------------------------------------------------------------
(* Function bodies. *)

\* insert_function: enters the function's scope, which a second function of
\* the same name and arity shares with the first, and allocates its arguments
\* in the entry block.
Arguments(path, args) == {Append(path, Id(args[i].name)) : i \in DOMAIN args}

Opened(path, args, entry) ==
  [p \in DOMAIN scopes \cup {path} \cup Arguments(path, args) |->
     LET node == IF p \in DOMAIN scopes THEN scopes[p] ELSE Fresh
     IN  IF p = path THEN [node EXCEPT !.is_func_root = TRUE]
         ELSE IF p \in Arguments(path, args)
              THEN [node EXCEPT !.address = entry, !.home = path]
              ELSE node]

FunctionScope == Append(current_node, Mangled(func_param.name, Len(func_param.arg)))

BrokenStartBody(t, below, below_symbols) ==    \* the builder is placed only once
  LET entry == Len(terms) + 1 IN
  /\ status_stack' = Append(below, 15)
  /\ symbol_stack' = Append(below_symbols, Lexeme(t))
  /\ func_param' = [func_param EXCEPT !.basic_blocks = Append(@, entry)]
  /\ terms' = Append(terms, <<>>)
  /\ insert_block' = IF insert_block = 0 THEN entry ELSE insert_block
  /\ current_node' = FunctionScope
  /\ UNCHANGED <<outcome, priorities, scope_count, pointer_level, conds,
                 definitions, uses>>

\* What both ways into a body share; below are the stacks the "LBRACES" goes on.
StartBody(t, below, below_symbols) ==
  LET entry == Len(terms) + 1 IN
  /\ status_stack' = Append(below, 15)
  /\ symbol_stack' = Append(below_symbols, Lexeme(t))
  /\ func_param' = [func_param EXCEPT !.basic_blocks = Append(@, entry)]
  /\ terms' = Append(terms, <<>>)
  /\ insert_block' = entry
  /\ current_node' = FunctionScope
  /\ UNCHANGED <<outcome, priorities, scope_count, pointer_level, conds,
                 definitions, uses>>

ArgumentsTyped == \A i \in DOMAIN func_param.arg : func_param.arg[i].typed

function_body_define_strart(t) ==
  /\ On(t, "function_body_define_strart")
  /\ IF ~ArgumentsTyped THEN End("undefined")
     ELSE /\ StartBody(t, status_stack, symbol_stack)
          /\ scopes' = Opened(FunctionScope, func_param.arg, Len(terms) + 1)
          /\ UNCHANGED functions

\* With a return type the function is declared before its body is parsed.
has_return_type_function_define(t) ==
  /\ On(t, "has_return_type_function_define")
  /\ IF ~ArgumentsTyped \/ func_param.return_type = "null" THEN End("undefined")
     ELSE /\ StartBody(t, Pop(status_stack, 1), Pop(symbol_stack, 1))
          /\ functions' = Append(functions, FunctionScope)
          /\ scopes' = [Opened(FunctionScope, func_param.arg, Len(terms) + 1)
                          EXCEPT ![FunctionScope].function_ptr = Len(functions) + 1]

Brokenfunction_body_define_finished(t) ==      \* the last block is left as it is
  LET fn == IF scopes[current_node].function_ptr # 0
            THEN scopes[current_node].function_ptr ELSE Len(functions) + 1
      return_blocks == IF func_param.return_block = 0 THEN <<>>
                       ELSE <<func_param.return_block>>
  IN
  /\ On(t, "function_body_define_finished")
  /\ functions' = IF fn <= Len(functions) THEN functions ELSE Append(functions, current_node)
  /\ scopes' = [scopes EXCEPT ![current_node].function_ptr = fn]
  /\ definitions' = Append(definitions,
                      [scope |-> current_node, fn |-> fn,
                       blocks |-> func_param.basic_blocks \o return_blocks])
  /\ leave_scope
  /\ status_stack' = Pop(Statuses(t), 2)
  /\ symbol_stack' = Pop(Symbols(t), 2)
  /\ conds' = Conds(t)
  /\ func_param' = Cleared(func_param)
  /\ UNCHANGED <<outcome, priorities, scope_count, pointer_level, terms, insert_block, uses>>

\* The last block falls into the return block, if a return made one; then
\* define_function puts the blocks into the (possibly already filled) function.
function_body_define_finished(t) ==
  LET declared == scopes[current_node].function_ptr # 0
      fn == IF declared THEN scopes[current_node].function_ptr ELSE Len(functions) + 1
      return_blocks == IF func_param.return_block = 0 THEN <<>>
                       ELSE <<func_param.return_block>>
  IN
  /\ On(t, "function_body_define_finished")
  /\ terms' = IF scopes[current_node].has_return \/ func_param.return_block = 0
              THEN terms
              ELSE Terminate(terms, insert_block, {func_param.return_block})
  /\ functions' = IF declared THEN functions ELSE Append(functions, current_node)
  /\ scopes' = [scopes EXCEPT ![current_node].function_ptr = fn]
  /\ definitions' = Append(definitions,
                      [scope |-> current_node, fn |-> fn,
                       blocks |-> func_param.basic_blocks \o return_blocks])
  /\ leave_scope
  /\ status_stack' = Pop(Statuses(t), 2)
  /\ symbol_stack' = Pop(Symbols(t), 2)
  /\ conds' = Conds(t)
  /\ func_param' = Cleared(func_param)
  /\ UNCHANGED <<outcome, priorities, scope_count, pointer_level, insert_block, uses>>

-----------------------------------------------------------------------------
(* Variables. *)

define_pointer(t) ==
  /\ On(t, "define_pointer")
  /\ pointer_level' = pointer_level + 1
  /\ UNCHANGED <<outcome, stacks, priorities, scope_count, tree, func_param,
                 conds, module, code>>

BrokenDefine(x) ==                             \* the stars are not used up
  /\ scopes' = With(scopes, Append(current_node, Id(x)))
  /\ UNCHANGED <<outcome, priorities, scope_count, pointer_level, current_node,
                 func_param, conds, module, code>>

\* variable_define: a second definition in the same scope throws.
Define(x) ==
  /\ scopes' = With(scopes, Append(current_node, Id(x)))
  /\ pointer_level' = 0
  /\ UNCHANGED <<outcome, priorities, scope_count, current_node, func_param,
                 conds, module, code>>

define_variable(t) ==
  /\ On(t, "define_variable")
  /\ IF Append(current_node, Id(t.name)) \in DOMAIN scopes THEN End("threw")
     ELSE /\ Define(t.name)
          /\ status_stack' = Append(Pop(status_stack, 1), 4)
          /\ UNCHANGED symbol_stack

\* After a comma: the comma and its status go away again.
Brokendefine_again(t) ==                       \* the comma itself is left behind
  /\ On(t, "define_again")
  /\ IF Append(current_node, Id(t.name)) \in DOMAIN scopes THEN End("threw")
     ELSE /\ Define(t.name)
          /\ status_stack' = Pop(status_stack, 1)
          /\ UNCHANGED symbol_stack

define_again(t) ==
  /\ On(t, "define_again")
  /\ IF Append(current_node, Id(t.name)) \in DOMAIN scopes THEN End("threw")
     ELSE /\ Define(t.name)
          /\ status_stack' = Pop(status_stack, 1)
          /\ symbol_stack' = Pop(symbol_stack, 1)

define_finished(t) ==
  /\ On(t, "define_finished")
  /\ status_stack' = Pop(status_stack, 1)
  /\ symbol_stack' = Pop(symbol_stack, 1)
  /\ UNCHANGED <<outcome, priorities, scope_count, pointer_level, tree,
                 func_param, conds, module, code>>

-----------------------------------------------------------------------------
(* Conditionals and loops. *)

BrokenEnterAnonymous ==                        \* every child has the same name
  LET child == Append(current_node, Anon(0)) IN
  /\ scopes' = With(scopes, child)
  /\ current_node' = child

BrokenEnterAnonymousOutside ==                 \* the child is made, not entered
  LET child == Append(current_node, Anon(scopes[current_node].name_no)) IN
  /\ scopes' = With([scopes EXCEPT ![current_node].name_no = @ + 1], child)
  /\ UNCHANGED current_node

\* enter_scope(): a fresh anonymous child.
EnterAnonymous ==
  LET child == Append(current_node, Anon(scopes[current_node].name_no)) IN
  /\ scopes' = With([scopes EXCEPT ![current_node].name_no = @ + 1], child)
  /\ current_node' = child

start_while_condition(t) ==
  LET b == Len(terms) + 1 IN
  /\ On(t, "start_while_condition")
  /\ status_stack' = Append(Statuses(t), 23)
  /\ symbol_stack' = Append(Symbols(t), CondSymbol(Len(conds) + 1))
  /\ conds' = Append(Conds(t), [NoCond EXCEPT !.entery_block = b])
  /\ func_param' = [func_param EXCEPT !.basic_blocks = Append(@, b)]
  /\ terms' = Append(Terminate(terms, insert_block, {b}), <<>>)
  /\ insert_block' = b
  /\ EnterAnonymous
  /\ UNCHANGED <<outcome, priorities, scope_count, pointer_level, module, uses>>

start_if_condition(t) ==
  /\ On(t, "start_if_condition")
  /\ status_stack' = Append(Statuses(t), 17)
  /\ symbol_stack' = Append(Symbols(t), CondSymbol(Len(conds) + 1))
  /\ conds' = Append(Conds(t), NoCond)
  /\ EnterAnonymous
  /\ UNCHANGED <<outcome, priorities, scope_count, pointer_level, func_param,
                 module, code>>

\* The loop branches back even if its last block already ends in a return.
end_while_body(t) ==
  LET c == Last(Symbols(t)).cond IN
  /\ On(t, "end_while_body")
  /\ terms' = Terminate(terms, insert_block, {conds[c].entery_block})
  /\ insert_block' = conds[c].exit_block
  /\ leave_scope
  /\ conds' = [Conds(t) EXCEPT ![c].live = FALSE]
  /\ status_stack' = Pop(Statuses(t), 1)
  /\ symbol_stack' = Pop(Symbols(t), 1)
  /\ UNCHANGED <<outcome, priorities, scope_count, pointer_level, scopes,
                 func_param, module, uses>>

Brokenend_if_body1(t) ==                       \* it falls even if it has returned
  LET c == Last(Symbols(t)).cond IN
  /\ On(t, "end_if_body1")
  /\ terms' = Terminate(terms, insert_block, {conds[c].body2})
  /\ insert_block' = conds[c].body2
  /\ leave_scope
  /\ status_stack' = Append(Pop(Statuses(t), 1), 20)
  /\ symbol_stack' = Symbols(t)
  /\ conds' = Conds(t)
  /\ UNCHANGED <<outcome, priorities, scope_count, pointer_level, scopes,
                 func_param, module, uses>>

\* The then-branch falls into the block of the else-branch.
end_if_body1(t) ==
  LET c == Last(Symbols(t)).cond IN
  /\ On(t, "end_if_body1")
  /\ terms' = IF scopes[current_node].has_return THEN terms
              ELSE Terminate(terms, insert_block, {conds[c].body2})
  /\ insert_block' = conds[c].body2
  /\ leave_scope
  /\ status_stack' = Append(Pop(Statuses(t), 1), 20)
  /\ symbol_stack' = Symbols(t)
  /\ conds' = Conds(t)
  /\ UNCHANGED <<outcome, priorities, scope_count, pointer_level, scopes,
                 func_param, module, uses>>

check_if_body2(t) ==
  /\ On(t, "check_if_body2")
  /\ EnterAnonymous
  /\ status_stack' = Append(Pop(status_stack, 1), 21)
  /\ UNCHANGED <<outcome, symbol_stack, priorities, scope_count, pointer_level,
                 func_param, conds, module, code>>

\* Nothing ever gives an "if" an exit block: an else-branch that did not return
\* branches to a null block, one that did makes the scope around it returned.
end_if_body2(t) ==
  LET c == Symbols(t)[Len(Symbols(t)) - 1].cond
      outer == Pop(current_node, 1)
  IN
  /\ On(t, "end_if_body2")
  /\ IF ~scopes[current_node].has_return THEN End("undefined")
     ELSE /\ current_node' = outer
          /\ scopes' = [scopes EXCEPT ![outer].has_return = TRUE]
          /\ conds' = [Conds(t) EXCEPT ![c].live = FALSE]
          /\ status_stack' = Pop(Statuses(t), 2)
          /\ symbol_stack' = Pop(Symbols(t), 2)
          /\ UNCHANGED <<outcome, priorities, scope_count, pointer_level,
                         func_param, module, code>>

-----------------------------------------------------------------------------
(* Expressions. *)

\* get_value of an identifier: unknown names throw; loading one that was never
\* assigned asks for storage of a null type; assigning to it allocates.
Unknown(names) == {x \in names : Lookup(x) = Root}
Unset(names) == {x \in names \ Unknown(names) : scopes[Lookup(x)].address = NoStorage}

Faults(loads, targets) ==
       (IF Unknown(loads \cup targets) # {} THEN {"threw"} ELSE {})
  \cup (IF Unset(loads) # {} THEN {"undefined"} ELSE {})

Touched(loads, targets) ==
  LET new == {Lookup(x) : x \in Unset(targets)} IN
  [p \in DOMAIN scopes |->
     IF p \in new
     THEN [scopes[p] EXCEPT
             !.address = IF Len(p) = 1 THEN Global ELSE insert_block,
             !.home = current_node]
     ELSE scopes[p]]

\* An instruction goes to the insertion point, inside a function or outside; a
\* variable of the module and a function belong to no block.
Use(of, home) == [at |-> insert_block, of |-> of, within |-> IsPrefix(home, current_node)]
Call == Use(Global, Root)

Used(nodes, names) ==
  uses \cup {Use(nodes[Lookup(x)].address, nodes[Lookup(x)].home) : x \in names}

\* Evaluating the suffix from m on.  get_value of a stray operator returns an
\* uninitialised pointer; what sovle_unary does with one is not followed.
ValueFaults(S, m) ==
       Faults(Loads(S, m), Targets(S, m))
  \cup (IF Uncomputable(S, m) THEN {"threw"} ELSE {})
  \cup (IF StrayIsRead(S, m) THEN {"undefined"} ELSE {})
  \cup (IF StrayIsUnary(S, m) THEN {"untracked"} ELSE {})

TouchedBy(S, m) == Touched(Loads(S, m), Targets(S, m))
UsedBy(S, m) == Used(TouchedBy(S, m), Loads(S, m) \cup Targets(S, m))

\* A solving step leaves a suffix of one symbol unevaluated.
StepFaults(S, m) == IF m = Len(S) THEN {} ELSE ValueFaults(S, m)

Evaluate(S, m) ==
  IF m = Len(S) THEN UNCHANGED <<scopes, uses>>
  ELSE scopes' = TouchedBy(S, m) /\ uses' = UsedBy(S, m)

Brokenenter_parentheses(t) ==                  \* the status is not pushed
  /\ On(t, "enter_parentheses")
  /\ symbol_stack' = Append(symbol_stack, Lexeme(t))
  /\ priority_stack' = Append(priority_stack, last_priority)
  /\ last_priority' = 255
  /\ UNCHANGED <<outcome, status_stack, scope_count, pointer_level, tree,
                 func_param, conds, module, code>>

enter_parentheses(t) ==
  /\ On(t, "enter_parentheses")
  /\ symbol_stack' = Append(symbol_stack, Lexeme(t))
  /\ status_stack' = Append(status_stack, 7)
  /\ priority_stack' = Append(priority_stack, last_priority)
  /\ last_priority' = 255
  /\ UNCHANGED <<outcome, scope_count, pointer_level, tree, func_param, conds,
                 module, code>>

\* check_priority of a binary operator: one solving step if it binds looser
\* than last_priority, which is then what that step left, not its own.
OnOperator(t) == On(t, "check_priority") /\ t.key # "SEMICOLON"

push_operator(t) ==
  /\ OnOperator(t)
  /\ IF t.key \notin Prioritised THEN End("threw")
     ELSE /\ Priority[t.key] <= last_priority
          /\ last_priority' = Priority[t.key]
          /\ symbol_stack' = Append(symbol_stack, Lexeme(t))
          /\ status_stack' = Append(status_stack, 7)
          /\ UNCHANGED <<outcome, priority_stack, scope_count, pointer_level,
                         tree, func_param, conds, module, code>>

solve_then_push_operator(t) ==
  /\ OnOperator(t)
  /\ t.key \in Prioritised
  /\ Priority[t.key] > last_priority
  /\ \/ /\ StepFallsOff(symbol_stack, last_priority)
        /\ \E o \in {"threw"} \cup StepFaults(symbol_stack, 1) : End(o)
     \/ \E m \in 2 .. Len(symbol_stack) :
          /\ StepStart(symbol_stack, last_priority, m)
          /\ \/ \E o \in StepFaults(symbol_stack, m) : End(o)
             \/ /\ StepFaults(symbol_stack, m) = {}
                /\ Evaluate(symbol_stack, m)
                /\ last_priority' = StepPriority(symbol_stack, last_priority, m)
                /\ symbol_stack' = Append(Reduced(symbol_stack, m, Value), Lexeme(t))
                /\ status_stack' = Append(Reduced(status_stack, m, 2), 7)
                /\ UNCHANGED <<outcome, priority_stack, scope_count, pointer_level,
                               current_node, func_param, conds, module, terms,
                               insert_block>>

\* "SEMICOLON" and "LBRACES" first run the loop; the statement then ends in one of these.
LoopFails ==
  /\ LoopFallsOff(symbol_stack, last_priority)
  /\ \E o \in FallOutcomes(symbol_stack) \cup StepFaults(symbol_stack, 1) : End(o)

OnSemicolon(t, m) ==
  /\ On(t, "check_priority") /\ t.key = "SEMICOLON"
  /\ LoopStart(symbol_stack, last_priority, m)

expression_fails(t) ==
  /\ \/ On(t, "check_priority") /\ t.key = "SEMICOLON"
     \/ On(t, "reduce_condition_calculate")
  /\ LoopFails

\* The value is dropped, and so is what is left of a list in front of a comma.
expression_statement(t, m) ==
  /\ OnSemicolon(t, m)
  /\ status_stack[m - 1] # 16
  /\ \/ \E o \in StepFaults(symbol_stack, m) : End(o)
     \/ /\ StepFaults(symbol_stack, m) = {}
        /\ Evaluate(symbol_stack, m)
        /\ \E k \in 0 .. m - 1 :
             /\ m - 1 - 2 * k > 0
             /\ \A i \in 0 .. k - 1 : symbol_stack[m - 1 - 2 * i].key = "COMMA"
             /\ symbol_stack[m - 1 - 2 * k].key # "COMMA"
             /\ symbol_stack' = SubSeq(symbol_stack, 1, m - 1 - 2 * k)
             /\ status_stack' = SubSeq(status_stack, 1, m - 1 - 2 * k)
        /\ last_priority' = 255
        /\ UNCHANGED <<outcome, priority_stack, scope_count, pointer_level,
                       current_node, func_param, conds, module, terms,
                       insert_block>>

\* The first return of a function makes its return block; a later one throws
\* if its type differs.
return_statement(t, m) ==
  LET first == func_param.return_block = 0
      target == IF first THEN Len(terms) + 1 ELSE func_param.return_block
      faults == ValueFaults(symbol_stack, m)
  IN
  /\ OnSemicolon(t, m)
  /\ status_stack[m - 1] = 16
  /\ \/ \E o \in faults \cup (IF first THEN {} ELSE {"threw"}) : End(o)
     \/ /\ faults = {}
        /\ terms' = Terminate(IF first THEN Append(terms, <<{}>>) ELSE terms,
                              insert_block, {target})
        /\ func_param' = [func_param EXCEPT !.return_block = target]
        /\ scopes' = [TouchedBy(symbol_stack, m) EXCEPT ![current_node].has_return = TRUE]
        /\ uses' = UsedBy(symbol_stack, m)
        /\ symbol_stack' = SubSeq(symbol_stack, 1, m - 2)
        /\ status_stack' = SubSeq(status_stack, 1, m - 2)
        /\ last_priority' = 255
        /\ UNCHANGED <<outcome, priority_stack, scope_count, pointer_level,
                       current_node, conds, module, insert_block>>

\* "LBRACES" after an expression: the condition of the "if" or "while" below it, or,
\* inside a body, a value that is dropped together with the brace.
reduce_condition_calculate(t, m) ==
  LET below == symbol_stack[m - 1]
      b == Len(terms) + 1
      faults == ValueFaults(symbol_stack, m)
      Branch(status) ==
        /\ terms' = Terminate(terms, insert_block, {b, b + 1}) \o <<<<>>, <<>>>>
        /\ func_param' = [func_param EXCEPT !.basic_blocks = @ \o <<b, b + 1>>]
        /\ insert_block' = b
        /\ status_stack' = Append(SubSeq(status_stack, 1, m - 2), status)
  IN
  /\ On(t, "reduce_condition_calculate")
  /\ LoopStart(symbol_stack, last_priority, m)
  /\ \/ \E o \in faults : End(o)
     \/ faults = {} /\ below.key # "cond" /\ End("threw")
     \/ /\ faults = {}
        /\ below.key = "cond"
        /\ CASE status_stack[m - 1] = 17 ->
                  /\ Branch(19)
                  /\ conds' = [conds EXCEPT ![below.cond] =
                              [@ EXCEPT !.body1 = b, !.body2 = b + 1]]
             [] status_stack[m - 1] = 23 ->
                  /\ Branch(24)
                  /\ conds' = [conds EXCEPT ![below.cond] =
                              [@ EXCEPT !.body1 = b, !.exit_block = b + 1]]
             [] OTHER ->
                  /\ status_stack' = SubSeq(status_stack, 1, m - 1)
                  /\ UNCHANGED <<conds, terms, func_param, insert_block>>
        /\ symbol_stack' = SubSeq(symbol_stack, 1, m - 1)
        /\ scopes' = TouchedBy(symbol_stack, m)
        /\ uses' = UsedBy(symbol_stack, m)
        /\ last_priority' = 255
        /\ UNCHANGED <<outcome, priority_stack, scope_count, pointer_level,
                       current_node, module>>

\* ")": the nearest "(" is at q; what is left of it decides what is reduced.
OnParenthesis(t, q) ==
  /\ On(t, "reduce_rparenthese")
  /\ q \in DOMAIN symbol_stack
  /\ symbol_stack[q].key = "("
  /\ \A i \in q + 1 .. Len(symbol_stack) : symbol_stack[i].key # "("

parenthesis_fails(t) ==
  /\ On(t, "reduce_rparenthese")
  /\ \/ \A q \in DOMAIN symbol_stack : symbol_stack[q].key # "("
     \/ \E q \in DOMAIN symbol_stack :
          OnParenthesis(t, q) /\ symbol_stack[q - 1].key = "value"
  /\ End("threw")

Brokenleave_parentheses ==                     \* the saved priority is not popped
  /\ last_priority' = Last(priority_stack)
  /\ UNCHANGED priority_stack

leave_parentheses ==
  /\ last_priority' = Last(priority_stack)
  /\ priority_stack' = Pop(priority_stack, 1)

\* No invocable in front: the operands are folded left to right, whatever the
\* priorities of their operators.
reduce_group(t, q) ==
  LET S == symbol_stack
      m == q + 1
      faults == IF m = Len(S) THEN {}
                ELSE IF ~Alternates(S, m) THEN {"threw"}
                ELSE ValueFaults(S, m)
  IN
  /\ OnParenthesis(t, q)
  /\ S[q - 1].key \notin {"id", "value"}
  /\ \/ \E o \in faults : End(o)
     \/ /\ faults = {}
        /\ Evaluate(S, m)
        /\ symbol_stack' = Append(SubSeq(S, 1, q - 1), IF m = Len(S) THEN S[m] ELSE Value)
        /\ status_stack' = Append(SubSeq(status_stack, 1, q - 1), 2)
        /\ leave_parentheses
        /\ UNCHANGED <<outcome, scope_count, pointer_level, current_node,
                       func_param, conds, module, terms, insert_block>>

\* get_callee: the nearest scope outwards with a function of that mangled name.
Callable(f, arity) ==
  \E i \in 0 .. Len(current_node) :
    LET path == Append(SubSeq(current_node, 1, i), Mangled(f, arity)) IN
    path \in DOMAIN scopes /\ scopes[path].function_ptr # 0

\* take_invocable pops the name at i and looks at the symbol below it, which a
\* name at the bottom does not have; a member of something is never found.
InvocableFaults(S, i) ==
  IF i = 1 THEN {"undefined"}
  ELSE IF S[i - 1].key \in {".", "->"} THEN {"threw", "undefined"} ELSE {}

\* reduce_operatorbrace: every operand is an argument, whatever stands between.
reduce_operatorbrace(t, q) ==
  LET S == symbol_stack
      m == q + 1
      loads == {S[i].name : i \in Identifiers(S, m)}
      arity == ((Len(S) - m) \div 2) + 1
      faults == Faults(loads, {})
           \cup (IF Strays(S, m) # {} THEN {"undefined"} ELSE {})
           \cup (IF ~Alternates(S, m) \/ ~Callable(S[q - 1].name, arity)
                 THEN {"threw"} ELSE {})
           \cup InvocableFaults(S, q - 1)
  IN
  /\ OnParenthesis(t, q)
  /\ S[q - 1].key = "id"
  /\ \/ \E o \in faults \cup {"threw"} : End(o)
     \/ /\ faults = {}
        /\ uses' = Used(scopes, loads) \cup {Call}
        /\ symbol_stack' = Append(SubSeq(S, 1, q - 2), Value)
        /\ status_stack' = Append(SubSeq(status_stack, 1, q - 2), 2)
        /\ leave_parentheses
        /\ UNCHANGED <<outcome, scope_count, pointer_level, tree, func_param,
                       conds, module, terms, insert_block>>

-----------------------------------------------------------------------------
Init ==
  /\ outcome = "running"
  /\ status_stack = <<>> /\ symbol_stack = <<>>
  /\ priority_stack = <<>> /\ last_priority = 255
  /\ scope_count = 0 /\ pointer_level = UnsetPointerLevel
  /\ scopes = [p \in {Root} \cup {<<Id(x)>> : x \in Type} |->
                 [Fresh EXCEPT !.is_type = (p # Root)]]
  /\ current_node = Root
  /\ func_param = NoFunction
  /\ conds = <<>> /\ functions = <<>> /\ definitions = <<>>
  /\ terms = <<>> /\ insert_block = 0 /\ uses = {}

Header(t) ==
  \/ get_function_name(t) \/ get_argument(t) \/ wait_function_return_type(t)
  \/ get_function_return_type(t) \/ function_declear(t)

Body(t) ==
  \/ function_body_define_strart(t) \/ has_return_type_function_define(t)
  \/ function_body_define_finished(t)

Variable(t) ==
  \/ define_pointer(t) \/ define_variable(t) \/ define_again(t) \/ define_finished(t)

Branching(t) ==
  \/ start_while_condition(t) \/ end_while_body(t) \/ start_if_condition(t)
  \/ end_if_body1(t) \/ check_if_body2(t) \/ end_if_body2(t)

Expression(t) ==
  \/ enter_parentheses(t) \/ push_operator(t) \/ solve_then_push_operator(t)
  \/ expression_fails(t) \/ parenthesis_fails(t)
  \/ \E m \in 2 .. Len(symbol_stack) :
       \/ expression_statement(t, m) \/ return_statement(t, m)
       \/ reduce_condition_calculate(t, m)
       \/ reduce_group(t, m) \/ reduce_operatorbrace(t, m)

\* A reduce row: its handler runs.
Reduce(t) ==
  /\ Handler[CurrentStatus(t)][t.key] # NoEntry
  /\ \/ skip(t) \/ Header(t) \/ Body(t) \/ Variable(t) \/ Branching(t) \/ Expression(t)

process_token(t) == Shift(t) \/ NoRow(t) \/ Ignore(t) \/ Reduce(t)

\* The bounds of the state space; no code stands behind them.
Bounded ==
  /\ Len(symbol_stack) <= MaxSymbols
  /\ Len(terms) <= MaxBlocks
  /\ Len(func_param.arg) <= MaxArity
  /\ Len(priority_stack) <= MaxParens
  /\ Cardinality({i \in DOMAIN status_stack :
        status_stack[i] = 2 /\ symbol_stack[i].key \in Punchation}) <= MaxStrays
  /\ scope_count <= MaxNesting
  /\ pointer_level <= MaxPointers

Next ==
  /\ Len(definitions) < MaxBodies
  /\ EndOfInput \/ \E t \in Token : process_token(t)
  /\ Bounded'

Spec == Init /\ [][Next]_vars
=============================================================================
