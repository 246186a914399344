-------------------------- MODULE ParserProperties --------------------------
(***************************************************************************)
(* What the parser keeps true while it runs.                               *)
(***************************************************************************)
EXTENDS Parser

Outcome == {"running", "done", "threw", "undefined", "untracked"}

Path == Seq(NodeName)
Node == [is_type : BOOLEAN, has_return : BOOLEAN, is_func_root : BOOLEAN,
         name_no : Nat, address : Nat \cup {Global}, home : Path, function_ptr : Nat]

Block == 1 .. Len(terms)
MaybeBlock == 0 .. Len(terms)

CondOf(blocks) == [entery_block : blocks, body1 : blocks, body2 : blocks,
                   exit_block : blocks, live : BOOLEAN]

FuncParamOf(blocks) == [name : Name \cup {""},
                        arg : Seq([name : Name \cup {""}, typed : BOOLEAN]),
                        return_type : {"none", "type", "null"},
                        basic_blocks : Seq(blocks), return_block : blocks]

\* The state of the parser itself.
TypeOfStacks ==
  /\ outcome \in Outcome
  /\ status_stack \in Seq(Status \ {0})
  /\ symbol_stack \in Seq(Symbol)
  /\ scope_count \in Nat
  /\ pointer_level \in Nat

TypeOfPriorities ==
  /\ priority_stack \in Seq(1 .. 255)
  /\ last_priority \in 1 .. 255

\* The tree: every scope but the root has its parent in it.
TypeOfTree ==
  /\ current_node \in DOMAIN scopes
  /\ DOMAIN scopes \subseteq Path
  /\ \A p \in DOMAIN scopes :
       /\ scopes[p] \in Node
       /\ SubSeq(p, 1, Len(p) - 1) \in DOMAIN scopes

\* The blocks: what refers to a block refers to one that was created.
TypeOfCode ==
  /\ func_param \in FuncParamOf(MaybeBlock)
  /\ conds \in Seq(CondOf(MaybeBlock))
  /\ terms \in Seq(Seq(SUBSET MaybeBlock))
  /\ insert_block \in MaybeBlock

TypeOfResult ==
  /\ functions \in Seq(Path)
  /\ definitions \in Seq([scope : Path, fn : Nat, blocks : Seq(Nat)])
  /\ uses \subseteq [at : Nat, of : Nat \cup {Global}, within : BOOLEAN]

\* Every variable keeps to its type; the two stacks are sequences of statuses
\* and symbols, paths are sequences of node names.
TypeOK ==
  /\ TypeOfStacks
  /\ TypeOfPriorities
  /\ TypeOfTree
  /\ TypeOfCode
  /\ TypeOfResult

-----------------------------------------------------------------------------
(* The two stacks. *)

\* The symbols a status may stand beside, and the statuses it may stand on.
StandsBeside(status, key) ==
  \/ status = 2 /\ key \in OperandKey \cup Punchation
  \/ status \in {1, 7} /\ key \in Punchation
  \/ status \in {3, 4} /\ key = "let"
  \/ status = 5 /\ key = "COMMA"
  \/ status \in {8, 14} /\ key = "fn"
  \/ status \in {9, 11} /\ key = "id"
  \/ status = 10 /\ key = "("
  \/ status = 12 /\ key = ":"
  \/ status \in {18, 25} /\ key = "->"
  \/ status \in {15, 22} /\ key = "LBRACES"
  \/ status = 16 /\ key = "return"
  \/ status \in {17, 19, 20, 21, 23, 24} /\ key = "cond"

StandsOn(status, below) ==
  \/ status = 1 /\ below \in Opening
  \/ status = 2 /\ below \in {0, 2, 7} \cup Opening
  \/ status \in {3, 4} /\ below \in {0, 15}
  \/ status = 5 /\ below = 4
  \/ status = 7 /\ below \in {2, 7}
  \/ status \in {8, 14} /\ below = 0
  \/ status \in {9, 10} /\ below = 8
  \/ status = 11 /\ below = 10
  \/ status = 12 /\ below = 11
  \/ status \in {15, 18, 25} /\ below = 14
  \/ status = 16 /\ below \in {15, 19, 22}
  \/ status \in {17, 19, 20, 21, 23, 24} /\ below \in {15, 19, 22, 24}
  \/ status = 22 /\ below = 21

\* A symbol with the status beside it, above the status below it.  Operators in
\* operand position are shifted on an operator only, and a "(" never is.
Fits(below, status, key) ==
  /\ StandsBeside(status, key)
  /\ StandsOn(status, below)
  /\ status = 7 /\ below = 7 => key = "("
  /\ status = 2 /\ key \in Punchation => below \in {2, 7} /\ key # "("

TopOf(statuses) == IF statuses = <<>> THEN 0 ELSE statuses[Len(statuses)]

Matched(statuses, symbols) ==
  /\ Len(statuses) = Len(symbols)
  /\ \A i \in 1 .. Len(statuses) :
       Fits(IF i = 1 THEN 0 ELSE statuses[i - 1], statuses[i], symbols[i].key)

\* The status stack and the symbol stack stay parallel: they have the same
\* height, each status stands on one the table can push it on, beside a symbol
\* the handlers registered for it can take.  Every std::get<CondParam*> and
\* std::get<Token> of end_while_body, end_if_body1, end_if_body2,
\* check_if_body2, get_function_name and get_argument relies on it.
StacksMatch == Matched(status_stack, symbol_stack)

\* enter_scope and leave_scope are called from different handlers than the
\* ones that push and pop: still the depth of the current scope is the number
\* of open bodies, conditions and else-branches on the status stack, so
\* leave_scope never meets the root.
ScopesMatchStatuses ==
  Len(current_node) =
    Cardinality({i \in DOMAIN status_stack : status_stack[i] \in {15, 17, 19, 21, 23, 24}})

\* Every CondParam is allocated with new and deleted by hand in three places:
\* the ones not yet deleted are exactly those on the symbol stack, each there
\* once, and an "if" never gets the exit block end_if_body2 asks for.
CondsMatchStack ==
  LET held == {i \in DOMAIN symbol_stack : symbol_stack[i].key = "cond"} IN
  /\ {symbol_stack[i].cond : i \in held} = {c \in DOMAIN conds : conds[c].live}
  /\ \A i, j \in held : symbol_stack[i].cond = symbol_stack[j].cond => i = j
  /\ \A i \in held :
       LET c == conds[symbol_stack[i].cond] IN
       CASE status_stack[i] = 17 -> c.body1 = 0
         [] status_stack[i] \in {19, 20, 21} -> c.body2 \in Block /\ c.exit_block = 0
         [] status_stack[i] = 23 -> c.entery_block \in Block /\ c.exit_block = 0
         [] OTHER -> {c.entery_block, c.exit_block} \subseteq Block

\* The parentheses that are open in the expression being parsed.
OpenParentheses(statuses, symbols) ==
  {i \in DOMAIN statuses : statuses[i] = 7 /\ symbols[i].key = "("}

\* The saved priorities no open parenthesis will take back.
Unpaired == Len(priority_stack) - Cardinality(OpenParentheses(status_stack, symbol_stack))

\* Nothing leaks from one statement into the next: outside an expression the
\* priorities are back at 255, outside a "let" the stars of an earlier one are
\* used up, and for every open parenthesis a priority is saved, so that
\* leave_parentheses never takes the top of an empty priority_stack.
NothingLeaks ==
  LET status == IF status_stack = <<>> THEN 0 ELSE Last(status_stack) IN
  /\ status \notin {2, 7} => last_priority = 255
  /\ status \notin {3, 5} => pointer_level \in {0, UnsetPointerLevel}
  /\ Unpaired >= 0

-----------------------------------------------------------------------------
(* The scopes and the blocks. *)

\* A second body for a name and arity that already has one is being parsed.
Redefining ==
  /\ current_node # Root
  /\ \E i \in DOMAIN definitions : definitions[i].scope = SubSeq(current_node, 1, 1)

\* has_return of the current scope tells whether the block being filled has
\* ended, which every handler that branches takes it for.
ReturnedMeansTerminated ==
  current_node # Root /\ ~Redefining =>
    (scopes[current_node].has_return <=> terms[insert_block] # <<>>)

\* Only the innermost scope can have returned, and only it makes tokens be
\* skipped: braces are counted in no other case.
OnlyInnermostReturned ==
  /\ scope_count > 0 => scopes[current_node].has_return
  /\ \A n \in 0 .. Len(current_node) - 1 :
       ~scopes[SubSeq(current_node, 1, n)].has_return

\* A block ends once; the one exception is the branch back that
\* end_while_body adds to a loop body whose last statement has returned.
OneTerminatorButLoops ==
  \A b \in Block :
    \/ Len(terms[b]) <= 1
    \/ /\ Len(terms[b]) = 2
       /\ \E c \in DOMAIN conds :
            conds[c].entery_block # 0 /\ ~conds[c].live
            /\ terms[b][2] = {conds[c].entery_block}

SeqRange(s) == {s[i] : i \in DOMAIN s}

\* define_function moves every block of the body, the return block included,
\* into one function: no branch leaves its function and no block is in two.
BranchesStayInFunction ==
  \A i \in DOMAIN definitions :
    LET own == SeqRange(definitions[i].blocks) IN
    /\ \A b \in own : UNION SeqRange(terms[b]) \subseteq own
    /\ \A j \in DOMAIN definitions \ {i} : own \cap SeqRange(definitions[j].blocks) = {}

\* The blocks of definition d that are reached from its entry without passing
\* through the block v.
Avoiding(d, v) ==
  LET next(B) == B \cup ((UNION {UNION SeqRange(terms[b]) : b \in B}) \ {v})
      reached[n \in 0 .. Len(d.blocks)] ==
        IF n = 0 THEN {d.blocks[1]} \ {v} ELSE next(reached[n - 1])
  IN  reached[Len(d.blocks)]

\* First definitions only: a second one finds the variables of the first.
FirstDefinitions ==
  {i \in DOMAIN definitions : \A j \in 1 .. i - 1 : definitions[j].scope # definitions[i].scope}

Dominated(u) ==
  \A i \in FirstDefinitions :
    u.at \in SeqRange(definitions[i].blocks) => u.at \notin Avoiding(definitions[i], u.of)

\* The loads and stores of storage that a block allocated.
Local == {u \in uses : u.of > 0}

\* Storage is allocated where a variable is first assigned: a use inside the
\* scope that was current then comes after the allocation on every path.
StorageOfOpenScopeDominates == \A u \in Local : u.within => Dominated(u)

\* verifyFunction, which define_function runs on every function it fills,
\* asks the same of every use (and nobody reads its answer).
StorageDominates == \A u \in Local : Dominated(u)

\* ... and that every block ends in one terminator.
BlocksAreTerminated ==
  \A i \in DOMAIN definitions :
    \A b \in SeqRange(definitions[i].blocks) : Len(terms[b]) = 1

\* ... which fails in functions without a return only: where one has made the
\* return block, the end of the body falls into it, and no block of a branch or
\* a loop is ever left open.  Without one, the block at the end stays open, and
\* no other.
OnlyEndStaysOpen ==
  \A i \in DOMAIN definitions :
    LET own == SeqRange(definitions[i].blocks)
        open == {b \in own : terms[b] = <<>>}
    IN  /\ \A b, c \in open : b = c
        /\ open # {} => \A b \in own : {} \notin SeqRange(terms[b])

-----------------------------------------------------------------------------
(* Steps. *)

\* Skipping code after a return never fails: only braces are counted until
\* the one that closes the returned scope, whose handler the row then has.
SkippingNeverFails ==
  [][outcome = "running" /\ Skipping => outcome' \in {"running", "done"}]_vars

\* What enter_parentheses saves, leave_parentheses takes back: the one handler that
\* lets a saved priority go unpaired is the end of a statement, where the list in
\* front of a comma is dropped and the comma stands right behind an open "(".
PrioritiesArePaired ==
  [][\/ Unpaired' = Unpaired
     \/ /\ Unpaired' > Unpaired /\ UNCHANGED priority_stack
        /\ \E i \in DOMAIN status_stack \ DOMAIN status_stack' :
             status_stack[i] = 2 /\ symbol_stack[i].key = "COMMA"]_vars

\* A function that define_function has filled gets no terminator any more, and
\* code of another function never lands in it.  It is not final: an expression
\* outside any function is emitted where the builder was left, which is the last
\* block of the function that was filled last.
FilledCodeGrowsAtRootOnly ==
  [][\A i \in DOMAIN definitions : \A b \in SeqRange(definitions[i].blocks) :
        /\ terms'[b] = terms[b]
        /\ \/ {u \in uses' : u.at = b} = {u \in uses : u.at = b}
           \/ current_node = Root /\ i = Len(definitions) /\ b = insert_block]_vars
=============================================================================
