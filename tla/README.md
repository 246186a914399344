# Verification of the Lethon compiler

Lethon (`lpp`) is a small C++ compiler: a hand-written lexer, a table-driven parser that
emits LLVM IR while it parses, and a driver that runs `main` with the JIT.  This directory
holds a TLA+ model of it, the TLC configurations that check the model, and proofs that TLAPS
checks.  The model is written from `src/src` and `src/include`; `src/third-party` is LLVM.

The program is single-threaded and input-driven.  What makes it hard is not concurrency but
*protocol*: about forty handlers, called in an order that only the source text decides, push
and pop two stacks by hand, enter and leave scopes in other handlers than the ones that push
and pop, allocate and delete conditions by hand, move one insertion point of one IRBuilder
around, and reuse one record for every function.  There are no tests with assertions, and the
sample `test.lpp` uses constructs no row of the table accepts.  So the model's input is every
sequence of tokens, and its properties relate the pieces of state that must stay in step.

## The parts of the system

| part | state | operations | in the model |
|---|---|---|---|
| `Parser`, table and dispatch (Parser.h, Parser.cpp) | `DFA` (rows), `status_stack`, `symbol_stack`, `scope_count`, `pointer_level` | `parse`, `process_token`, `init_node`, one handler per row | `ParserTable`, `Parser` |
| `Parser`, operator precedence | `priority_stack`, `last_priority`, `process_stack` | `check_priority`, `back_ward_solve_expr`, `clear_process_stack`, `get_value`, `reduce_rparenthese`, `reduce_operatorbrace`, `get_callee` | `Reduction`, `Parser`; loop by loop `Evaluation` |
| `BlockScopeManager`, `BlockScopeNode` | tree of scopes, `current_node`, per node `has_return`, `current_value`, `function_ptr`, child counter | `enter_scope`, `leave_scope`, `insert_function`, `define_function`, `find_value`, `insert_member_value` | `Parser` (partly) |
| emitted control flow | IRBuilder position, basic blocks, `FuncParam`, `CondParam` | the handlers for functions, `if`, `while`, `return` | `Parser`; what it promises: `StructuredCode` |
| `Lexer`, lines and tokens | `linebuf`, `line`, `column`, stream state | `set_source`, `get_next_token`, `skip_blank`, `parse_mul_punc` | `Lexer` |
| `Lexer`, keyword trie | tree of `DFANode` | `init_keyword`, `save`, `load` | `KeywordTrie` |
| `Lexer`, literals | none | suffix and range checks of `get_next_token`, `atoll`, `atoull`, `atod` | `Literals` |
| `Token`, `Common` | none | equality and hash of tokens, conversions | as the keys of `ParserTable` |
| `CodeGenerator` | LLVM context | optimise, print | not modelled: a fixed sequence of LLVM calls |
| `SymbolTable`, `StructTypeSymbolTable`, `NameSpaceManager`, `Expression`, `Assemblier` | - | - | not modelled: never called, empty or commented out |
| `test.cpp` | - | reads, parses, runs | not modelled: LLVM calls only |

How they interact: `Parser::parse` asks the lexer for one token at a time and hands it to
`process_token`; that reads the row of the status on top of `status_stack` and either shifts
the token or calls the handler registered there; a handler calls the scope tree (by plain
calls, sharing `current_node`) and the IRBuilder.  An exception leaves `parse()`; nobody
catches it.  There are no callbacks, messages, timeouts or restarts.

What makes each part correct:

* *dispatch*: the two stacks stay parallel and every handler finds the symbols it takes with
  `std::get`; dead code after a `return` is skipped up to exactly the brace that closes the
  scope that returned;
* *precedence*: nothing an expression leaves behind reaches the next statement (priorities,
  parentheses, pointer stars); operators are applied in the order
  the priorities state; the loops over the stack end and lose no symbol;
* *scopes*: the current scope is as deep as the statements that are open;
* *emitted code*: blocks are written one at a time, each ends once; `has_return` is right about the block being filled;
  no block is shared by two functions and no branch leaves its function; to a function
  that was filled only code outside functions is added; storage is allocated before it is used on
  every path;
* *lexer*: every character of the source belongs to one token, the longest one; keywords are
  recognised wherever they stand; lines are counted; the token stream ends, and only when
  nothing is left;
* *keyword trie*: a keyword keeps its number; a saved set of keywords is the one that is loaded;
* *literals*: what is accepted is the number that is written and fits the type it names.

## The modules

* `ParserTable`: the tables of the program as data.  `ShiftRows` and `ReduceRows` are the
  `init_node` calls of the constructor, `PriorityRows` is `priority_map`, `Emitted` the cases
  of `clear_process_stack`.  Tokens are known by their *key*, as `HashToken` and `TokenObjCmp`
  know them: every identifier is `"id"`, every literal `"digit"`.  Comma, semicolon and braces
  carry the names of `enum Punchation` (`COMMA`, `SEMICOLON`, `LBRACES`, `RBRACES`).
* `Reduction`: what one call of `back_ward_solve_expr`, and the loop around it, does to the
  symbol stack, in closed form: which suffix is absorbed (`StepStart`, `LoopStart`), when the
  walk falls off the bottom (`StepFallsOff`, `LoopFallsOff`), what `last_priority` is
  afterwards, and what `clear_process_stack` throws on.
* `Parser`: the state machine.  One action per handler, named as in the source, plus `Shift`
  (a shift row), `NoRow` (no row: the end iterator is dereferenced), `Ignore` (dead code),
  `EndOfInput`.  `check_if_body2` without an `else` drops the finished `if` and processes the
  same token again in the status below; `Statuses`, `Symbols`, `Conds` are the stacks after
  that drop, so the handler that then runs is still one action.
* `ParserProperties`: the type invariant, the invariants and the action properties.
* `MCParser`: for TLC.  Its view merges the states in which the parser has ended, which differ
  only in what a program that no longer runs has left behind.
* `StructuredCode`: the abstract specification of the emitted code.  Blocks are written one at
  a time; a function opens, a loop starts, a condition is decided, a body ends and the block
  that waits is written next, a return ends the block, the function is finished.  There are no
  tokens, stacks, scopes or flags; whether a block has ended is read off the block.
* `CodeRefinement`: `Parser` implements `StructuredCode`.  The open statements are the
  conditions on the symbol stack with status 19, 23 or 24 and the blocks those hold; the
  function that is open is `func_param`; the finished ones are `definitions`.  Since the
  abstract specification has no `has_return`, the refinement says that this flag is right
  whenever a handler asks it, and that the hand-made `CondParam`s hold the right blocks.
* `Evaluation`: the expression parser as the loops it is.  `check_priority`,
  `back_ward_solve_expr`, `clear_process_stack` and `reduce_rparenthese` take one step per
  iteration over `symbol_stack`, `process_stack` and `last_priority`; `pc` says which loop runs.
  A symbol carries the stretch of text it stands for and `applied` collects which operator was
  applied to which stretches, so that the order of evaluation can be compared with the one
  `priority_map` defines.
* `EvaluationProperties`: its properties, and its refinement: each handler of `Evaluation`, from
  its call to its end, is one step `process_token` of `Parser`.  The mapping shows `Parser` the
  stacks as they were when the handler was called (`before`) until its loops are over; the
  scopes are those of `main` in a program where `x` is a variable and a function of every arity.
  This ties the closed form of `Reduction`, which `Parser` uses, to the loops.
* `EvaluationProofs`: the proofs about what the loops move; `PrecedenceProofs`, which extends it:
  those about the order in which they apply the operators.
* `ParserProofs`: the proofs about the stacks and the scopes of `Parser`, and about priorities,
  parentheses and stars; `CodeProofs`: those about `StructuredCode`; `RefinementProofs`: that the
  one implements the other, what follows, and what the proofs about the conditions, the
  terminators, the code of functions that were filled and the storage of variables add to it.
* `Lexer`: the token machine.  One action per way out of `get_next_token`: `EndOfLine`
  (`skip_blank` went to the next line, or found none because the stream had failed), `Punctuation` (`parse_mul_punc`), `Literal`,
  `WordAtLineEnd` (the walk in the trie ends with the line) and `Word` (it ends before).
  `LexerProperties` states what it promises, `MCLexer` gives it keywords, `LexerProofs`
  proves it.
* `KeywordTrie`: the trie as a function from nodes to tokens, with `init_keyword`, `load`,
  `save`, a new process (`Restart`) and the author of the file (`Edit`).
  `KeywordTrieProperties` and `KeywordTrieProofs` belong to it.
* `Literals`: the conversion of one literal, with its properties; `MCLiterals` for TLC;
  `LiteralProofs`.

The three modules of the lexer do not share state: `Lexer` takes the words of a finished trie
as a constant, because the trie is filled before the first token is read, and leaves the
value of a literal to `Literals`, where nothing depends on the place of the literal.

How state corresponds to code: `scopes` maps the path of a `BlockScopeNode` (the names from
the root) to its fields, `current_node` is the path of `BlockScopeManager::current_node`.
`terms[b]` lists the terminators emitted into basic block `b`, each as the set of its targets;
a `ret` has the empty set.  `conds` lists every `CondParam` ever allocated, with `live` FALSE
once it is deleted; a symbol of key `"cond"` carries an index into it.  `uses` records, for
each load, store and call, the block it was emitted into and the block that allocated the storage,
or `Global` for a variable of the module and for a function.
`outcome` says how `parse()` stands: `running`, `done`, `threw` (an exception), `undefined`
(a null or end iterator dereferenced, an uninitialised value used) or `untracked`.

In the lexer a character stands for its class: `"9"` is a digit, `" "` a blank, a member of
`Letter`, `Other`, `Punct` or `Space` any character that `islower`, none of the others,
`ispunct` or `isspace` accepts.  `lines` counts the successful calls of `getline`, `eof` is the
bit of the stream, and `failed` says that it failed before its end: it was not opened, or went bad,
and then `eof` is never set.  `Between(i, j)` is the text from column `i` up to `j`.  `token.taken`, the
number of characters the call took, is there for the properties.  A node of the trie is the
word that leads to it, `root` gives its token.  A file of keywords is the sequence of its
words and numbers, since the stream skips the white space between them.  `failed` says that
the stream of the last call of `load` or `save` failed, before it or in it; one that fails in `save`
leaves the file as it was or cut off anywhere, one that fails in `load` ends the loop early.  `kept`
remembers what the last successful `save` promised.

Abstractions in the parser: all values have one type, so a mangled name is a name and a number of
arguments, and where the code compares types the model lets it throw or go on; values,
instructions other than terminators, loads, stores and calls, and the texts of messages are left
out.  `outcome = "untracked"` covers one corner that is not followed: `sovle_unary` applied to
an operator that the table let through in operand position, which works on an uninitialised
pointer.  `new(this) Parser()` constructs the object a second time, which makes
`pointer_level` uninitialised; the constant `UnsetPointerLevel` is what it happens to hold.

Definitions whose name starts with `Broken` are plausible mistakes in the definition of the
same name below them (a dropped reset, a missing pop, a flag not looked at).  No run uses
them; each property is known to notice one of them when it replaces its original.

## The runs

The runs of the parser use `MCParser`, the specification `Spec` and the view `View`.  They
assume no fairness: the only thing that can happen is that the next token arrives, and a
source text may end anywhere.  `CHECK_DEADLOCK FALSE` because `parse()` does end: by return,
by an exception or in undefined behaviour.  `Evaluations` and `Precedence` use
`EvaluationProperties`; its specification assumes weak fairness of `Solving`, the steps inside
a handler, because a loop that was entered runs on by itself, and none of the tokens.  The run
`Lines` uses `MCLexer`, where reading ends as well, and assumes weak fairness of
`get_next_token`, because `parse()` calls it in a loop until the source ends or an exception is
thrown.  `Keywords` uses `KeywordTrieProperties`, with deadlock checked; the rest use
`MCLiterals`, where one literal is converted and that is all.

| run | question | properties |
|---|---|---|
| `Control` | `if`, `else`, `while`, `return` nested and interleaved in every order of tokens | `StacksMatch`, `ScopesMatchStatuses`, `CondsMatchStack`, `ReturnedMeansTerminated`, `OnlyInnermostReturned`, `OneTerminatorButLoops`, `OnlyEndStaysOpen`, `SkippingNeverFails`, `CodeIsStructured` |
| `Functions` | two functions, one after the other, with arguments and return types, same or different arity, and expressions before, between and after them | `TypeOK`, `BranchesStayInFunction`, `FilledCodeGrowsAtRootOnly`, `CodeIsStructured` |
| `Storage` | a variable first assigned anywhere inside branches and loops | `StorageOfOpenScopeDominates` |
| `Expressions` | operators, lists, assignments, parentheses, `let` with stars and lists, operators in operand position, with `pointer_level` uninitialised | `StacksMatch`, `NothingLeaks`, `PrioritiesArePaired` |
| `Evaluations` | expression statements and returns, loop by loop | `TypeOK`, `EverythingIsKept`, `PrioritiesAreKept`, `LeftFirst`, `StatementsComplete`, `LoopsImplementParser`, `SolvingEnds` |
| `Precedence` | are operators applied in the order of their priorities? | `PrecedenceIsKept`: violated |
| `Unterminated` | is every block of a defined function terminated? | `BlocksAreTerminated`: violated |
| `BranchStorage` | does every allocation dominate its uses? | `StorageDominates`: violated |
| `Lines` | every source of short lines, with empty and blank lines, and last lines with and without a line feed: how is it taken apart, and does it end? | `TypeOK`, `LinesAreCounted`, `EndOfSource`, `UndefinedOnlyOffTheTrie`, `NothingIsLost`, `TokensAreWhole`, `KeywordsAreRecognised`, `Progress`, `EventuallyEnds` |
| `Keywords` | keywords entered, saved, loaded by another lexer, loaded again from any file | `TypeOK`, `RoundTrip`, `SaveTellsTheTruth`, `TokensAreFinal`, `NodesLeadToWords` |
| `Numbers` | every number around every limit, with every suffix and width | `OthersFit`, `FittingIsAccepted` |
| `HugePlain` | is a literal without a suffix the number that is written? | `PlainFits`: violated |

What they show.  The stacks, the scopes and the conditions stay in step for every order of
tokens within the bounds, including the malformed ones that end in an exception later.
Skipping is exact: the brace that ends it is the one of the scope that returned.
`has_return` agrees with the block being filled, except in the body of a function that is
defined a second time (it enters the old scope, flag and all): `Redefining` names that case.
A block has one terminator, except that `end_while_body` always branches back, so a loop body
that returned gets a second one (`OneTerminatorButLoops` says exactly this).  Blocks are
written one at a time and the one that waits for the shortest time is always the next
(`CodeIsStructured`), so a function is never finished with a block nobody wrote.
A function that was filled is not final.  Outside functions the table accepts expressions as well, and
they are emitted where the builder was left: in the block written last of the function filled last.
After `fn f ( ) { return 1 ; } let x ;` the text `1 , x = 2 , 3` stores into that block, behind its
`ret`, and `parse()` can end normally there.  `FilledCodeGrowsAtRootOnly` says that this is the only
way: no handler adds a terminator to a filled function, and the code of another function never lands
in it.

Expressions.  The loops do what the closed form says (`LoopsImplementParser`) and end
(`SolvingEnds`).  Between parentheses operators are applied from left to right whatever their
priorities: `(a + b * c)` adds first.  Outside of them no operator takes an operand from one that
binds tighter, as long as the operators side by side have less than four priorities
(`PrioritiesAreKept`).  With four it may: `a < b + c * d == e == f` is read as
`a < (((b + c * d) == e) == f)` (`Precedence`).  `check_priority` solves once for an operator and
then pushes it on whatever is left, so that a looser operator may come to stand above a tighter
one; and it leaves the priority of the operator below behind, not that of the one it pushes.  That
has two more consequences, which are stated exactly.  Equal operators are not always applied
from the left: `a == b * c + d == e` is read as `a == ((b * c + d) == e)` (`LeftFirst`).  And a
looser operator behind a tighter one may not be applied when the statement ends: `return a * b + c;`
neither adds nor returns, and leaves its symbols on the stacks for the following statements
(`StatementsComplete`).  Other oddities follow from the tables alone and
are not properties: `*` has the priority of a dereference, 2, in front of that of a product, 3,
so `a / b * c` is `a / (b * c)`; `(` is in `priority_map` and binds tightest, so that
`(a * b + c)` throws; every operand of a call is an argument, so `f(a + b)` passes two;
`clear_process_stack` emits a subtraction for `/` (Parser.cpp:859) and the comparison of `<`
for `>` (Parser.cpp:843).

A priority can be left behind.  `enter_parentheses` saves one and `leave_parentheses` takes it
back, on both the call and the group path, but the end of a statement throws away the operands of
a list (Parser.cpp:518-573) in pairs of an operand and a comma, and an open `(` right below a stray
comma goes with them: `x ( , = , ( x ) ;` ends with one entry more in `priority_stack` than there are
parentheses.  That is the only way (`PrioritiesArePaired`), and it never takes an entry that is
needed (`NothingLeaks`): the entries that were left lie below those of the next expression.

Three of the violations in the parser are defects of the code (`findings` in `PROJECT.json`):
a function without any `return` gets no terminator at its end, because
`function_body_define_finished` branches only to a return block that some `return` made
(`OnlyEndStaysOpen` says that this is the only block ever left open); a variable that is first
assigned in a branch is allocated in that branch, so later uses are not dominated by the
allocation; and operators are not always applied in the order of their priorities
(`Precedence`).  In the first two cases
`define_function` does call `llvm::verifyFunction`, but drops its answer.

The lexer takes every line apart without loss, except that `-=` falls through into the case
of a single `-`: it is returned as `SUB` and takes a third character, past the end of the
line if there is none (`NothingIsLost` says so).  A word is taken for a keyword if its
lower-case letters up to the first other character spell one, so `if_x` and `ifX` are `if`.
An undefined step is possible in one place only: a word at the end of its line that leaves the
trie on its last letter.  Lines are counted and the end is found for every shape of the last
line; but a carriage return stops the lexer, which returns an empty identifier for ever.  And the
end is found only if the stream does not fail before it: `set_source` and `skip_blank` look at
`eof()` alone, so a source that could not be opened, which test.cpp:125 does not check, or that goes
bad gives line breaks for ever, and `parse()` does not return.  `Progress` and `EventuallyEnds` name
both cases; `LinesAreCounted` holds until the stream fails, and `EndOfSource` says that the end is
never reported after it.  A saved file is read back as it was, unless the empty word is a keyword, a
stream failed, or a word is too long, which `save` reports.  That a stream failed it does not report:
it asks for `bad()` once, before it writes, so that it returns true as well when the file could not be
opened or the disk is full, although Lexer.h promises "if save success will return true".
`SaveTellsTheTruth` excepts the case.  The range
checks are right except two.  `u32` is compared with the largest `u64`, so every number is
accepted and cut to the bits of a `long`; `OthersFit` therefore leaves `u32` out, and `i32` where a
`long` is wider than that, because its limit is the one the check takes.  A literal
without a suffix that `strtoll` cannot represent is accepted with the value of an
uninitialised variable: that is the violation of `HugePlain`, listed under `findings`.  The
smaller oddities, such as refusing the largest `i32` or `0.0f32`, are the exceptions that
`FittingIsAccepted` lists.

One promise of Lexer.h is not kept and not looked into further: `load` returns true when it stops at
a word that no number follows.

Bounds of the parser.  `MaxSymbols` is the height of the symbol stack: 10 holds a body with three nested
conditions and an expression (the four entries of a header are gone when the body begins, two
remain), 6 or 7 an expression of several operators with a parenthesis.  `MaxBlocks` lets a
`while` inside an `if` (or two of the same kind) be completed: each takes two or three blocks,
a function one, a `return` one.  `MaxBodies` ends the source text after that many functions:
two are needed to see one leak into the other, one for the rest.  `MaxArity` 2 distinguishes
none, one and a list; `MaxParens`, `MaxNesting`, `MaxPointers` and `MaxStrays` of 1 or 2 make a
counter go up, and come back, with something inside.  Each run offers the tokens its question
needs (`Offered`), and in every order, so that wrong programs are among them.  `UnsetPointerLevel` 1
in `Expressions` is a value the uninitialised `pointer_level` may hold; any other than 0 adds
levels to the first `let`.

`Evaluations` offers a name and a literal, an operator of three priorities (`=`, `+` and `*`), commas
and parentheses.  `MaxTokens` 9 is a statement of four operands and its end, or of three with one
call, so that an operator is preceded by another and followed by one; `MaxParens` 2 nests a call in
a parenthesis and the reverse.  Longer statements are the matter of the proofs: the exceptions of
`LeftFirst` and `PrioritiesAreKept` take ten and twelve tokens.  `Precedence` takes twelve, and four
priorities.

Bounds of the lexer.  No spelling is longer than three characters, so lines of three show every
token alone and what follows or precedes the shorter ones.  Keywords of up to three letters that
begin each other, over letters that are also suffixes, let a walk leave the trie at every point.
Two lines give every order of an empty, a blank and a full line with every end, and
`get_next_token` may report the end twice; that all but one of the properties (`EventuallyEnds`) hold
for lines of any length and number is proved.  In the trie, `MaxWord` 2 makes inner nodes and
`LongestSaved` 1 words that are too long; two words are enough for one to be in the way of the
other, and a file of two pairs arises by saving them (`MaxFile` bounds only what is written by
hand).  In `Literals` the largest signed numbers are 1, 3, 7 and 15, the
second but last also that of `long`, and numbers go to two more than the largest limit of all: each
comparison of the code has both answers.

## The proofs

`ParserProofs` proves, for every alphabet of names and tokens and every bound:

* `StacksStayMatched`: `Spec => []StacksMatch`.  The two stacks have the same height, every
  status stands on one the table can push it on, and beside a symbol that the handlers
  registered for it can take.
* `StateStaysTyped`: `Spec => [](TypeOfStacks /\ TypeOfCode)`.  The stacks and the counters
  keep their types, and every block a handler refers to (a branch target, the insertion
  point, a field of a condition, a block of the function) is one that was created.  That a symbol
  refers to a condition that was allocated is `CondsExist`, in `IInv`.
* `Invariance`: `Spec => []IInv`, from which both follow.

`StacksMatch` is not inductive alone: `end_while_body` and the `if` handlers read blocks out of
the condition they find on the stack, so the types of the code need that a symbol of key
`"cond"` refers to a condition that was allocated (`CondsExist`), and reading that symbol needs
`StacksMatch`; `IInv` is their conjunction with the types.  The argument: `ShiftFits` shows,
row by row, that a shifted token fits on the status below it; `Registered` says in which status
a handler can be called, so by `Dispatch` the top of the stack is that status, and `Standing`
and `Tops` tell what must lie below.  The lemmas `Cut`, `Push`, `CutPush` and `Retop` say how
popping and pushing on both stacks keep them matched; `OpenParenthesis` and `ExpressionTop`
show that what an expression removes is a part of the expression.  Each `...Stacks` lemma
covers one family of handlers, each `...Code` lemma its effect on blocks and conditions, each
`...Rest` lemma the remaining variables; `Inductive` puts them together.  Assumed are only
`TokenAssumption` and `BoundAssumption`, which TLC evaluates in every run.

The second half of `ParserProofs` goes on from `Invariance` to the tree of scopes:

* `TreeStaysTyped`: `Spec => []TypeOfTree`.  Every scope has its parents, `current_node` is in
  the tree.
* `ScopesStayMatched`: `Spec => []ScopesMatchStatuses`.  The depth of the current scope is the
  number of statuses that opened one.
* `OnlyInnermostReturns`: `Spec => []OnlyInnermostReturned`.  Of the scopes the parser is in,
  none but the current one has returned.
* `SkippingStaysSafe`: `Spec => SkippingNeverFails`.  The brace that ends skipping always finds
  a handler.
* `TreeInvariance`: `Spec => []TreeInv`, from which they follow.

`TreeInv` adds to `IInv` what ties the tree to the stacks.  The number of statuses that opened a
scope changes only with the scope if every cut an expression makes removes statuses of the
expression alone: `Flat` says that these lie on top of all others.  A scope that is entered is
below the current one because its name is a new one or that of a function, and functions are
entered only from the outside (`InTree`).  That nobody but the innermost scope has returned needs
that a scope which returned is left at once: no handler but that of the closing brace runs there
(`Lineage`), and the brace finds one because the status on top is that of a body
(`ReturnedInBody`).

The last part of `ParserProofs` is about expressions:

* `NothingEverLeaks`: `Spec => []NothingLeaks`, and `PrioritiesStayPaired`:
  `Spec => PrioritiesArePaired`.
* `PriorityInvariance`: `Spec => [](TreeInv /\ PrioInv)`, from which they follow.

The induction is over `PrioInv`, which is `NothingLeaks` and the types of what it counts; the work
is in `Paired`, what each step does to the number of open parentheses.  An expression that is
solved in part removes no open parenthesis, because `(` binds tightest and stops each of the
cuts (`ParensStay`); a `)` removes exactly the one it closes; a symbol that is pushed opens none
unless it is pushed by `enter_parentheses` (`ParensOfPush`); and outside an expression no
parenthesis is open, since `Flat` says that the parts of an expression are on top of all else
(`DryStack`).  What is left is the end of a statement with a list, where the statement that is
thrown away may contain one: `DropsAList`.

`CodeProofs` proves of `StructuredCode`, which bounds neither blocks nor functions:

* `FunctionsStayWhole`: `Spec => [](FunctionsAreWhole /\ FunctionsAreDisjoint)`.  The branches
  of a finished function stay among its blocks, no block is in two functions, at most one block
  of a function has no terminator, and none if it returns.
* `FinishedStaysFinal`: no later step writes into a finished function.
* `CodeInvariance`: `Spec => []CodeInv`, from which they follow.

What a finished function is depends on what was open in it.  `CodeInv` says of the open function
that every empty block is the one being written or waits for exactly one open statement
(`OpenFunction`, `FramesWait`); a function is finished when no statement is open, so only the
block being written can be empty then, and if a return block exists that block falls into it.  Two
statements never wait for one block because each gets a new one, and a loop is decided before
anything else (`Deciding`), so at most one statement has no block yet.

`RefinementProofs` proves, for every program text, that `Parser` implements `StructuredCode`, and
carries the promises of the latter over to the former:

* `CodeStaysStructured`: `Spec => CodeIsStructured`.
* `ReturnedStaysTerminated`: `Spec => []ReturnedMeansTerminated`.  `has_return` is right about
  the block being filled, except in the body of a function that is defined again.
* `BranchesStay` and `OneEndStaysOpen`: `Spec => []BranchesStayInFunction` and
  `Spec => []OnlyEndStaysOpen`, by the theorems of `CodeProofs` under the mapping.
* `RefInvariance`: `Spec => [](TreeInv /\ RefInv)`, from which they follow.

`Begin`, `StartLoop`, `Decide`, `GoOn`, `Return` and `Finish` are each what some handlers do
(`...Simulates`); the others leave the code and the statements that are open alone (`Still`).
That needs to know what the hand-made `CondParam`s hold: each condition on the stack has the
blocks its status promises, the one further up was allocated later and waits for a later block
(`StackInv`), so the condition a handler finds on top is the innermost statement.  It needs that
`func_param` is empty between functions (`FunctionIsParsed`).  And it needs that `has_return` is
right where a handler asks it (`ReturnedIsRight`).  In a function that is defined a second time
the flag is set before anything is written; then nothing of its body is parsed up to the brace,
and the function that is finished has one empty block, which structured code may have too.  That
a function whose scope has returned has been defined before, so that this is the only way in, is
`ReturnedWereDefined`; `ReturnedMeansTerminated` names the case as `Redefining`.

`RefinementProofs` goes on from there to the conditions and the blocks:

* `ConditionsMatchTheStack`: `Spec => []CondsMatchStack`.  No `CondParam` is leaked, deleted
  twice, or used after it was deleted.
* `BlocksEndOnce`: `Spec => []OneTerminatorButLoops`.
* `FilledCodeStays`: `Spec => FilledCodeGrowsAtRootOnly`.
* `ParserStaysTyped`: `Spec => []TypeOK`, of which the parts were proved before.

`CondsMatchStack` counts the conditions that live, which no induction can follow through handlers
that pop both stacks and run the same token again.  `CondInv` says the same by position: a
condition lives if and only if some entry of the stack that can hold one refers to it, the entries
refer to conditions in the order of their allocation, hence to different ones, and each has the
blocks its status promises (`Known`).  For the terminators, `CodeProofs` says what a step of
structured code does to each block (`StepCounts`): it ends the block being written, once, or
none, unless a return was written in a loop body, where `GoOn` ends it again.  The handler that
does this step has just deleted the condition of the loop, and a deleted condition is never
allocated again (`DeadStay`), so that the second terminator remains the branch to its
`entery_block`.  `FilledCodeGrowsAtRootOnly` needs more than the refinement, which has no loads,
stores and calls: each of them is noted at the insertion point (`NewUse`), which in a body is a block of the
open function, hence of no other, and between functions the block at which the last one was finished
(`Resting` in `CodeProofs`).

The last part of `RefinementProofs` is about the storage of variables:

* `OpenStorageDominates`: `Spec => []StorageOfOpenScopeDominates`.  Where the scope in which a variable
  was first assigned is still open, every path to a use passes the allocation.

`StorageOfOpenScopeDominates` walks the graph of blocks, once the function is finished; the invariant
`DomInv` says what is known before.  When storage is allocated in block `v`, a set of blocks is laid aside for
it that are reached only through `v`: at first `v` alone, and while the statements that are open then
stay open, each block written (`Reserves` in `CodeProofs`).  A block that waits for one of these statements never
joins it, so when the statement ends the set no longer grows, but a branch into it still comes from
inside it or is the one to `v`.  `Linked` ties this to the tree of scopes: as long as the scope is open,
so are those statements, in the same function.  Hence a use in this scope lies in the set when it is
emitted (`Covered`).  The exception is a second body for a name and arity (`InSecond`), which finds the
storage of the first one; the property speaks of first definitions.  That a set with this property is
avoided by the walk of `Avoiding`, a recursive function, is shown by least counterexample.

`EvaluationProofs` proves of the loops of the expression parser, for every choice of operands and
operators, every expression and every depth of parentheses:

* `TypesAreKept`: `Spec => []TypeOK`.  The symbols on both stacks and the evaluations done stand
  for stretches of the text that was read.
* `NothingIsLost`: `Spec => []EverythingIsKept`.  Whatever the loops move, the two stacks hold the
  whole expression in the order of the text, and no operator is evaluated twice.
* `Invariant`: `Spec => []EInv`, from which both follow.

`EverythingIsKept` speaks of the symbols of both stacks in one row, which no step leaves as it is;
`EInv` says of each stack alone what that row is made of, phase by phase (`Phases`).
`symbol_stack` holds two or three symbols that the expression stands on, and above them its symbols
in order and without a gap, each with the status that belongs to it (`Solid`); `process_stack` holds
symbols in the opposite order (`Turned`) and goes on where the other one ends (`Joins`), one token
further when the `(` between them has just been removed.  Every evaluation lies inside one symbol
(`Covered`), so the operator of a new one, which is a symbol of its own, was not evaluated before.
That the walk of `back_ward_solve_expr` and the evaluation of `clear_process_stack` always find an
operand where they take one needs that an operator stands on an operand (`Placed`) and that
`process_stack` begins with one; that a `)` finds the priority that its `(` has saved needs a count of
the open parentheses (`Saved`).  Each step has a lemma of its own (`StepShift` to `StepFinish`), which
rests on what a cut, a push, a turn and an evaluation do to these parts.

`PrecedenceProofs` proves, again for every expression and every depth of parentheses, what the
loops make of the priorities:

* `PrioritiesKept`: `Spec => []PrioritiesAreKept`.  Outside of parentheses every operator is
  applied where precedence wants it, unless the operators side by side have four priorities or more.
* `LeftIsFirst`: `Spec => []LeftFirst`.  Equal operators are applied from the left, but for the
  case the property names.
* `StatementsAreComplete`: `Spec => []StatementsComplete`.  A statement that ends leaves nothing
  behind, but for the two kinds of text the property names.
* `PInvariant`: `Spec => []PInv`, by induction together with `EInv`, from which they follow.

The properties look at an operator after it was applied, when the stacks no longer show what was
next to it; `PInv` says what each phase knows before.  Depth is counted in the text (`DepthIn`), and the
levels of the symbols on `symbol_stack` go up with its parentheses (`Nested`, `Height`), so that what a
loop sees side by side on the stack is side by side in the text.  Three facts then carry the
argument.  An operand holds no operator of its depth that binds looser than the operator beside it
(`Kept`, in `OnTop`).  If an operator stands above one that binds tighter, one that binds tighter
still came before (`Climb`): `check_priority` pushes an operator unasked only when it binds at least
as tight as `last_priority`, and the priorities left there are those of operators that were read
(`Settled`, `Met`).  And what `back_ward_solve_expr` has taken off is in an order that
`clear_process_stack`, which goes from left to right, applies rightly (`Passed`, then `Ready`).  Where
the operator in front of the left operand binds at least as tight, and so ought to have been first,
`Ready` names one in that operand that binds tighter still, and one in front of the operator that
binds tighter than that one: if the two neighbours differ these are the four priorities of
`PrioritiesAreKept`, and if they are equal the exception of `LeftFirst`.  A walk that
took something that cannot be evaluated is `Lost` or `Doomed`: it throws, and nothing more needs to be
known of it.  `PReturned` gives `StatementsComplete` (`BelowTheValue`): below the value of a statement
there is nothing, or an operator that one in front of it binds tighter than, or an operand that a `(`
followed.  Each step has a lemma of its own (`PrecShift` to `PrecFinish`).

`LexerProofs` proves, for every alphabet, every set of keywords and all lengths:

* `LexerStaysTyped`, `LinesStayCounted`, `EndIsTheEnd`: `Spec => []TypeOK`,
  `[]LinesAreCounted`, `[]EndOfSource`.  The inductive invariant adds to the types that the
  number of the current line is that of the lines read, or one more once the source has ended, as
  long as the stream has not failed;
  the types need it to know that `line` stays in range, and the number of a token follows.
* `CallsGetOn`: `Spec => Progress`, which excepts white space other than blanks and streams that
  failed.  A token takes at least one character because an operator
  spells at least one, a literal its first digit, and a word its first character, unless that
  is white space.
* `NothingEverLost`, `TokensStayWhole`, `KeywordsAreFound`: `Spec => NothingIsLost`,
  `TokensAreWhole`, `KeywordsAreRecognised`.  `OperatorSpells` says what `parse_mul_punc` picks.  A walk
  in the trie finds a keyword exactly if one is spelled there and no letter follows it
  (`WalksFindKeywords`): a walk that stopped before the end of a keyword would have stopped at a letter
  on a node, and one that went on behind it would have met a letter.
* `NullNodesAreOffTheTrie`: `Spec => []UndefinedOnlyOffTheTrie`.

`KeywordTrieProofs` proves, for every alphabet, every file and any sequence of calls:

* `KeywordsAreFinal`: `Spec => TokensAreFinal`.  `With` leaves the tokens of all words alone that
  it does not enter, and a word that has a token is refused.
* `TrieStaysATree`: `Spec => []TypeOK`, and `NodesAreOnTheWay`: `Spec => NodesLeadToWords`.  The
  inductive invariant `TrieInv` adds that the nodes are finitely many words (`PathIs`, `WithIs`).
* `SaveIsHonest`, `LoadReadsWhatSaveWrote`: `Spec => SaveTellsTheTruth`, `RoundTrip`, both for
  streams that do not fail in the call they speak of.  `Before` is
  a total order of words (`BeforeIsTransitive`, `BeforeIsTotal`), so that a search of finitely
  many nodes visits each once (`VisitedNodes`); each word then stands in the file in front of its
  number (`PartsStand`, `PairsStand`).  `KeptInv` says that the file stays the one that was saved
  until it is edited, and `LoadedPairs` that no pair of such a file is refused by an empty trie.
  A failing stream leaves the pairs it has read (`LoadIs`), or a file that is cut off, which is a file
  still (`CutIs`, `CutsAre`).
  Induction over numbers is by least counterexample (`Lowest`), since the theorems of the library
  that state it take an operator.

`LiteralProofs` proves, for all limits of the types, in any ratio to each other as long as they grow
with the size, for a `long` of either size, and for all numbers:

* `LiteralsAreChecked`: `Spec => []OthersFit`, and `FittingLiteralsAreAccepted`:
  `Spec => []FittingIsAccepted`.

There is one step, so the invariant says only that the result is one that `Converted` allows; the
work is in the cases.  `Ways` lists the five ways through the switch, with the handler of the
exception folded in: a way knows whether `strtoll` could read the number, and that without a suffix
the value is then arbitrary.  `FitsWhen` says for each type what it is to fit, and lemmas for each
conversion say what it accepts (`FloatIs`, `SignedIs`, `UnsignedIs`).  No way refuses what fits
because no limit is larger than that of the 64-bit types (`LimitsAre`), which is what `strtoll` and
`strtoull` can read.

Only model-checked: the liveness properties `EventuallyEnds` and `SolvingEnds`, which are out of the
reach of the prover, and `LoopsImplementParser`.  That one is open: that the loops absorb the suffix
`Reduction` describes needs an invariant of its own about what was on the stack when the handler was
called, and `PInv` does not speak of `before`.

## What is not modelled, and why

* The composition of lexer and parser: the parser is checked against every token sequence,
  also those the lexer cannot produce today (`!=`, `**`, `<<`: `&=` is read as `+=`, and `<>`
  as a left shift).
* `tokenize`: nothing calls it, and it cannot return, since it asks the token that ends the
  source for a value that token does not have.
* Hexadecimal and octal numbers and exponents: `Letter` has no `e`, `p` or `x`, and which
  digits belong to a number is left to `strtoll`.
* `find_function`, `find_and_enter`, `clear_tmp_scope`, `insert_function(Name, Func)`: not
  reached by any program the table accepts.
* Types and values: one type, no arithmetic.  `digit2llvmvlue` and `get_type_name` convert data.
* In `Evaluation`, operators in operand position and the conditions of statements: both are
  tokens of `Parser` and of the run `Expressions`, where the closed form of the loops is used.
* `TypeSymbolTable`: never called, and `insert` and `lookup` test the wrong way round.  Nor is the
  `<=>` of `Token`.  `TokenObjCmp` and `HashToken` are modelled by the keys they tell apart.
* The classes listed above as never called, empty or commented out.

## The plan

1. *(done)* `ParserTable`, `Reduction`, `Parser`, `ParserProperties` and the runs above; the
   first invariant proved.
2. *(done)* `Evaluation`: the loops of the expression parser, checked against the closed form of
   `Reduction`, and their order of evaluation against the priorities.
3. *(done)* `StructuredCode` and `CodeRefinement`: what the emitted code is, and that `Parser`
   implements it.
4. *(done)* `Lexer`, `KeywordTrie` and `Literals`.  Open: a composition of `Lexer` and `Parser`
   over the stream of tokens.
5. Proofs.  *(done)* every safety property of the parser, of the lexer, its trie and its literals,
   and that `Parser` implements structured code; of the loops of the expression parser the types, that
   nothing is lost, the order in which they evaluate, and that statements are complete.  Open:
   `LoopsImplementParser`, and liveness.
