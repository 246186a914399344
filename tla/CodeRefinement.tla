---------------------------- MODULE CodeRefinement ----------------------------
(***************************************************************************)
(* The parser emits structured code: Parser implements StructuredCode.     *)
(***************************************************************************)
EXTENDS ParserProperties

\* The conditions on the symbol stack that wait for the end of a body (status 19
\* of an "if", 24 of a "while") or, in a "while", for the decision (23).
Waiting == {i \in DOMAIN status_stack : status_stack[i] \in {19, 23, 24}}

Frame(i) ==
  LET c == conds[symbol_stack[i].cond] IN
  [head |-> IF status_stack[i] = 19 THEN 0 ELSE c.entery_block,
   rest |-> IF status_stack[i] = 23 THEN 0
            ELSE IF status_stack[i] = 24 THEN c.exit_block ELSE c.body2]

Frames == {Frame(i) : i \in Waiting}
Defined == [i \in DOMAIN definitions |-> definitions[i].blocks]

Code == INSTANCE StructuredCode WITH
  at <- insert_block,
  frames <- Frames,
  own <- func_param.basic_blocks,
  ret <- func_param.return_block,
  defined <- Defined

\* Every step of the parser that touches the code is one of structured code, and
\* no other step changes a block: in particular has_return, which the handlers
\* ask before they end a block, is right about it, each block that waits is the
\* one written next when its turn comes, and no function is finished while one
\* waits.
CodeIsStructured == Code!Spec
=============================================================================
