---------------------------- MODULE StructuredCode ----------------------------
(***************************************************************************)
(* What the parser promises of the code it emits: structured code, written *)
(* one basic block at a time.  There are no tokens, stacks of statuses,    *)
(* scopes or conditions here, and no flag that says whether the code has   *)
(* returned: whether a block has ended is read off the block itself.       *)
(*                                                                         *)
(* Module CodeRefinement maps the state of Parser to this one.             *)
(***************************************************************************)
EXTENDS Naturals, Sequences

VARIABLES
  terms,     \* the terminators of each block, each as the set of its targets
  at,        \* the block that is being written
  frames,    \* the statements that are open: the block a loop starts at (0 for
             \* an "if") and the one to go on in (0 before it is made)
  own,       \* the blocks of the function that is open; none outside functions
  ret,       \* its return block, if some return has made it
  defined    \* the blocks of each finished function

vars == <<terms, at, frames, own, ret, defined>>

Block == 1 .. Len(terms)
New == Len(terms) + 1
Open == own # <<>>
Ended == terms[at] # <<>>
Deciding == \E f \in frames : f.rest = 0
Frame(head, rest) == [head |-> head, rest |-> rest]
Ending(targets) == [terms EXCEPT ![at] = Append(@, targets)]

Init ==
  /\ terms = <<>> /\ at = 0 /\ frames = {}
  /\ own = <<>> /\ ret = 0 /\ defined = <<>>

\* A function starts with a block of its own.
Begin ==
  /\ ~Open
  /\ terms' = Append(terms, <<>>)
  /\ at' = New /\ own' = <<New>>
  /\ UNCHANGED <<frames, ret, defined>>

\* The condition of a loop is in a block of its own, to come back to.  Nothing
\* but the decision can follow.
StartLoop ==
  /\ Open /\ ~Ended /\ ~Deciding
  /\ terms' = Append(Ending({New}), <<>>)
  /\ at' = New /\ own' = Append(own, New)
  /\ frames' = frames \cup {Frame(New, 0)}
  /\ UNCHANGED <<ret, defined>>

\* A condition is decided: one new block is written next, the other waits.  It
\* is that of the loop which has just started, or of an "if".
Decide ==
  LET waiting == New + 1
      undecided == {f \in frames : f.rest = 0}
      heads == IF Deciding THEN {f.head : f \in undecided} ELSE {0}
  IN
  /\ Open /\ ~Ended
  /\ terms' = Ending({New, waiting}) \o <<<<>>, <<>>>>
  /\ at' = New /\ own' = own \o <<New, waiting>>
  /\ frames' = (frames \ undecided) \cup {Frame(head, waiting) : head \in heads}
  /\ UNCHANGED <<ret, defined>>

\* The body of a statement ends, of the innermost one: that is the one whose
\* block waits for the shortest time.  It is written next.  An "if" falls into it
\* unless it has returned; a loop goes back, returned or not.
Innermost(f) == \A g \in frames : g.rest \in 1 .. f.rest

GoOn ==
  /\ \E f \in frames :
       /\ Innermost(f)
       /\ terms' = IF f.head # 0 THEN Ending({f.head})
                   ELSE IF Ended THEN terms ELSE Ending({f.rest})
       /\ at' = f.rest
       /\ frames' = frames \ {f}
  /\ UNCHANGED <<own, ret, defined>>

\* The first return makes the block that all of them go to; it ends in "ret".
Return ==
  /\ Open /\ ~Ended /\ ~Deciding
  /\ IF ret = 0
     THEN terms' = Append(Ending({New}), <<{}>>) /\ ret' = New
     ELSE terms' = Ending({ret}) /\ UNCHANGED ret
  /\ UNCHANGED <<at, frames, own, defined>>

\* A function is finished when none of its statements is open; its last block
\* falls into the return block, if there is one.
Finish ==
  /\ Open /\ frames = {}
  /\ terms' = IF Ended \/ ret = 0 THEN terms ELSE Ending({ret})
  /\ defined' = Append(defined, own \o (IF ret = 0 THEN <<>> ELSE <<ret>>))
  /\ own' = <<>> /\ ret' = 0
  /\ UNCHANGED <<at, frames>>

Next == Begin \/ StartLoop \/ Decide \/ GoOn \/ Return \/ Finish

Spec == Init /\ [][Next]_vars
=============================================================================
