-------------------------- MODULE RefinementProofs --------------------------
(***************************************************************************)
(* Proofs that the parser emits structured code, for every program text    *)
(* and every bound, and of what follows from it: the types, the code of a  *)
(* function that was filled, the conditions, the ends of the blocks and    *)
(* where the storage of variables is allocated.                            *)
(***************************************************************************)
EXTENDS CodeRefinement, ParserProofs

\* The proofs about structured code, under the refinement mapping.
Proofs == INSTANCE CodeProofs WITH
  at <- insert_block,
  frames <- Frames,
  own <- func_param.basic_blocks,
  ret <- func_param.return_block,
  defined <- Defined

-----------------------------------------------------------------------------
(* The invariant. *)

\* Statuses inside the body of a function, and those of them that say which
\* conditions and bodies are open.
InsideStatus == {15, 16, 17, 19, 20, 21, 22, 23, 24}
Loud == {15, 17, 19, 23, 24}
Tracked == {17, 19, 23, 24}

\* The body of a function is being parsed: it is the second entry of the stack.
Inside == Len(status_stack) >= 2 /\ status_stack[2] = 15

BodiesInside == \A i \in DOMAIN status_stack : status_stack[i] \in InsideStatus => i >= 2 /\ Inside

\* A condition that is further up was allocated later.
CondsInOrder ==
  \A i, j \in DOMAIN status_stack :
    i < j /\ status_stack[i] \in Tracked /\ status_stack[j] \in Tracked =>
      symbol_stack[i].cond < symbol_stack[j].cond

\* What a condition on the stack must know by now, and that the block of the one
\* further up was made later.
FramesInOrder ==
  /\ \A i \in Waiting :
       /\ status_stack[i] \in {23, 24} => Frame(i).head # 0
       /\ status_stack[i] \in {19, 24} => Frame(i).rest # 0
  /\ \A i, j \in Waiting :
       i < j /\ status_stack[i] \in {19, 24} /\ status_stack[j] \in {19, 24} =>
         Frame(i).rest < Frame(j).rest

\* The stacks and the conditions on them.
StackInv == BodiesInside /\ CondsInOrder /\ FramesInOrder

\* The function being parsed has blocks, and nothing is left of an earlier one.
FunctionIsParsed ==
  /\ func_param.basic_blocks # <<>> <=> Inside
  /\ ~Inside => func_param.return_block = 0
  /\ Inside => insert_block # 0

\* has_return is right about the block being filled, except in a function that is
\* defined again after it has returned: then nothing of its body is parsed.
ReturnedIsRight ==
  Inside =>
    /\ terms[insert_block] # <<>> => scopes[current_node].has_return
    /\ scopes[current_node].has_return =>
         \/ terms[insert_block] # <<>>
         \/ func_param.return_block = 0 /\ TopOf(status_stack) = 15 /\ Redefining

\* A function that has returned is the one being parsed, or it was defined.
ReturnedWereDefined ==
  \A p \in DOMAIN scopes :
    Len(p) = 1 /\ scopes[p].has_return =>
      p = current_node \/ \E i \in DOMAIN definitions : definitions[i].scope = p

DefinitionsTyped == definitions \in Seq([scope : Path, fn : Nat, blocks : Seq(Nat)])

ParserInv ==
  /\ StackInv /\ FunctionIsParsed /\ DefinitionsTyped
  /\ ReturnedIsRight /\ ReturnedWereDefined

RefInv == ParserInv /\ Proofs!CodeInv

-----------------------------------------------------------------------------
(* What a step keeps of the stacks. *)

\* The lowest n entries of both stacks stay.
KeptTo(n) ==
  /\ n \in 0 .. Len(status_stack) /\ n <= Len(status_stack')
  /\ \A i \in 1 .. n : status_stack'[i] = status_stack[i] /\ symbol_stack'[i] = symbol_stack[i]

\* Above n nothing is dropped or pushed that says what is open.
Quiet(n) ==
  /\ KeptTo(n)
  /\ \A i \in n + 1 .. Len(status_stack) : status_stack[i] \notin Loud
  /\ \A i \in n + 1 .. Len(status_stack') : status_stack'[i] \notin Loud
  /\ \A i \in n + 2 .. Len(status_stack') : status_stack'[i] \notin InsideStatus

Calm == \E n \in Nat : Quiet(n)

\* Both stacks are cut, the status stack at n, and at most one entry is pushed on each.
Cuts(t, n) ==
  /\ n \in 0 .. Len(Statuses(t))
  /\ \E k \in n .. Len(Symbols(t)) :
       \/ symbol_stack' = SubSeq(Symbols(t), 1, k)
       \/ \E y : symbol_stack' = Append(SubSeq(Symbols(t), 1, k), y)

LEMMA Keeping ==
  ASSUME IInv, IInv', NEW t \in Token, NEW n, Cuts(t, n),
         \/ status_stack' = SubSeq(Statuses(t), 1, n)
         \/ \E s : status_stack' = Append(SubSeq(Statuses(t), 1, n), s)
  PROVE  /\ KeptTo(n)
         /\ status_stack' = SubSeq(Statuses(t), 1, n) => Len(status_stack') = n
         /\ \A s : status_stack' = Append(SubSeq(Statuses(t), 1, n), s) =>
              Len(status_stack') = n + 1 /\ status_stack'[n + 1] = s
<1> DEFINE ss == Statuses(t)
           ys == Symbols(t)
<1>1. /\ ss \in Seq(Status \ {0}) /\ Len(ss) \in 0 .. Len(status_stack)
      /\ ys \in Seq(Held(Len(conds))) /\ Len(ys) = Len(ss)
      /\ \A i \in 1 .. Len(ss) : ss[i] = status_stack[i] /\ ys[i] = symbol_stack[i]
      /\ Len(status_stack) \in Nat /\ n \in 0 .. Len(ss)
  BY Handed, Stacks DEF Cuts
<1>2. /\ Len(SubSeq(ss, 1, n)) = n /\ SubSeq(ss, 1, n) \in Seq(Status \ {0})
      /\ \A i \in 1 .. n : SubSeq(ss, 1, n)[i] = ss[i]
  BY <1>1
<1>3. ASSUME NEW s
      PROVE  /\ Len(Append(SubSeq(ss, 1, n), s)) = n + 1 /\ Append(SubSeq(ss, 1, n), s)[n + 1] = s
             /\ \A i \in 1 .. n : Append(SubSeq(ss, 1, n), s)[i] = ss[i]
  BY <1>2
<1>4. \A i \in 1 .. n : symbol_stack'[i] = ys[i]
  <2>1. PICK k \in n .. Len(ys) :
          \/ symbol_stack' = SubSeq(ys, 1, k)
          \/ \E y : symbol_stack' = Append(SubSeq(ys, 1, k), y)
    BY DEF Cuts
  <2>2. /\ SubSeq(ys, 1, k) \in Seq(Held(Len(conds))) /\ Len(SubSeq(ys, 1, k)) = k
        /\ \A i \in 1 .. n : SubSeq(ys, 1, k)[i] = ys[i]
    BY <1>1, <2>1
  <2>3. \A y : \A i \in 1 .. n : Append(SubSeq(ys, 1, k), y)[i] = ys[i]
    BY <1>1, <2>1, <2>2
  <2> QED BY <2>1, <2>2, <2>3
<1>5. CASE status_stack' = SubSeq(ss, 1, n)
  <2>1. Len(status_stack') = n /\ \A i \in 1 .. n : status_stack'[i] = ss[i]
    BY <1>2, <1>5
  <2>2. KeptTo(n)
    BY <1>1, <1>4, <2>1 DEF KeptTo
  <2>3. \A s : status_stack' # Append(SubSeq(ss, 1, n), s)
    BY <1>1, <1>3, <2>1
  <2> QED BY <2>1, <2>2, <2>3
<1>6. ASSUME NEW s, status_stack' = Append(SubSeq(ss, 1, n), s)
      PROVE  KeptTo(n) /\ Len(status_stack') = n + 1 /\ status_stack'[n + 1] = s
  <2>1. /\ Len(status_stack') = n + 1 /\ status_stack'[n + 1] = s
        /\ \A i \in 1 .. n : status_stack'[i] = ss[i]
    BY <1>3, <1>6
  <2> QED BY <1>1, <1>4, <2>1 DEF KeptTo
<1>7. status_stack' = SubSeq(ss, 1, n) => Len(status_stack') = n
  BY <1>2
<1> QED BY <1>5, <1>6, <1>7

\* Above n there is nothing that says what is open.
Hushed(ss, n) == \A i \in n + 1 .. Len(ss) : ss[i] \notin Loud

LEMMA OpensHushed ==
  ASSUME NEW ss, NEW n, Opens(ss, n, 0)
  PROVE  Hushed(ss, n)
  BY DEF Opens, Hushed, Loud, Scoped

LEMMA QuietCut ==
  ASSUME IInv, IInv', NEW t \in Token, NEW n, Cuts(t, n), Hushed(Statuses(t), n),
         \/ status_stack' = SubSeq(Statuses(t), 1, n)
         \/ \E s : s \notin Loud /\ status_stack' = Append(SubSeq(Statuses(t), 1, n), s)
  PROVE  Calm
<1>1. /\ KeptTo(n)
      /\ \/ Len(status_stack') = n
         \/ Len(status_stack') = n + 1 /\ status_stack'[n + 1] \notin Loud
  BY Keeping
<1>2. /\ Len(Statuses(t)) \in Nat /\ Len(status_stack) \in Nat
      /\ \A i \in 1 .. Len(Statuses(t)) : Statuses(t)[i] = status_stack[i]
      /\ \A i \in Len(Statuses(t)) + 1 .. Len(status_stack) : status_stack[i] = 20
      /\ n \in 0 .. Len(Statuses(t))
  <2>1. Len(status_stack) \in Nat /\ Len(Statuses(t)) \in 0 .. Len(status_stack)
    BY Handed, Stacks
  <2>2. Len(Statuses(t)) \in Nat
    BY <2>1
  <2> QED BY <2>1, <2>2, Handed DEF Cuts
<1>3. \A i \in n + 1 .. Len(Statuses(t)) : Statuses(t)[i] \notin Loud
  BY DEF Hushed
<1>4. ASSUME NEW i \in n + 1 .. Len(status_stack) PROVE status_stack[i] \notin Loud
  <2>1. CASE i \in n + 1 .. Len(Statuses(t))
    BY <1>2, <1>3, <2>1
  <2>2. CASE i \in Len(Statuses(t)) + 1 .. Len(status_stack)
    BY <1>2, <2>2 DEF Loud
  <2> QED BY <1>2, <2>1, <2>2
<1>5. Quiet(n)
  BY <1>1, <1>2, <1>4 DEF Quiet
<1> QED BY <1>2, <1>5 DEF Calm

-----------------------------------------------------------------------------
(* What is on the stacks. *)

\* The body of a function begins at the second entry.
LEMMA BodyIsSecond ==
  ASSUME NEW c, NEW ss, NEW ys, WellStacked(c, ss, ys), NEW i \in 1 .. Len(ss), ss[i] = 15
  PROVE  i = 2
<1>1. Fits(Below(ss, i - 1), 15, ys[i].key) /\ Len(ss) \in Nat
  BY Entry
<1>2. Below(ss, i - 1) = 14
  BY <1>1, Standing
<1>3. i - 1 \in 1 .. Len(ss) /\ ss[i - 1] = 14
  BY <1>2 DEF Below
<1>4. Fits(Below(ss, i - 1 - 1), 14, ys[i - 1].key)
  BY <1>3, Entry
<1>5. Below(ss, i - 1 - 1) = 0
  BY <1>4 DEF Fits, StandsOn
<1>6. i - 1 - 1 \in 1 .. Len(ss) => ss[i - 1 - 1] # 0
  BY Entry
<1> QED BY <1>1, <1>3, <1>5, <1>6 DEF Below

\* While a condition is being parsed nothing else is open above it.
LEMMA OnCondition ==
  ASSUME NEW c, NEW ss, NEW ys, WellStacked(c, ss, ys), Flat(ss),
         NEW i \in 1 .. Len(ss), ss[i] \in {17, 23}
  PROVE  \A j \in i + 1 .. Len(ss) : ss[j] \in {1, 2, 7}
<1>1. Len(ss) \in Nat /\ DOMAIN ss = 1 .. Len(ss)
  BY DEF WellStacked
<1>2. CASE i = Len(ss)
  BY <1>1, <1>2
<1>3. CASE i # Len(ss)
  <2>1. i + 1 \in 1 .. Len(ss) /\ i + 1 - 1 = i /\ i # 0
    <3> DEFINE n == Len(ss)
    <3>1. n \in Nat /\ i \in 1 .. n /\ i # n
      BY <1>1, <1>3
    <3> HIDE DEF n
    <3>2. i + 1 \in 1 .. n /\ i + 1 - 1 = i /\ i # 0
      BY <3>1
    <3> QED BY SMTT(40), <3>2 DEF n
  <2>2. Fits(ss[i], ss[i + 1], ys[i + 1].key)
    BY <2>1, Entry DEF Below
  <2>3. ss[i + 1] \in {1, 2}
    BY SMTT(40), <2>2 DEF Fits, StandsOn
  <2>4. CASE ss[i + 1] = 2
    <3>1. \A j \in i + 1 .. Len(ss) : ss[j] \in {2, 7}
      BY <1>1, <2>1, <2>4 DEF Flat
    <3> QED BY <3>1
  <2>5. CASE ss[i + 1] = 1
    <3>1. ASSUME i + 2 \in 1 .. Len(ss) PROVE FALSE
      <4>1. i + 2 - 1 = i + 1 /\ i + 1 # 0
        BY <1>1, <2>1
      <4>2. Fits(ss[i + 1], ss[i + 2], ys[i + 2].key)
        BY <3>1, <4>1, Entry DEF Below
      <4> QED BY <2>5, <4>2, Tops
    <3>2. \A j \in i + 1 .. Len(ss) : j = i + 1
      BY <1>1, <3>1
    <3> QED BY <2>5, <3>2
  <2> QED BY <2>3, <2>4, <2>5
<1> QED BY <1>2, <1>3

LEMMA StandsInside ==
  ASSUME NEW b, NEW s \in InsideStatus, s # 15, NEW k, Fits(b, s, k)
  PROVE  b \in {15, 19, 21, 22, 24}
<1>1. StandsOn(s, b) /\ s \in {16, 17, 19, 20, 21, 22, 23, 24}
  BY DEF Fits, InsideStatus
<1> QED BY <1>1 DEF StandsOn

\* Entries of a body are pushed on others of the same body.
LEMMA BodiesStay ==
  ASSUME IInv, IInv', BodiesInside, NEW n \in Nat, KeptTo(n),
         \A i \in n + 2 .. Len(status_stack') : status_stack'[i] \notin InsideStatus
  PROVE  BodiesInside'
<1> DEFINE ss == status_stack
           zz == status_stack'
<1>1. /\ WellStacked(Len(conds'), zz, symbol_stack') /\ Len(zz) \in Nat /\ DOMAIN zz = 1 .. Len(zz)
      /\ DOMAIN ss = 1 .. Len(ss) /\ Len(ss) \in Nat
      /\ n \in 0 .. Len(ss) /\ n <= Len(zz) /\ \A i \in 1 .. n : zz[i] = ss[i]
  BY Stacks, StacksNext DEF KeptTo
<1>2. ASSUME NEW i \in 1 .. Len(zz), zz[i] \in InsideStatus
      PROVE  i >= 2 /\ (Inside)'
  <2>1. i \in 1 .. n \/ i = n + 1
    BY <1>1, <1>2
  <2>2. ASSUME NEW j \in 1 .. n, ss[j] \in InsideStatus
        PROVE  j >= 2 /\ (Inside)'
    <3>1. j \in DOMAIN ss
      BY <1>1
    <3>2. j >= 2 /\ Inside
      BY <2>2, <3>1 DEF BodiesInside
    <3>3. 2 \in 1 .. n /\ Len(zz) >= 2 /\ ss[2] = 15
      BY <1>1, <3>2 DEF Inside
    <3> QED BY <1>1, <3>2, <3>3 DEF Inside
  <2>3. CASE i \in 1 .. n
    BY <1>1, <1>2, <2>2, <2>3
  <2>4. CASE i = n + 1
    <3>1. Fits(Below(zz, n), zz[i], symbol_stack'[i].key)
      BY <1>1, <2>4, Entry
    <3>2. CASE zz[i] = 15
      <4>1. i = 2
        BY <1>1, <3>2, BodyIsSecond
      <4> QED BY <3>2, <4>1 DEF Inside
    <3>3. CASE zz[i] # 15
      <4>1. Below(zz, n) \in {15, 19, 21, 22, 24}
        BY <1>2, <3>1, <3>3, StandsInside
      <4>2. n \in 1 .. n /\ zz[n] \in InsideStatus /\ ss[n] = zz[n]
        BY <1>1, <4>1 DEF Below, InsideStatus
      <4> QED BY <2>2, <2>4, <4>2
    <3> QED BY <3>2, <3>3
  <2> QED BY <2>1, <2>3, <2>4
<1> QED BY <1>1, <1>2 DEF BodiesInside

\* What is between two calls kept of the conditions on the stack.
CondsKept ==
  /\ Len(conds) <= Len(conds')
  /\ \A c \in 1 .. Len(conds) :
       /\ conds'[c].entery_block = conds[c].entery_block
       /\ conds'[c].body2 = conds[c].body2
       /\ conds'[c].exit_block = conds[c].exit_block

\* The symbol beside a condition.
LEMMA OfCondition ==
  ASSUME IInv, NEW i \in 1 .. Len(status_stack), status_stack[i] \in {17, 19, 20, 21, 23, 24}
  PROVE  symbol_stack[i].cond \in 1 .. Len(conds) /\ conds[symbol_stack[i].cond] \in CondOf(MaybeBlock)
<1>1. /\ symbol_stack[i] \in Held(Len(conds))
      /\ Fits(Below(status_stack, i - 1), status_stack[i], symbol_stack[i].key)
  BY Stacks, Entry
<1>2. symbol_stack[i].key = "cond"
  BY <1>1, Standing
<1>3. symbol_stack[i].cond \in 1 .. Len(conds)
  BY <1>1, <1>2 DEF Held
<1> DEFINE S == CondOf(MaybeBlock)
<1>4. conds \in Seq(S)
  BY DEF IInv, TypeOfCode
<1> HIDE DEF S
<1>5. conds[symbol_stack[i].cond] \in S
  BY <1>3, <1>4
<1> QED BY <1>3, <1>5 DEF S

\* The frame of an entry that stays.
LEMMA FrameStays ==
  ASSUME IInv, NEW i \in 1 .. Len(status_stack), status_stack[i] \in {19, 23, 24},
         status_stack'[i] = status_stack[i], symbol_stack'[i] = symbol_stack[i],
         LET c == symbol_stack[i].cond IN
           /\ conds'[c].entery_block = conds[c].entery_block
           /\ conds'[c].body2 = conds[c].body2
           /\ conds'[c].exit_block = conds[c].exit_block
  PROVE  Frame(i)' = Frame(i)
  BY DEF Frame

LEMMA CalmStack ==
  ASSUME IInv, IInv', StackInv, Calm, CondsKept
  PROVE  StackInv' /\ (Inside' <=> Inside) /\ Frames' = Frames
<1>1. PICK n \in Nat : Quiet(n)
  BY DEF Calm
<1> DEFINE ss == status_stack
           zz == status_stack'
<1>2. /\ Len(zz) \in Nat /\ DOMAIN zz = 1 .. Len(zz)
      /\ DOMAIN ss = 1 .. Len(ss) /\ Len(ss) \in Nat
      /\ n \in 0 .. Len(ss) /\ n <= Len(zz)
      /\ \A i \in 1 .. n : zz[i] = ss[i] /\ symbol_stack'[i] = symbol_stack[i]
      /\ \A i \in n + 1 .. Len(ss) : ss[i] \notin Loud
      /\ \A i \in n + 1 .. Len(zz) : zz[i] \notin Loud
  BY <1>1, Stacks, StacksNext DEF KeptTo, Quiet
<1>3. BodiesInside'
  BY <1>1, BodiesStay DEF Quiet, StackInv
<1>4. Inside' <=> Inside
  BY <1>2 DEF Inside, Loud
<1>5. /\ \A i \in DOMAIN zz : zz[i] \in Loud => i \in 1 .. n /\ i \in DOMAIN ss /\ ss[i] = zz[i]
                                                /\ symbol_stack'[i] = symbol_stack[i]
      /\ \A i \in DOMAIN ss : ss[i] \in Loud => i \in 1 .. n /\ i \in DOMAIN zz /\ ss[i] = zz[i]
  BY <1>2
<1>6. CondsInOrder'
  BY <1>5 DEF StackInv, CondsInOrder, Tracked, Loud
<1>7. Waiting' = Waiting
  BY <1>5 DEF Waiting, Loud
<1>8. ASSUME NEW i \in Waiting PROVE Frame(i)' = Frame(i)
  <2>1. /\ i \in DOMAIN ss /\ ss[i] \in {19, 23, 24} /\ ss[i] = zz[i]
        /\ symbol_stack'[i] = symbol_stack[i]
    BY <1>5, <1>7 DEF Waiting, Loud
  <2>2. symbol_stack[i].cond \in 1 .. Len(conds)
    BY <1>2, <2>1, OfCondition
  <2> QED BY <1>2, <2>1, <2>2, FrameStays DEF CondsKept
<1>9. Frames' = Frames
  BY <1>7, <1>8 DEF Frames
<1>10. FramesInOrder'
  <2>1. \A i \in Waiting : status_stack'[i] = status_stack[i]
    BY <1>5, <1>7 DEF Waiting, Loud
  <2> QED BY <1>7, <1>8, <2>1 DEF StackInv, FramesInOrder
<1> QED BY <1>3, <1>4, <1>6, <1>9, <1>10 DEF StackInv

-----------------------------------------------------------------------------
(* The steps that do not touch the code. *)

Still ==
  /\ Calm /\ CondsKept
  /\ UNCHANGED <<terms, insert_block, func_param.basic_blocks, func_param.return_block,
                 definitions>>

LEMMA KeptConds ==
  ASSUME IInv, NEW t \in Token,
         \/ conds' \in {conds, Conds(t)} \/ \E x : conds' = Append(Conds(t), x)
         \/ \E c : conds' = [Conds(t) EXCEPT ![c].live = FALSE]
  PROVE  CondsKept /\ \A c \in 1 .. Len(conds) : ~conds[c].live => ~conds'[c].live
<1> DEFINE S == CondOf(MaybeBlock)
           Same(d) == /\ Len(conds) <= Len(d)
                      /\ \A c \in 1 .. Len(conds) :
                           /\ d[c].entery_block = conds[c].entery_block
                           /\ d[c].body2 = conds[c].body2
                           /\ d[c].exit_block = conds[c].exit_block
                           /\ ~conds[c].live => ~d[c].live
<1>1. conds \in Seq(S)
  BY DEF IInv, TypeOfCode
<1>2. \A x \in S : /\ [x EXCEPT !.live = FALSE] \in S
                   /\ [x EXCEPT !.live = FALSE].entery_block = x.entery_block
                   /\ [x EXCEPT !.live = FALSE].body2 = x.body2
                   /\ [x EXCEPT !.live = FALSE].exit_block = x.exit_block
                   /\ ~[x EXCEPT !.live = FALSE].live
  BY DEF CondOf
<1> HIDE DEF S
<1>3. ASSUME NEW d \in Seq(S), Same(d), Len(d) = Len(conds), NEW c
      PROVE  /\ [d EXCEPT ![c].live = FALSE] \in Seq(S)
             /\ Same([d EXCEPT ![c].live = FALSE])
             /\ Len([d EXCEPT ![c].live = FALSE]) = Len(conds)
  <2> DEFINE v == [d[c] EXCEPT !.live = FALSE]
             e == [d EXCEPT ![c] = v]
  <2>1. /\ [d EXCEPT ![c].live = FALSE] \in Seq(S)
        /\ Len([d EXCEPT ![c].live = FALSE]) = Len(d)
    BY DeadType DEF S
  <2>2. c \in 1 .. Len(d) =>
          /\ v.entery_block = d[c].entery_block /\ v.body2 = d[c].body2
          /\ v.exit_block = d[c].exit_block /\ ~v.live
    <3>1. c \in 1 .. Len(d) => d[c] \in S
      OBVIOUS
    <3> QED BY <1>2, <3>1
  <2> HIDE DEF v
  <2>3. \A i \in 1 .. Len(d) : e[i] = IF i = c THEN v ELSE d[i]
    OBVIOUS
  <2> HIDE DEF e
  <2>4. \A i \in 1 .. Len(d) : /\ e[i].entery_block = d[i].entery_block
                               /\ e[i].body2 = d[i].body2 /\ e[i].exit_block = d[i].exit_block
                               /\ ~d[i].live => ~e[i].live
    BY <2>2, <2>3
  <2>5. e = [d EXCEPT ![c].live = FALSE]
    BY Zenon DEF e, v
  <2>6. Same(e)
    BY <1>3, <2>1, <2>4, <2>5
  <2> QED BY <1>3, <2>1, <2>5, <2>6
<1>4. Len(conds) \in Nat
  BY <1>1
<1>5. Same(conds) /\ Len(conds) = Len(conds)
  BY <1>4
<1> HIDE DEF Same
<1>6. Conds(t) \in Seq(S) /\ Same(Conds(t)) /\ Len(Conds(t)) = Len(conds)
  <2>1. \/ Conds(t) = conds
        \/ \E c : Conds(t) = [conds EXCEPT ![c].live = FALSE]
    BY DEF Conds
  <2>2. CASE Conds(t) = conds
    BY <1>1, <1>5, <2>2
  <2>3. ASSUME NEW c, Conds(t) = [conds EXCEPT ![c].live = FALSE]
        PROVE  Conds(t) \in Seq(S) /\ Same(Conds(t)) /\ Len(Conds(t)) = Len(conds)
    <3>1. /\ [conds EXCEPT ![c].live = FALSE] \in Seq(S)
          /\ Same([conds EXCEPT ![c].live = FALSE])
          /\ Len([conds EXCEPT ![c].live = FALSE]) = Len(conds)
      BY <1>1, <1>3, <1>5
    <3> QED BY <2>3, <3>1, Zenon
  <2> QED BY <2>1, <2>2, <2>3
<1>7. \A x : Same(Append(Conds(t), x))
  BY <1>4, <1>6 DEF Same
<1>8. Same(conds')
  <2>1. CASE conds' \in {conds, Conds(t)}
    BY <1>5, <1>6, <2>1
  <2>2. ASSUME NEW c, conds' = [Conds(t) EXCEPT ![c].live = FALSE]
        PROVE  Same(conds')
    <3>1. Same([Conds(t) EXCEPT ![c].live = FALSE])
      BY <1>3, <1>6
    <3> QED BY <2>2, <3>1, Zenon
  <2> QED BY <1>7, <2>1, <2>2
<1> QED BY <1>8 DEF CondsKept, Same

LEMMA Nothing ==
  ASSUME IInv, UNCHANGED <<status_stack, symbol_stack, conds, terms, insert_block, func_param,
                           definitions>>
  PROVE  Still
<1>1. Len(status_stack) \in Nat /\ Len(conds) \in Nat
  BY Stacks
<1>2. Quiet(Len(status_stack))
  BY <1>1 DEF Quiet, KeptTo
<1> QED BY <1>1, <1>2 DEF Still, Calm, CondsKept

LEMMA Ended ==
  ASSUME IInv, NEW o, End(o)
  PROVE  Still
  BY Nothing DEF End, stacks, module, code

LEMMA StillCut ==
  ASSUME IInv, IInv', NEW t \in Token, NEW n, NEW k, n \in 0 .. Len(Statuses(t)),
         k \in n .. Len(Symbols(t)), Hushed(Statuses(t), n),
         \/ symbol_stack' = SubSeq(Symbols(t), 1, k)
         \/ \E y : symbol_stack' = Append(SubSeq(Symbols(t), 1, k), y),
         \/ status_stack' = SubSeq(Statuses(t), 1, n)
         \/ \E s : s \notin Loud /\ status_stack' = Append(SubSeq(Statuses(t), 1, n), s),
         CondsKept,
         UNCHANGED <<terms, insert_block, func_param.basic_blocks, func_param.return_block,
                     definitions>>
  PROVE  Still
<1>1. Cuts(t, n)
  BY DEF Cuts
<1>2. Calm
  BY <1>1, QuietCut
<1> QED BY <1>2 DEF Still

\* Nothing is dropped.
LEMMA WholeStacks ==
  ASSUME IInv, NEW t \in Token
  PROVE  /\ Len(Statuses(t)) \in Nat
         /\ Len(Symbols(t)) = Len(Statuses(t))
         /\ SubSeq(Statuses(t), 1, Len(Statuses(t))) = Statuses(t)
         /\ SubSeq(Symbols(t), 1, Len(Symbols(t))) = Symbols(t)
         /\ Hushed(Statuses(t), Len(Statuses(t)))
<1>1. /\ Statuses(t) \in Seq(Status \ {0}) /\ Symbols(t) \in Seq(Held(Len(conds)))
      /\ Len(Symbols(t)) = Len(Statuses(t))
  BY Handed
<1> QED BY <1>1 DEF Hushed

LEMMA StillPush ==
  ASSUME IInv, IInv', NEW t \in Token, NEW s, s \notin Loud,
         \E y : symbol_stack' = Append(Symbols(t), y),
         status_stack' = Append(Statuses(t), s),
         CondsKept,
         UNCHANGED <<terms, insert_block, func_param.basic_blocks, func_param.return_block,
                     definitions>>
  PROVE  Still
<1>1. Len(Statuses(t)) \in 0 .. Len(Statuses(t)) /\ Len(Symbols(t)) \in Len(Statuses(t)) .. Len(Symbols(t))
  BY WholeStacks
<1> QED BY <1>1, WholeStacks, StillCut

\* The entries on top that handlers outside bodies drop.
LEMMA HushedTop ==
  ASSUME IInv, NEW t \in Token, CurrentStatus(t) \notin {0, 15, 19, 21, 22, 24, 17, 23}
  PROVE  LET N == Len(status_stack) IN
         /\ Statuses(t) = status_stack /\ Symbols(t) = symbol_stack /\ Conds(t) = conds
         /\ Len(symbol_stack) = N /\ N \in Nat /\ N - 1 \in 0 .. N
         /\ Hushed(status_stack, N - 1)
         /\ CurrentStatus(t) \in {10, 12} => N - 2 \in 0 .. N /\ Hushed(status_stack, N - 2)
<1>1. /\ Statuses(t) = status_stack /\ Symbols(t) = symbol_stack /\ Conds(t) = conds
  BY Dispatch
<1>2. Len(symbol_stack) = Len(status_stack) /\ Len(status_stack) \in Nat
  BY Stacks
<1>3. Len(status_stack) - 1 \in 0 .. Len(status_stack) /\ Hushed(status_stack, Len(status_stack) - 1)
  BY <1>1, TopStays, OpensHushed DEF Scoped
<1>4. CurrentStatus(t) \in {10, 12} =>
        /\ Len(status_stack) - 2 \in 0 .. Len(status_stack)
        /\ Hushed(status_stack, Len(status_stack) - 2)
  BY <1>1, SecondCut, OpensHushed
<1> QED BY <1>1, <1>2, <1>3, <1>4

\* A handler outside bodies drops the n topmost entries of the status stack and the k
\* topmost of the other.
LEMMA StillTop ==
  ASSUME IInv, IInv', NEW t \in Token, CurrentStatus(t) \notin {0, 15, 19, 21, 22, 24, 17, 23},
         NEW n \in {1, 2}, NEW k \in 0 .. n, n = 2 => CurrentStatus(t) \in {10, 12},
         \/ symbol_stack' = Pop(symbol_stack, k)
         \/ \E y : symbol_stack' = Append(Pop(symbol_stack, k), y),
         \/ status_stack' = Pop(status_stack, n)
         \/ \E s : s \notin Loud /\ status_stack' = Append(Pop(status_stack, n), s),
         conds' = conds,
         UNCHANGED <<terms, insert_block, func_param.basic_blocks, func_param.return_block,
                     definitions>>
  PROVE  Still
<1> DEFINE i == Len(status_stack) - n
           j == Len(symbol_stack) - k
<1>1. /\ Statuses(t) = status_stack /\ Symbols(t) = symbol_stack
      /\ i \in 0 .. Len(status_stack) /\ j \in i .. Len(symbol_stack) /\ Hushed(status_stack, i)
  <2> DEFINE N == Len(status_stack)
  <2>1. /\ Statuses(t) = status_stack /\ Symbols(t) = symbol_stack
        /\ Len(symbol_stack) = N /\ N \in Nat /\ N - 1 \in 0 .. N
        /\ Hushed(status_stack, N - 1)
        /\ CurrentStatus(t) \in {10, 12} => N - 2 \in 0 .. N /\ Hushed(status_stack, N - 2)
    BY HushedTop
  <2>2. CASE n = 1
    BY <2>1, <2>2
  <2>3. n = 2 => N - 2 \in 0 .. N /\ Hushed(status_stack, N - 2)
    BY <2>1
  <2> HIDE DEF N
  <2>4. CASE n = 2
    <3>1. i = N - 2 /\ i \in 0 .. N /\ Hushed(status_stack, N - 2)
      BY <2>3, <2>4 DEF N
    <3>2. j \in N - 2 .. N
      BY <2>1, <2>4
    <3> QED BY <2>1, <2>4, <3>1, <3>2 DEF N
  <2> QED BY <2>2, <2>4
<1>2. CondsKept
  BY KeptConds
<1>3. /\ Pop(status_stack, n) = SubSeq(Statuses(t), 1, i)
      /\ Pop(symbol_stack, k) = SubSeq(Symbols(t), 1, j)
  BY <1>1 DEF Pop
<1> HIDE DEF i, j
<1>4. i \in 0 .. Len(Statuses(t)) /\ j \in i .. Len(Symbols(t)) /\ Hushed(Statuses(t), i)
  BY <1>1
<1>5. /\ \/ symbol_stack' = SubSeq(Symbols(t), 1, j)
         \/ \E y : symbol_stack' = Append(SubSeq(Symbols(t), 1, j), y)
      /\ \/ status_stack' = SubSeq(Statuses(t), 1, i)
         \/ \E s : s \notin Loud /\ status_stack' = Append(SubSeq(Statuses(t), 1, i), s)
  BY <1>3
<1> QED BY <1>2, <1>4, <1>5, StillCut

LEMMA KeptSymbols ==
  ASSUME IInv
  PROVE  symbol_stack = Pop(symbol_stack, 0)
<1>1. symbol_stack \in Seq(Held(Len(conds)))
  BY Stacks
<1> QED BY <1>1 DEF Pop

LEMMA ParamStays ==
  ASSUME IInv
  PROVE  \A x : /\ [func_param EXCEPT !.name = x].basic_blocks = func_param.basic_blocks
                /\ [func_param EXCEPT !.name = x].return_block = func_param.return_block
                /\ [func_param EXCEPT !.arg = x].basic_blocks = func_param.basic_blocks
                /\ [func_param EXCEPT !.arg = x].return_block = func_param.return_block
                /\ [func_param EXCEPT !.return_type = x].basic_blocks = func_param.basic_blocks
                /\ [func_param EXCEPT !.return_type = x].return_block = func_param.return_block
  BY DEF IInv, TypeOfCode, FuncParamOf

LEMMA StillHeader ==
  ASSUME IInv, IInv', NEW t \in Token, Header(t)
  PROVE  Still
<1>1. CurrentStatus(t) \in Status /\ t.key \in Key
  BY Dispatch, TokenIsSymbol
<1>2. CASE \E o : End(o)
  BY <1>2, Ended
<1>3. CASE get_function_name(t)
  <2>1. CurrentStatus(t) = 9 /\ 10 \notin Loud
    BY <1>1, <1>3, Registered DEF get_function_name, On, NoEntry, Loud
  <2>2. /\ func_param' = [func_param EXCEPT !.name = Top.name]
        /\ status_stack' = Append(Pop(status_stack, 1), 10)
        /\ symbol_stack' = Append(Pop(symbol_stack, 1), Lexeme(t))
        /\ UNCHANGED <<conds, terms, insert_block, definitions>>
    BY <1>3 DEF get_function_name, code, module
  <2>3. UNCHANGED <<func_param.basic_blocks, func_param.return_block>>
    BY <2>2, ParamStays
  <2> QED BY <2>1, <2>2, <2>3, StillTop
<1>4. CASE get_argument(t)
  <2>1. CurrentStatus(t) = 12
    BY <1>1, <1>4, Registered DEF get_argument, On, NoEntry
  <2>2. \/ End("threw")
        \/ /\ \/ func_param' = func_param
              \/ \E x : func_param' = [func_param EXCEPT !.arg = x]
           /\ status_stack' = Pop(status_stack, 2)
           /\ symbol_stack' = Pop(symbol_stack, 2)
           /\ UNCHANGED <<conds, terms, insert_block, definitions>>
    BY <1>4 DEF get_argument, code, module
  <2>3. CASE ~End("threw")
    <3>1. UNCHANGED <<func_param.basic_blocks, func_param.return_block>>
      BY <2>2, <2>3, ParamStays
    <3> QED BY <2>1, <2>2, <2>3, <3>1, StillTop
  <2> QED BY <1>2, <2>3
<1>5. CASE wait_function_return_type(t)
  <2>1. CurrentStatus(t) = 10 /\ 14 \notin Loud
    BY <1>1, <1>5, Registered DEF wait_function_return_type, On, NoEntry, Loud
  <2>2. /\ status_stack' = Append(Pop(status_stack, 2), 14)
        /\ symbol_stack' = Pop(symbol_stack, 1)
        /\ UNCHANGED <<func_param, conds, terms, insert_block, definitions>>
    BY <1>5 DEF wait_function_return_type, code, module
  <2> QED BY <2>1, <2>2, StillTop
<1>6. CASE get_function_return_type(t)
  <2>1. CurrentStatus(t) = 18 /\ 25 \notin Loud
    BY <1>1, <1>6, Registered DEF get_function_return_type, On, NoEntry, Loud
  <2>2. \/ End("threw")
        \/ /\ \E x : func_param' = [func_param EXCEPT !.return_type = x]
           /\ status_stack' = Append(Pop(status_stack, 1), 25)
           /\ UNCHANGED <<symbol_stack, conds, terms, insert_block, definitions>>
    BY <1>6 DEF get_function_return_type, code, module
  <2>3. CASE ~End("threw")
    <3>1. UNCHANGED <<func_param.basic_blocks, func_param.return_block>>
      BY <2>2, <2>3, ParamStays
    <3>2. symbol_stack' = Pop(symbol_stack, 0)
      BY <2>2, <2>3, KeptSymbols
    <3> QED BY <2>1, <2>2, <2>3, <3>1, <3>2, StillTop
  <2> QED BY <1>2, <2>3
<1>7. CASE function_declear(t)
  BY <1>2, <1>7 DEF function_declear
<1> QED BY <1>3, <1>4, <1>5, <1>6, <1>7 DEF Header

LEMMA StillVariable ==
  ASSUME IInv, IInv', NEW t \in Token, Variable(t)
  PROVE  Still
<1>1. CurrentStatus(t) \in Status /\ t.key \in Key
  BY Dispatch, TokenIsSymbol
<1>2. CASE define_pointer(t)
  BY <1>2, Nothing DEF define_pointer, stacks, module, code
<1>3. CASE define_variable(t)
  <2>1. CurrentStatus(t) = 3 /\ 4 \notin Loud
    BY <1>1, <1>3, Registered DEF define_variable, On, NoEntry, Loud
  <2>2. \/ End("threw")
        \/ /\ status_stack' = Append(Pop(status_stack, 1), 4)
           /\ UNCHANGED <<symbol_stack, func_param, conds, terms, insert_block, definitions>>
    BY <1>3 DEF define_variable, Define, code, module
  <2>3. CASE ~End("threw")
    <3>1. symbol_stack' = Pop(symbol_stack, 0)
      BY <2>2, <2>3, KeptSymbols
    <3> QED BY <2>1, <2>2, <2>3, <3>1, StillTop
  <2> QED BY <2>3, Ended
<1>4. CASE define_again(t) \/ define_finished(t)
  <2>1. CurrentStatus(t) \in {4, 5}
    BY <1>1, <1>4, Registered DEF define_again, define_finished, On, NoEntry
  <2>2. \/ End("threw")
        \/ /\ status_stack' = Pop(status_stack, 1)
           /\ symbol_stack' = Pop(symbol_stack, 1)
           /\ UNCHANGED <<func_param, conds, terms, insert_block, definitions>>
    BY <1>4 DEF define_again, define_finished, Define, code, module
  <2>3. CASE ~End("threw")
    BY <2>1, <2>2, <2>3, StillTop
  <2> QED BY <2>3, Ended
<1> QED BY <1>2, <1>3, <1>4 DEF Variable

LEMMA StillShift ==
  ASSUME IInv, IInv', NEW t \in Token, Shift(t)
  PROVE  Still
<1> DEFINE s == CurrentStatus(t)
           next == ShiftTo[s][t.key]
<1>1. s \in Status /\ t.key \in Key
  BY Dispatch, TokenIsSymbol
<1>2. /\ next # -1 /\ status_stack' = Append(Statuses(t), next)
      /\ symbol_stack' = Append(Symbols(t), Lexeme(t)) /\ conds' = Conds(t)
      /\ UNCHANGED <<func_param, terms, insert_block, definitions>>
  BY DEF Shift, module, code
<1>3. next \in Status /\ <<s, t.key, next>> \in ShiftRows
  BY <1>1, <1>2, ShiftToRow
<1>4. next \notin Loud
  <2> HIDE DEF next, s
  <2> QED BY <1>3 DEF ShiftRows, Loud
<1>5. CondsKept
  BY <1>2, KeptConds
<1> HIDE DEF next
<1> QED BY <1>2, <1>4, <1>5, StillPush

\* What a solving step or the loop absorbs is of an expression.
LEMMA HushedSuffix ==
  ASSUME IInv, Flat(status_stack), NEW t \in Token, CurrentStatus(t) = 2,
         NEW m \in 2 .. Len(symbol_stack),
         StepStart(symbol_stack, last_priority, m) \/ LoopStart(symbol_stack, last_priority, m)
  PROVE  /\ \A i \in m .. Len(status_stack) : status_stack[i] \in {2, 7}
         /\ m \in 2 .. Len(status_stack) /\ Len(status_stack) \in Nat
         /\ m - 1 \in 0 .. Len(status_stack) /\ Hushed(status_stack, m - 1)
<1>1. /\ status_stack \in Seq(Status \ {0}) /\ symbol_stack \in Seq(Held(Len(conds)))
      /\ WellStacked(Len(conds), status_stack, symbol_stack)
      /\ Len(symbol_stack) = Len(status_stack) /\ Len(status_stack) \in Nat
      /\ status_stack[Len(status_stack)] = 2
  BY InExpression
<1>2. \A i \in m .. Len(status_stack) : status_stack[i] \in {2, 7}
  BY <1>1, StartAbsorbs, ExpressionSuffix
<1> QED BY <1>1, <1>2 DEF Hushed, Loud

\* The operand is pushed and the operator on it.
LEMMA KeptPair ==
  ASSUME IInv, IInv', Flat(status_stack), NEW t \in Token, CurrentStatus(t) = 2,
         NEW m \in 2 .. Len(symbol_stack), m # Len(symbol_stack),
         StepStart(symbol_stack, last_priority, m),
         status_stack' = Append(Reduced(status_stack, m, 2), 7),
         symbol_stack' = Append(Reduced(symbol_stack, m, Value), Lexeme(t))
  PROVE  LET n == m - 1 IN
         /\ KeptTo(n) /\ n \in Nat /\ n \in 0 .. Len(status_stack) /\ Hushed(status_stack, n)
         /\ Len(status_stack') = n + 2 /\ status_stack'[n + 1] = 2 /\ status_stack'[n + 2] = 7
<1> DEFINE ss == status_stack
           ys == symbol_stack
           n == m - 1
<1>1. /\ ss \in Seq(Status \ {0}) /\ ys \in Seq(Held(Len(conds)))
      /\ Len(ys) = Len(ss) /\ Len(ss) \in Nat
  BY InExpression
<1>2. n \in 0 .. Len(ss) /\ n \in Nat /\ Hushed(ss, n)
  BY <1>1, HushedSuffix
<1>3. /\ SubSeq(ss, 1, n) \in Seq(Status \ {0}) /\ Len(SubSeq(ss, 1, n)) = n
      /\ \A i \in 1 .. n : SubSeq(ss, 1, n)[i] = ss[i]
      /\ SubSeq(ys, 1, n) \in Seq(Held(Len(conds))) /\ Len(SubSeq(ys, 1, n)) = n
      /\ \A i \in 1 .. n : SubSeq(ys, 1, n)[i] = ys[i]
  BY <1>1, <1>2
<1>4. /\ Reduced(ss, m, 2) = SubSeq(ss, 1, n) \o <<2>>
      /\ Reduced(ys, m, Value) = SubSeq(ys, 1, n) \o <<Value>>
  BY <1>1, <1>3, AppendIsConcat DEF Reduced
<1> HIDE DEF n
<1>5. /\ Len(status_stack') = n + 2 /\ status_stack'[n + 1] = 2 /\ status_stack'[n + 2] = 7
      /\ \A i \in 1 .. n : status_stack'[i] = ss[i]
  <2> DEFINE s == SubSeq(ss, 1, n)
  <2>1. s \in Seq(Status \ {0}) /\ Len(s) = n /\ \A i \in 1 .. n : s[i] = ss[i]
    BY <1>3
  <2>2. status_stack' = Append(s \o <<2>>, 7)
    BY <1>4, Zenon
  <2>3. 2 \in Status \ {0}
    BY DEF Status
  <2> HIDE DEF s
  <2>4. LET new == Append(s \o <<2>>, 7) IN
        /\ Len(new) = Len(s) + 2 /\ new[Len(s) + 1] = 2 /\ new[Len(s) + 2] = 7
        /\ \A i \in 1 .. Len(s) : new[i] = s[i]
    <3> DEFINE S == Status \ {0}
    <3>1. s \in Seq(S) /\ 2 \in S
      BY <2>1, <2>3
    <3> HIDE DEF S
    <3> QED BY <3>1, PushTwo
  <2> QED BY <2>1, <2>2, <2>4
<1>6. \A i \in 1 .. n : symbol_stack'[i] = ys[i]
  <2> DEFINE y == SubSeq(ys, 1, n)
  <2>1. y \in Seq(Held(Len(conds))) /\ Len(y) = n /\ \A i \in 1 .. n : y[i] = ys[i]
    BY <1>3
  <2>2. symbol_stack' = Append(y \o <<Value>>, Lexeme(t)) /\ Value \in Held(Len(conds))
    BY <1>4, ValueIsSymbol
  <2> HIDE DEF y
  <2> QED BY <2>1, <2>2, PushTwo
<1>7. KeptTo(n)
  <2>1. n <= n + 2 /\ n \in 0 .. Len(ss)
    BY <1>2
  <2> QED BY <1>5, <1>6, <2>1 DEF KeptTo
<1> QED BY <1>2, <1>5, <1>7 DEF n

LEMMA QuietPair ==
  ASSUME IInv, IInv', Flat(status_stack), NEW t \in Token, CurrentStatus(t) = 2,
         NEW m \in 2 .. Len(symbol_stack), m # Len(symbol_stack),
         StepStart(symbol_stack, last_priority, m),
         status_stack' = Append(Reduced(status_stack, m, 2), 7),
         symbol_stack' = Append(Reduced(symbol_stack, m, Value), Lexeme(t))
  PROVE  Calm
<1> DEFINE n == m - 1
<1>1. /\ KeptTo(n) /\ n \in Nat /\ n \in 0 .. Len(status_stack) /\ Hushed(status_stack, n)
      /\ Len(status_stack') = n + 2 /\ status_stack'[n + 1] = 2 /\ status_stack'[n + 2] = 7
  BY KeptPair
<1> HIDE DEF n
<1>2. Quiet(n)
  <2>1. \A i \in n + 1 .. Len(status_stack') : i = n + 1 \/ i = n + 2
    BY <1>1
  <2>2. \A i \in n + 2 .. Len(status_stack') : i = n + 2
    BY <1>1
  <2> QED BY SMTT(40), <1>1, <2>1, <2>2 DEF Quiet, Hushed, Loud, InsideStatus
<1> QED BY <1>1, <1>2 DEF Calm

LEMMA StillOperator ==
  ASSUME IInv, IInv', Flat(status_stack), NEW t \in Token,
         enter_parentheses(t) \/ push_operator(t) \/ solve_then_push_operator(t)
  PROVE  Still
<1>1. CurrentStatus(t) \in Status /\ t.key \in Key
  BY Dispatch, TokenIsSymbol
<1>2. CASE \E o : End(o)
  BY <1>2, Ended
<1>3. CurrentStatus(t) \in {2, 7} /\ (push_operator(t) \/ solve_then_push_operator(t) => CurrentStatus(t) = 2)
  BY <1>1, Registered DEF enter_parentheses, push_operator, solve_then_push_operator,
                          OnOperator, On, NoEntry
<1>4. Statuses(t) = status_stack /\ Symbols(t) = symbol_stack
  BY <1>3, Dispatch
<1>5. 7 \notin Loud
  BY DEF Loud
<1>6. CASE enter_parentheses(t) \/ push_operator(t)
  <2>1. \/ \E o : End(o)
        \/ /\ status_stack' = Append(Statuses(t), 7)
           /\ symbol_stack' = Append(Symbols(t), Lexeme(t))
           /\ UNCHANGED <<func_param, conds, terms, insert_block, definitions>>
    BY <1>4, <1>6 DEF enter_parentheses, push_operator, module, code
  <2>2. CASE /\ status_stack' = Append(Statuses(t), 7)
             /\ symbol_stack' = Append(Symbols(t), Lexeme(t))
             /\ UNCHANGED <<func_param, conds, terms, insert_block, definitions>>
    <3>1. CondsKept
      BY <2>2, KeptConds
    <3> QED BY <1>5, <2>2, <3>1, StillPush
  <2> QED BY <1>2, <2>1, <2>2
<1>7. CASE solve_then_push_operator(t)
  <2>1. ASSUME NEW m \in 2 .. Len(symbol_stack), StepStart(symbol_stack, last_priority, m),
               symbol_stack' = Append(Reduced(symbol_stack, m, Value), Lexeme(t)),
               status_stack' = Append(Reduced(status_stack, m, 2), 7),
               UNCHANGED <<func_param, conds, terms, insert_block, definitions>>
        PROVE  Still
    <3>1. CondsKept
      BY <2>1, KeptConds
    <3>2. CASE m = Len(symbol_stack)
      <4>1. Reduced(symbol_stack, m, Value) = symbol_stack /\ Reduced(status_stack, m, 2) = status_stack
        <5>1. Len(symbol_stack) = Len(status_stack)
          BY Stacks
        <5> QED BY <3>2, <5>1 DEF Reduced
      <4> QED BY <1>4, <1>5, <2>1, <3>1, <4>1, StillPush
    <3>3. CASE m # Len(symbol_stack)
      <4>1. Calm
        BY <1>3, <1>7, <2>1, <3>3, QuietPair
      <4> QED BY <2>1, <3>1, <4>1 DEF Still
    <3> QED BY <3>2, <3>3
  <2>2. \/ \E o : End(o)
        \/ \E m \in 2 .. Len(symbol_stack) :
             /\ StepStart(symbol_stack, last_priority, m)
             /\ symbol_stack' = Append(Reduced(symbol_stack, m, Value), Lexeme(t))
             /\ status_stack' = Append(Reduced(status_stack, m, 2), 7)
             /\ UNCHANGED <<func_param, conds, terms, insert_block, definitions>>
    BY <1>7, Zenon DEF solve_then_push_operator, module
  <2> QED BY <1>2, <2>1, <2>2
<1> QED BY <1>6, <1>7

\* Both stacks of an expression are cut.
LEMMA CalmExpression ==
  ASSUME IInv, IInv', NEW t \in Token, CurrentStatus(t) = 2,
         NEW n \in 0 .. Len(status_stack), NEW k \in n .. Len(status_stack),
         Hushed(status_stack, n),
         \/ symbol_stack' = SubSeq(symbol_stack, 1, k)
         \/ \E y : symbol_stack' = Append(SubSeq(symbol_stack, 1, k), y),
         \/ status_stack' = SubSeq(status_stack, 1, n)
         \/ \E s : s \notin Loud /\ status_stack' = Append(SubSeq(status_stack, 1, n), s)
  PROVE  Calm
<1>1. Statuses(t) = status_stack /\ Symbols(t) = symbol_stack
  BY Dispatch
<1>2. Len(symbol_stack) = Len(status_stack)
  BY Stacks
<1>3. Cuts(t, n)
  BY <1>1, <1>2 DEF Cuts
<1> QED BY <1>1, <1>3, QuietCut

LEMMA OnStatement ==
  ASSUME IInv, NEW t \in Token, NEW m,
         \/ expression_statement(t, m) \/ return_statement(t, m)
         \/ reduce_condition_calculate(t, m)
  PROVE  CurrentStatus(t) = 2 /\ LoopStart(symbol_stack, last_priority, m)
<1>1. CurrentStatus(t) \in Status /\ t.key \in Key
  BY Dispatch, TokenIsSymbol
<1>2. On(t, "check_priority") \/ On(t, "reduce_condition_calculate")
  BY DEF expression_statement, return_statement, reduce_condition_calculate, OnSemicolon
<1>3. LoopStart(symbol_stack, last_priority, m)
  BY DEF expression_statement, return_statement, reduce_condition_calculate, OnSemicolon
<1> QED BY <1>1, <1>2, <1>3, Registered DEF On, NoEntry

\* With the value of a statement goes what is left of a list: the pairs below it of an
\* operand and a comma.
LEMMA DroppedPairs ==
  ASSUME IInv, Flat(status_stack), NEW t \in Token, CurrentStatus(t) = 2,
         NEW m \in 2 .. Len(symbol_stack), LoopStart(symbol_stack, last_priority, m),
         NEW k \in 0 .. m - 1, m - 1 - 2 * k > 0,
         \A i \in 0 .. k - 1 : symbol_stack[m - 1 - 2 * i].key = "COMMA"
  PROVE  \A i \in m - 1 - 2 * k + 1 .. Len(status_stack) : status_stack[i] \in {2, 7}
<1> DEFINE ss == status_stack
           N == Len(status_stack)
           c == m - 1 - 2 * k
<1>1. /\ \A i \in m .. N : ss[i] \in {2, 7}
      /\ N \in Nat /\ m \in 2 .. N
  BY HushedSuffix
<1>2. WellStacked(Len(conds), ss, symbol_stack) /\ ss[N] = 2 /\ DOMAIN ss = 1 .. N
  BY InExpression
<1>3. c \in 0 .. N /\ c \in Nat
  BY <1>1
<1>4. CASE k = 0
  BY <1>1, <1>4
<1>5. CASE k # 0
  \* The lowest comma and the operand below it.
  <2> DEFINE j == c + 2
  <2>1. k - 1 \in 0 .. k - 1 /\ m - 1 - 2 * (k - 1) = j
    BY <1>1, <1>5
  <2>2. symbol_stack[j].key = "COMMA"
    <3>1. symbol_stack[m - 1 - 2 * (k - 1)].key = "COMMA"
      BY <2>1
    <3> QED BY <2>1, <3>1
  <2>3. j \in 1 .. N - 1 /\ j - 1 = c + 1
    BY <1>1, <1>3, <1>5
  <2>4. c + 1 \in 1 .. N /\ ss[c + 1] \in {2, 7}
    BY <1>2, <2>2, <2>3, OperatorCarries, Keys
  <2> QED BY <1>2, <2>4 DEF Flat
<1> QED BY <1>4, <1>5

LEMMA StillStatement ==
  ASSUME IInv, IInv', Flat(status_stack), NEW t \in Token, NEW m \in 2 .. Len(symbol_stack),
         expression_statement(t, m)
  PROVE  Still
<1> DEFINE ss == status_stack
           N == Len(status_stack)
<1>1. CurrentStatus(t) = 2 /\ LoopStart(symbol_stack, last_priority, m)
  BY OnStatement
<1>2. /\ \A i \in m .. N : ss[i] \in {2, 7}
      /\ N \in Nat /\ m \in 2 .. N
  BY <1>1, HushedSuffix
<1>3. WellStacked(Len(conds), ss, symbol_stack) /\ ss[N] = 2 /\ DOMAIN ss = 1 .. N
  BY <1>1, InExpression
<1>4. ASSUME NEW k \in 0 .. m - 1, m - 1 - 2 * k > 0,
             \A i \in 0 .. k - 1 : symbol_stack[m - 1 - 2 * i].key = "COMMA",
             status_stack' = SubSeq(status_stack, 1, m - 1 - 2 * k),
             symbol_stack' = SubSeq(symbol_stack, 1, m - 1 - 2 * k)
      PROVE  Calm
  <2> DEFINE c == m - 1 - 2 * k
  <2>1. c \in 0 .. N /\ c \in Nat
    BY <1>2, <1>4
  <2>2. \A i \in c + 1 .. N : ss[i] \in {2, 7}
    BY <1>1, <1>4, DroppedPairs
  <2>3. Hushed(ss, c)
    BY <2>2 DEF Hushed, Loud
  <2>4. c \in c .. N
    BY <2>1
  <2> QED BY <1>1, <1>4, <2>1, <2>3, <2>4, CalmExpression
<1>5. \/ \E o : End(o)
      \/ /\ \E k \in 0 .. m - 1 :
              /\ m - 1 - 2 * k > 0
              /\ \A i \in 0 .. k - 1 : symbol_stack[m - 1 - 2 * i].key = "COMMA"
              /\ status_stack' = SubSeq(status_stack, 1, m - 1 - 2 * k)
              /\ symbol_stack' = SubSeq(symbol_stack, 1, m - 1 - 2 * k)
         /\ UNCHANGED <<func_param, conds, definitions, terms, insert_block>>
  <2>1. \/ \E o \in StepFaults(symbol_stack, m) : End(o)
        \/ /\ \E k \in 0 .. m - 1 :
                /\ m - 1 - 2 * k > 0
                /\ \A i \in 0 .. k - 1 : symbol_stack[m - 1 - 2 * i].key = "COMMA"
                /\ symbol_stack[m - 1 - 2 * k].key # "COMMA"
                /\ symbol_stack' = SubSeq(symbol_stack, 1, m - 1 - 2 * k)
                /\ status_stack' = SubSeq(status_stack, 1, m - 1 - 2 * k)
           /\ UNCHANGED <<func_param, conds, definitions, terms, insert_block>>
    BY Zenon DEF expression_statement, module
  <2> QED BY <2>1
<1>6. ASSUME Calm, UNCHANGED <<func_param, conds, definitions, terms, insert_block>>
      PROVE  Still
  BY <1>6, KeptConds DEF Still
<1> QED BY <1>4, <1>5, <1>6, Ended

LEMMA StillParenthesis ==
  ASSUME IInv, IInv', Flat(status_stack), NEW t \in Token, NEW q \in 2 .. Len(symbol_stack),
         reduce_group(t, q) \/ reduce_operatorbrace(t, q)
  PROVE  Still
<1> DEFINE ss == status_stack
           n == Len(status_stack)
<1>1. CurrentStatus(t) = 2 /\ symbol_stack[q].key = "("
  <2>1. CurrentStatus(t) \in Status /\ t.key \in Key
    BY Dispatch, TokenIsSymbol
  <2>2. OnParenthesis(t, q)
    BY DEF reduce_group, reduce_operatorbrace
  <2> QED BY <2>1, <2>2, Registered DEF OnParenthesis, On, NoEntry
<1>2. /\ WellStacked(Len(conds), ss, symbol_stack)
      /\ Len(symbol_stack) = n /\ n \in Nat /\ DOMAIN ss = 1 .. n /\ ss[n] = 2
  BY <1>1, InExpression
<1>3. q < n /\ Below(ss, q - 1) \in {2, 7}
  BY <1>1, <1>2, OpenParenthesis
<1>4. q - 1 \in 1 .. n /\ ss[q - 1] \in {2, 7}
  BY <1>2, <1>3 DEF Below
<1>5. \A i \in q - 1 .. n : ss[i] \in {2, 7}
  BY <1>2, <1>4 DEF Flat
<1>6. /\ q - 1 \in 0 .. n /\ q - 2 \in 0 .. n
      /\ q - 1 \in q - 1 .. n /\ q - 2 \in q - 2 .. n
  BY <1>2, <1>4
<1>7. Hushed(ss, q - 1) /\ Hushed(ss, q - 2)
  <2>1. \A i \in q - 1 .. n : ss[i] \notin Loud
    BY <1>5 DEF Loud
  <2>2. /\ \A i \in q - 1 + 1 .. n : i \in q - 1 .. n
        /\ \A i \in q - 2 + 1 .. n : i \in q - 1 .. n
    BY <1>2, <1>4
  <2> QED BY <2>1, <2>2 DEF Hushed
<1>8. \/ \E o : End(o)
      \/ /\ \/ /\ status_stack' = Append(SubSeq(ss, 1, q - 1), 2)
               /\ \E y : symbol_stack' = Append(SubSeq(symbol_stack, 1, q - 1), y)
            \/ /\ status_stack' = Append(SubSeq(ss, 1, q - 2), 2)
               /\ \E y : symbol_stack' = Append(SubSeq(symbol_stack, 1, q - 2), y)
         /\ UNCHANGED <<func_param, conds, definitions, terms, insert_block>>
  BY DEF reduce_group, reduce_operatorbrace, module
<1>9. ASSUME Calm, UNCHANGED <<func_param, conds, definitions, terms, insert_block>>
      PROVE  Still
  BY <1>9, KeptConds DEF Still
<1>10. ASSUME NEW k \in {q - 1, q - 2}, status_stack' = Append(SubSeq(ss, 1, k), 2),
              \E y : symbol_stack' = Append(SubSeq(symbol_stack, 1, k), y)
       PROVE  Calm
  <2>1. k \in 0 .. n /\ k \in k .. n /\ Hushed(ss, k) /\ 2 \notin Loud
    BY <1>6, <1>7 DEF Loud
  <2> QED BY <1>1, <1>10, <2>1, CalmExpression
<1> QED BY <1>8, <1>9, <1>10, Ended

LEMMA StillCondition ==
  ASSUME IInv, IInv', Flat(status_stack), NEW t \in Token, NEW m \in 2 .. Len(symbol_stack),
         reduce_condition_calculate(t, m), status_stack[m - 1] \notin {17, 23}
  PROVE  Still
<1> DEFINE N == Len(status_stack)
<1>1. CurrentStatus(t) = 2 /\ LoopStart(symbol_stack, last_priority, m)
  BY OnStatement
<1>2. m - 1 \in 0 .. N /\ m - 1 \in m - 1 .. N /\ Hushed(status_stack, m - 1)
  BY <1>1, HushedSuffix
<1>3. \/ \E o : End(o)
      \/ /\ status_stack' = SubSeq(status_stack, 1, m - 1)
         /\ symbol_stack' = SubSeq(symbol_stack, 1, m - 1)
         /\ UNCHANGED <<func_param, conds, definitions, terms, insert_block>>
  BY DEF reduce_condition_calculate, module
<1>4. ASSUME status_stack' = SubSeq(status_stack, 1, m - 1),
             symbol_stack' = SubSeq(symbol_stack, 1, m - 1),
             UNCHANGED <<func_param, conds, definitions, terms, insert_block>>
      PROVE  Still
  <2>1. Calm
    BY <1>1, <1>2, <1>4, CalmExpression
  <2> QED BY <1>4, <2>1, KeptConds DEF Still
<1> QED BY <1>3, <1>4, Ended

LEMMA StillElse ==
  ASSUME IInv, IInv', NEW t \in Token, check_if_body2(t) \/ end_if_body2(t)
  PROVE  Still
<1>1. CurrentStatus(t) \in Status /\ t.key \in Key
  BY Dispatch, TokenIsSymbol
<1>2. CASE check_if_body2(t)
  <2>1. CurrentStatus(t) = 20 /\ 21 \notin Loud
    BY <1>1, <1>2, Registered DEF check_if_body2, On, NoEntry, Loud
  <2>2. /\ status_stack' = Append(Pop(status_stack, 1), 21)
        /\ UNCHANGED <<symbol_stack, func_param, conds, definitions, terms, insert_block>>
    BY <1>2 DEF check_if_body2, module, code
  <2>3. symbol_stack' = Pop(symbol_stack, 0)
    BY <2>2, KeptSymbols
  <2> QED BY <2>1, <2>2, <2>3, StillTop
<1>3. CASE end_if_body2(t)
  <2> DEFINE ss == Statuses(t)
             N == Len(Statuses(t))
             M == Len(Symbols(t))
  <2>1. CurrentStatus(t) = 22
    BY <1>1, <1>3, Registered DEF end_if_body2, On, NoEntry
  <2>2. /\ N \in Nat /\ N - 2 \in 0 .. N /\ ss[N - 1] = 21 /\ ss[N] = 22 /\ M = N
    BY <2>1, SecondCut, TopCut, WholeStacks DEF Under
  <2>3. Hushed(ss, N - 2) /\ M - 2 \in N - 2 .. M
    <3>1. \A i \in N - 2 + 1 .. N : i \in {N - 1, N}
      BY <2>2
    <3>2. M - 2 \in N - 2 .. M
      BY <2>2
    <3>3. N = Len(ss)
      OBVIOUS
    <3> HIDE DEF ss, N
    <3>4. \A i \in N - 2 + 1 .. Len(ss) : ss[i] \notin Loud
      BY <2>2, <3>1, <3>3 DEF Loud
    <3> QED BY <3>2, <3>4 DEF Hushed
  <2>4. \/ End("undefined")
        \/ /\ status_stack' = SubSeq(ss, 1, N - 2)
           /\ symbol_stack' = SubSeq(Symbols(t), 1, M - 2)
           /\ \E c : conds' = [Conds(t) EXCEPT ![c].live = FALSE]
           /\ UNCHANGED <<func_param, definitions, terms, insert_block>>
    BY <1>3 DEF end_if_body2, Pop, module, code
  <2>5. CASE /\ status_stack' = SubSeq(ss, 1, N - 2)
             /\ symbol_stack' = SubSeq(Symbols(t), 1, M - 2)
             /\ \E c : conds' = [Conds(t) EXCEPT ![c].live = FALSE]
             /\ UNCHANGED <<func_param, definitions, terms, insert_block>>
    <3>1. CondsKept
      BY <2>5, KeptConds
    <3> QED BY <2>2, <2>3, <2>5, <3>1, StillCut
  <2> QED BY <2>4, <2>5, Ended
<1> QED BY <1>2, <1>3

-----------------------------------------------------------------------------
(* Scopes that returned. *)

\* New scopes have not returned, and the others have if they had.
Grows(new) ==
  /\ Keeps(new)
  /\ \A p \in DOMAIN new \ DOMAIN scopes : ~new[p].has_return

\* A step in a scope that has not returned, to one that has not.
StaysOpen ==
  /\ ~scopes[current_node].has_return /\ ~scopes'[current_node'].has_return
  /\ Grows(scopes')

LEMMA OpenStep ==
  ASSUME InTree, ~scopes[current_node].has_return, current_node' = current_node, Grows(scopes')
  PROVE  StaysOpen
  BY DEF StaysOpen, Grows, Keeps, InTree

LEMMA GrowsTouched ==
  ASSUME IInv, InTree, NEW S, NEW m
  PROVE  Grows(TouchedBy(S, m)) /\ Grows(scopes)
  BY TouchTree DEF Grows, Keeps

\* A variable is defined.
LEMMA GrowsWith ==
  ASSUME NEW p
  PROVE  Grows(With(scopes, p))
<1>1. ~Fresh.has_return
  BY FreshNode
<1> QED BY <1>1 DEF Grows, Keeps, With

LEMMA GrowsAnonymous ==
  ASSUME IInv, InTree, EnterAnonymous
  PROVE  Grows(scopes') /\ ~scopes'[current_node'].has_return
<1>1. Keeps(scopes') /\ ~scopes'[current_node'].has_return
  BY EnterFresh
<1>2. DOMAIN scopes' \subseteq DOMAIN scopes \cup {current_node'}
  BY DEF EnterAnonymous, With
<1> QED BY <1>1, <1>2 DEF Grows

\* A function's scope and those of its arguments.
LEMMA GrowsOpened ==
  ASSUME IInv, InTree, NEW entry \in Nat
  PROVE  Grows(Opened(FunctionScope, func_param.arg, entry))
<1> DEFINE path == FunctionScope
           args == Arguments(path, func_param.arg)
           new == Opened(path, func_param.arg, entry)
<1>1. \A p \in DOMAIN new \ DOMAIN scopes : ~new[p].has_return
  <2>1. ASSUME NEW p \in DOMAIN new, p \notin DOMAIN scopes PROVE ~new[p].has_return
    <3> DEFINE node == Fresh
    <3>1. new[p] = IF p = path THEN [node EXCEPT !.is_func_root = TRUE]
                   ELSE IF p \in args THEN [node EXCEPT !.address = entry, !.home = path]
                   ELSE node
      BY <2>1 DEF Opened
    <3>2. node \in Node /\ ~node.has_return
      BY FreshNode
    <3> HIDE DEF node, new, path, args
    <3> QED BY <3>1, <3>2 DEF Node
  <2> QED BY <2>1
<1> QED BY <1>1, OpenKeeps DEF Grows

\* Which scope is a function is noted in it.
LEMMA GrowsPointer ==
  ASSUME NEW new, Grows(new), \A p \in DOMAIN new : new[p] \in Node, NEW p, NEW fn
  PROVE  /\ Grows([new EXCEPT ![p].function_ptr = fn])
         /\ DOMAIN [new EXCEPT ![p].function_ptr = fn] = DOMAIN new
         /\ \A q \in DOMAIN new : [new EXCEPT ![p].function_ptr = fn][q].has_return = new[q].has_return
<1> DEFINE other == [new EXCEPT ![p].function_ptr = fn]
<1>1. DOMAIN other = DOMAIN new /\ \A q \in DOMAIN new : other[q].has_return = new[q].has_return
  BY DEF Node
<1> HIDE DEF other
<1>2. Grows(other)
  BY <1>1 DEF Grows, Keeps
<1> QED BY <1>1, <1>2 DEF other

-----------------------------------------------------------------------------
(* Every step is one of structured code, or none. *)

Simulates == ParserInv' /\ [Proofs!Next]_(Proofs!vars)

LEMMA DefinedKept ==
  ASSUME ReturnedWereDefined, definitions' = definitions, Grows(scopes'),
         \/ ~scopes[current_node].has_return
         \/ Len(current_node) # 1
         \/ current_node' = current_node
  PROVE  ReturnedWereDefined'
<1> SUFFICES ASSUME NEW p \in DOMAIN scopes', Len(p) = 1, scopes'[p].has_return
             PROVE  p = current_node' \/ \E i \in DOMAIN definitions : definitions[i].scope = p
  BY DEF ReturnedWereDefined
<1>1. p \in DOMAIN scopes /\ scopes[p].has_return
  BY DEF Grows, Keeps
<1>2. p = current_node \/ \E i \in DOMAIN definitions : definitions[i].scope = p
  BY <1>1 DEF ReturnedWereDefined
<1>3. CASE p = current_node
  BY <1>1, <1>3
<1> QED BY <1>2, <1>3

LEMMA StillSimulates ==
  ASSUME TreeInv, TreeInv', RefInv, Still,
         StaysOpen \/ UNCHANGED <<status_stack, scopes, current_node>>
  PROVE  Simulates
<1>1. StackInv' /\ (Inside' <=> Inside) /\ Frames' = Frames
  BY CalmStack DEF TreeInv, RefInv, ParserInv, Still
<1>2. UNCHANGED <<terms, insert_block, func_param.basic_blocks, func_param.return_block,
                  definitions, Defined>>
  BY DEF Still, Defined
<1>3. FunctionIsParsed' /\ DefinitionsTyped'
  BY <1>1, <1>2 DEF RefInv, ParserInv, FunctionIsParsed, DefinitionsTyped
<1>4. ReturnedIsRight' /\ ReturnedWereDefined'
  <2>1. CASE StaysOpen
    <3>1. ReturnedWereDefined'
      BY <1>2, <2>1, DefinedKept DEF RefInv, ParserInv, StaysOpen
    <3>2. ReturnedIsRight'
      BY <1>1, <1>2, <2>1 DEF RefInv, ParserInv, ReturnedIsRight, StaysOpen
    <3> QED BY <3>1, <3>2
  <2>2. CASE UNCHANGED <<status_stack, scopes, current_node>>
    BY <1>1, <1>2, <2>2 DEF RefInv, ParserInv, ReturnedIsRight, ReturnedWereDefined, Redefining
  <2> QED BY <2>1, <2>2
<1>5. UNCHANGED Proofs!vars
  BY <1>1, <1>2 DEF Proofs!vars
<1> QED BY <1>1, <1>3, <1>4, <1>5 DEF Simulates, ParserInv

\* A step in which nothing happens to stacks, scopes and code.
LEMMA NothingSimulates ==
  ASSUME TreeInv, TreeInv', RefInv,
         UNCHANGED <<status_stack, symbol_stack, scopes, current_node, conds, terms, insert_block,
                     func_param, definitions>>
  PROVE  Simulates
<1>1. Still
  BY Nothing DEF TreeInv
<1> QED BY <1>1, StillSimulates

LEMMA EndSimulates ==
  ASSUME TreeInv, TreeInv', RefInv, NEW o, End(o)
  PROVE  Simulates
  BY NothingSimulates DEF End, stacks, tree, module, code

LEMMA OpenNow ==
  ASSUME TreeInv, NEW t \in Token, Dispatched(t),
         \/ ShiftTo[CurrentStatus(t)][t.key] # -1
         \/ Handler[CurrentStatus(t)][t.key] \notin Finisher
  PROVE  ~scopes[current_node].has_return
  BY Alive DEF TreeInv

LEMMA PlainSimulates ==
  ASSUME TreeInv, TreeInv', RefInv, NEW t \in Token,
         Shift(t) \/ NoRow(t) \/ Ignore(t) \/ skip(t) \/ Header(t) \/ Variable(t)
  PROVE  Simulates
<1>1. CASE \E o : End(o)
  BY <1>1, EndSimulates
<1>2. CASE NoRow(t)
  BY <1>1, <1>2 DEF NoRow
<1>3. CASE Ignore(t) \/ skip(t)
  BY <1>3, NothingSimulates DEF Ignore, skip, vars, stacks, tree, module, code
<1>4. CASE Shift(t)
  <2>1. Still
    BY <1>4, StillShift DEF TreeInv
  <2>2. ~scopes[current_node].has_return /\ UNCHANGED <<scopes, current_node>>
    BY <1>4, OpenNow DEF Shift, tree
  <2>3. StaysOpen
    BY <2>2, OpenStep, GrowsTouched DEF TreeInv
  <2> QED BY <2>1, <2>3, StillSimulates
<1>5. CASE Header(t)
  <2>1. Still
    BY <1>5, StillHeader DEF TreeInv
  <2>2. Dispatched(t) /\ Handler[CurrentStatus(t)][t.key] \notin Finisher
    BY <1>5 DEF Header, get_function_name, get_argument, wait_function_return_type,
                get_function_return_type, function_declear, On, Finisher
  <2>3. (\E o : End(o)) \/ UNCHANGED <<scopes, current_node>>
    BY <1>5 DEF Header, get_function_name, get_argument, wait_function_return_type,
                get_function_return_type, function_declear, tree
  <2>4. CASE UNCHANGED <<scopes, current_node>>
    <3>1. StaysOpen
      BY <2>2, <2>4, OpenNow, OpenStep, GrowsTouched DEF TreeInv
    <3> QED BY <2>1, <3>1, StillSimulates
  <2> QED BY <1>1, <2>3, <2>4
<1>6. CASE Variable(t)
  <2>1. Still
    BY <1>6, StillVariable DEF TreeInv
  <2>2. Dispatched(t) /\ Handler[CurrentStatus(t)][t.key] \notin Finisher
    BY <1>6 DEF Variable, define_pointer, define_variable, define_again, define_finished, On,
                Finisher
  <2>3. \/ \E o : End(o)
        \/ /\ scopes' = scopes \/ \E p : scopes' = With(scopes, p)
           /\ current_node' = current_node
    BY <1>6 DEF Variable, define_pointer, define_variable, define_again, define_finished, Define,
                tree
  <2>4. CASE /\ scopes' = scopes \/ \E p : scopes' = With(scopes, p)
             /\ current_node' = current_node
    <3>1. Grows(scopes')
      BY <2>4, GrowsTouched, GrowsWith DEF TreeInv
    <3>2. StaysOpen
      BY <2>2, <2>4, <3>1, OpenNow, OpenStep DEF TreeInv
    <3> QED BY <2>1, <3>2, StillSimulates
  <2> QED BY <1>1, <2>3, <2>4
<1> QED BY <1>2, <1>3, <1>4, <1>5, <1>6

\* Expressions that are evaluated and do not decide a condition or return.
LEMMA ExpressionSimulates ==
  ASSUME TreeInv, TreeInv', RefInv, NEW t \in Token,
         \/ enter_parentheses(t) \/ push_operator(t) \/ solve_then_push_operator(t)
         \/ expression_fails(t) \/ parenthesis_fails(t)
         \/ \E m \in 2 .. Len(symbol_stack) :
              \/ expression_statement(t, m) \/ reduce_group(t, m) \/ reduce_operatorbrace(t, m)
              \/ reduce_condition_calculate(t, m) /\ status_stack[m - 1] \notin {17, 23}
  PROVE  Simulates
<1> DEFINE Evaluated == /\ \E m : scopes' = scopes \/ scopes' = TouchedBy(symbol_stack, m)
                        /\ current_node' = current_node
<1>1. CASE \E o : End(o)
  BY SMTT(40), <1>1, EndSimulates
<1>2. Dispatched(t) /\ Handler[CurrentStatus(t)][t.key] \notin Finisher
  BY DEF enter_parentheses, push_operator, solve_then_push_operator,
         OnOperator, expression_fails, parenthesis_fails, expression_statement,
         OnSemicolon, reduce_condition_calculate, reduce_group,
         reduce_operatorbrace, OnParenthesis, On, Finisher
<1>3. ASSUME Still, Evaluated PROVE Simulates
  <2>1. Grows(scopes')
    BY <1>3, GrowsTouched DEF TreeInv
  <2>2. StaysOpen
    BY <1>2, <1>3, <2>1, OpenNow, OpenStep DEF TreeInv
  <2> QED BY <1>3, <2>2, StillSimulates
<1>4. CASE enter_parentheses(t) \/ push_operator(t) \/ solve_then_push_operator(t)
  <2>1. (\E o : End(o)) \/ Evaluated
    BY <1>4 DEF enter_parentheses, push_operator, solve_then_push_operator, Evaluate, tree
  <2>2. Still
    BY <1>4, StillOperator DEF TreeInv
  <2> QED BY <1>1, <1>3, <2>1, <2>2
<1>5. CASE expression_fails(t) \/ parenthesis_fails(t)
  BY <1>1, <1>5 DEF expression_fails, LoopFails, parenthesis_fails
<1>6. ASSUME NEW m \in 2 .. Len(symbol_stack),
             \/ expression_statement(t, m) \/ reduce_group(t, m) \/ reduce_operatorbrace(t, m)
             \/ reduce_condition_calculate(t, m) /\ status_stack[m - 1] \notin {17, 23}
      PROVE  Simulates
  <2>1. (\E o : End(o)) \/ Evaluated
    <3>1. CASE expression_statement(t, m)
      <4>1. \/ \E o : End(o)
            \/ /\ scopes' = scopes \/ scopes' = TouchedBy(symbol_stack, m)
               /\ current_node' = current_node
        BY <3>1 DEF expression_statement, Evaluate, module
      <4> QED BY <4>1
    <3>2. CASE reduce_condition_calculate(t, m)
      <4>1. \/ \E o : End(o)
            \/ scopes' = TouchedBy(symbol_stack, m) /\ current_node' = current_node
        BY <3>2 DEF reduce_condition_calculate
      <4> QED BY SMTT(40), <4>1
    <3>3. CASE reduce_group(t, m)
      <4>1. \/ \E o : End(o)
            \/ /\ scopes' = scopes \/ scopes' = TouchedBy(symbol_stack, m + 1)
               /\ current_node' = current_node
        BY <3>3 DEF reduce_group, Evaluate, module
      <4> QED BY <4>1
    <3>4. CASE reduce_operatorbrace(t, m)
      BY <3>4 DEF reduce_operatorbrace, tree, module
    <3> QED BY <1>6, <3>1, <3>2, <3>3, <3>4
  <2>2. Still
    BY <1>6, StillStatement, StillParenthesis, StillCondition DEF TreeInv
  <2> QED BY <1>1, <1>3, <2>1, <2>2
<1> QED BY <1>4, <1>5, <1>6

LEMMA AtLeastTwo ==
  /\ \A k \in Nat : k >= 2 => k # 1 /\ k >= 1
  /\ \A k \in Nat : \A m, n : m = 1 /\ n = m + 1 /\ n <= k => k >= 2
  OBVIOUS

\* Inside a branch or a loop the scope is not that of the function.
LEMMA DeepInside ==
  ASSUME TreeInv, RefInv, NEW i \in 1 .. Len(status_stack), status_stack[i] \in Tracked \cup {21}
  PROVE  Len(current_node) >= 2 /\ Inside /\ Len(current_node) \in Nat
<1> DEFINE S == ScopedIn(status_stack)
<1>1. status_stack \in Seq(Status \ {0}) /\ DOMAIN status_stack = 1 .. Len(status_stack)
  BY Stacks DEF TreeInv
<1>2. IsFiniteSet(S) /\ Cardinality(S) \in Nat /\ Len(current_node) = Cardinality(S)
  BY <1>1, DepthIsFinite DEF Depth, TreeInv, ScopesMatchStatuses, ScopedIn, Scoped
<1>3. Inside
  BY <1>1 DEF RefInv, ParserInv, StackInv, BodiesInside, InsideStatus, Tracked
<1>4. {2} \cup {i} \subseteq S /\ i \notin {2}
  <2>1. 2 \in 1 .. Len(status_stack) /\ status_stack[2] = 15 /\ i # 2
    BY <1>1, <1>3 DEF Inside, Tracked
  <2> QED BY <1>1, <2>1 DEF ScopedIn, Scoped, Tracked
<1>5. IsFiniteSet({2}) /\ Cardinality({2}) = 1
  BY FS_Singleton
<1>6. Cardinality({2} \cup {i}) = Cardinality({2}) + 1
  BY <1>4, <1>5, FS_AddElement
<1>7. Cardinality({2} \cup {i}) <= Cardinality(S)
  BY <1>2, <1>4, FS_Subset
<1> HIDE DEF S
<1>8. Cardinality(S) >= 2
  BY <1>2, <1>5, <1>6, <1>7, AtLeastTwo
<1> QED BY <1>2, <1>3, <1>8

LEMMA ElseSimulates ==
  ASSUME TreeInv, TreeInv', RefInv, NEW t \in Token, check_if_body2(t) \/ end_if_body2(t)
  PROVE  Simulates
<1>1. Still
  BY StillElse DEF TreeInv
<1>2. CASE check_if_body2(t)
  <2>1. ~scopes[current_node].has_return
    BY <1>2, OpenNow DEF check_if_body2, On, Finisher
  <2>2. StaysOpen
    BY <1>2, <2>1, GrowsAnonymous DEF check_if_body2, StaysOpen, TreeInv
  <2> QED BY <1>1, <2>2, StillSimulates
<1>3. CASE end_if_body2(t)
  <2> DEFINE outer == Pop(current_node, 1)
             N == Len(Statuses(t))
  <2>1. \/ End("undefined")
        \/ /\ scopes[current_node].has_return
           /\ current_node' = outer
           /\ scopes' = [scopes EXCEPT ![outer].has_return = TRUE]
           /\ UNCHANGED <<terms, insert_block, func_param, definitions>>
    BY <1>3 DEF end_if_body2, module, code
  <2>2. CASE End("undefined")
    BY <2>2, EndSimulates
  <2>3. CASE /\ scopes[current_node].has_return
             /\ current_node' = outer
             /\ scopes' = [scopes EXCEPT ![outer].has_return = TRUE]
             /\ UNCHANGED <<terms, insert_block, func_param, definitions>>
    <3>1. CurrentStatus(t) = 22
      <4>1. CurrentStatus(t) \in Status /\ t.key \in Key
        BY Dispatch, TokenIsSymbol DEF TreeInv
      <4> QED BY <1>3, <4>1, Registered DEF end_if_body2, On, NoEntry
    <3>2. /\ N \in Nat /\ N - 1 \in 1 .. Len(Statuses(t)) /\ N \in 1 .. N
          /\ Statuses(t)[N - 1] = 21 /\ Statuses(t)[N] = 22
      <4>1. N \in Nat /\ N - 2 \in 0 .. N /\ Statuses(t)[N - 1] = 21 /\ Statuses(t)[N] = 22
        BY SMTT(40), <3>1, SecondCut, TopCut DEF Under, TreeInv
      <4> QED BY <4>1
    <3>3. /\ Len(Statuses(t)) \in 0 .. Len(status_stack) /\ Len(status_stack) \in Nat
          /\ \A i \in 1 .. Len(Statuses(t)) : Statuses(t)[i] = status_stack[i]
          /\ \A i \in Len(Statuses(t)) + 1 .. Len(status_stack) : status_stack[i] = 20
      BY Handed, Stacks DEF TreeInv
    <3>4. N - 1 \in 1 .. Len(status_stack) /\ status_stack[N - 1] = 21
      BY <3>2, <3>3
    <3>5. Len(current_node) >= 2 /\ Len(current_node) # 1 /\ Inside
      <4>1. Len(current_node) >= 2 /\ Len(current_node) \in Nat /\ Inside
        BY <3>4, DeepInside
      <4> QED BY <4>1, AtLeastTwo
    <3>6. TopOf(status_stack) # 15
      <4>1. status_stack # <<>> /\ TopOf(status_stack) = status_stack[Len(status_stack)]
        BY <3>4 DEF TopOf
      <4>2. Len(status_stack) \in 1 .. N \/ Len(status_stack) \in N + 1 .. Len(status_stack)
        BY <3>2, <3>3, <3>4
      <4>3. Len(status_stack) \in 1 .. N => Len(status_stack) = N
        BY <3>2, <3>3
      <4> QED BY <3>2, <3>3, <4>1, <4>2, <4>3
    <3>7. terms[insert_block] # <<>>
      BY <2>3, <3>5, <3>6 DEF RefInv, ParserInv, ReturnedIsRight
    <3>8. StackInv' /\ (Inside' <=> Inside) /\ Frames' = Frames
      BY <1>1, CalmStack DEF TreeInv, RefInv, ParserInv, Still
    <3>9. FunctionIsParsed' /\ DefinitionsTyped'
      BY <2>3, <3>8 DEF RefInv, ParserInv, FunctionIsParsed, DefinitionsTyped
    <3>10. /\ DOMAIN scopes' = DOMAIN scopes
           /\ outer \in DOMAIN scopes /\ scopes'[outer].has_return
           /\ \A p \in DOMAIN scopes : p # outer => scopes'[p] = scopes[p]
      <4>1. outer \in DOMAIN scopes
        BY LeaveTree DEF TreeInv
      <4>2. \A p \in DOMAIN scopes : scopes[p] \in Node
        BY DEF TreeInv, InTree, TreeOf
      <4>3. LET new == [scopes EXCEPT ![outer].has_return = TRUE] IN
            /\ DOMAIN new = DOMAIN scopes
            /\ \A p \in DOMAIN scopes :
                 /\ new[p] \in Node /\ new[p].name_no = scopes[p].name_no
                 /\ p # outer => new[p] = scopes[p]
                 /\ p = outer => new[p].has_return
        BY <4>2, ReturnTree
      <4> QED BY <2>3, <4>1, <4>3
    <3>11. ReturnedIsRight'
      BY <2>3, <3>7, <3>10 DEF ReturnedIsRight
    <3>12. ReturnedWereDefined'
      <4> SUFFICES ASSUME NEW p \in DOMAIN scopes, Len(p) = 1, scopes'[p].has_return, p # outer
                   PROVE  \E i \in DOMAIN definitions : definitions[i].scope = p
        BY <2>3, <3>10 DEF ReturnedWereDefined
      <4>1. scopes[p].has_return /\ p # current_node
        BY <3>5, <3>10
      <4> QED BY <4>1 DEF RefInv, ParserInv, ReturnedWereDefined
    <3>13. UNCHANGED Proofs!vars
      BY <2>3, <3>8 DEF Proofs!vars, Defined
    <3> QED BY <3>8, <3>9, <3>11, <3>12, <3>13 DEF Simulates, ParserInv
  <2> QED BY <2>1, <2>2, <2>3
<1> QED BY <1>2, <1>3

-----------------------------------------------------------------------------
(* The steps that open and close what is on the stack. *)

\* The frames of the conditions up to n, and of the one at n + 1.
Lower(n) == {Frame(i) : i \in {i \in 1 .. n : status_stack[i] \in {19, 23, 24}}}
Upper(n) == IF n + 1 \in Waiting THEN {Frame(n + 1)} ELSE {}

LEMMA SplitFrames ==
  ASSUME IInv, NEW n \in 0 .. Len(status_stack),
         \A i \in n + 2 .. Len(status_stack) : status_stack[i] \notin {19, 23, 24}
  PROVE  Frames = Lower(n) \cup Upper(n)
<1>1. Len(status_stack) \in Nat /\ DOMAIN status_stack = 1 .. Len(status_stack)
  BY Stacks
<1>2. \A i \in Waiting : i \in {j \in 1 .. n : status_stack[j] \in {19, 23, 24}} \/ i = n + 1
  BY <1>1 DEF Waiting
<1>3. {j \in 1 .. n : status_stack[j] \in {19, 23, 24}} \subseteq Waiting
  BY <1>1 DEF Waiting
<1> QED BY <1>2, <1>3 DEF Frames, Lower, Upper

LEMMA OneAbove ==
  \A n, l \in Nat : l \in {n, n + 1} =>
    /\ \A i \in 1 .. l : i \in 1 .. n \/ (i = n + 1 /\ l = n + 1)
    /\ \A i \in 1 .. l, j \in 1 .. l : i < j => i \in 1 .. n
    /\ ~ \E i \in n + 2 .. l : TRUE
    /\ n + 1 \notin 1 .. n
  OBVIOUS

LEMMA WithinBoth ==
  \A n, l, k \in Nat : n \in 0 .. l /\ n <= k =>
    /\ \A i \in 1 .. n : i \in 1 .. l /\ i \in 1 .. k
    /\ n >= 2 => l >= 2 /\ k >= 2 /\ 2 \in 1 .. n
  OBVIOUS

\* Everything above n is dropped and at most one entry pushed.
LEMMA TopStack ==
  ASSUME IInv, IInv', StackInv, NEW n \in Nat, KeptTo(n),
         Len(status_stack') \in {n, n + 1},
         \A i \in n + 2 .. Len(status_stack) : status_stack[i] \notin Loud,
         \A i \in 1 .. n : status_stack[i] \in {19, 23, 24} => Frame(i)' = Frame(i),
         Len(status_stack') = n + 1 =>
           /\ status_stack'[n + 1] \in Tracked =>
                \A i \in 1 .. n : status_stack[i] \in Tracked =>
                  symbol_stack[i].cond < symbol_stack'[n + 1].cond
           /\ status_stack'[n + 1] \in {23, 24} => (Frame(n + 1)').head # 0
           /\ status_stack'[n + 1] \in {19, 24} =>
                /\ (Frame(n + 1)').rest # 0
                /\ \A i \in 1 .. n : status_stack[i] \in {19, 24} =>
                     Frame(i).rest < (Frame(n + 1)').rest
  PROVE  /\ StackInv'
         /\ n >= 2 => (Inside' <=> Inside)
         /\ Frames = Lower(n) \cup Upper(n)
         /\ Frames' = Lower(n) \cup Upper(n)'
<1> DEFINE ss == status_stack
           zz == status_stack'
           W == {i \in 1 .. n : ss[i] \in {19, 23, 24}}
<1>1. /\ Len(zz) \in Nat /\ DOMAIN zz = 1 .. Len(zz)
      /\ DOMAIN ss = 1 .. Len(ss) /\ Len(ss) \in Nat
      /\ n \in 0 .. Len(ss) /\ n <= Len(zz)
      /\ \A i \in 1 .. n : zz[i] = ss[i] /\ symbol_stack'[i] = symbol_stack[i]
  BY Stacks, StacksNext DEF KeptTo
<1>2. BodiesInside'
  <2>1. \A i \in n + 2 .. Len(zz) : zz[i] \notin InsideStatus
    BY ZenonT(60), <1>1, OneAbove
  <2> QED BY SMTT(40), <2>1, BodiesStay DEF StackInv
<1>3. n >= 2 => (Inside' <=> Inside)
  <2>1. n >= 2 => Len(zz) >= 2 /\ Len(ss) >= 2 /\ 2 \in 1 .. n
    BY <1>1, WithinBoth
  <2> QED BY ZenonT(60), <1>1, <2>1 DEF Inside
<1>4. Frames = Lower(n) \cup Upper(n)
  BY SMTT(40), <1>1, SplitFrames DEF Loud
<1>5. /\ \A i \in DOMAIN zz : i \in 1 .. n \/ (i = n + 1 /\ Len(zz) = n + 1)
      /\ \A i \in DOMAIN zz, j \in DOMAIN zz : i < j => i \in 1 .. n
  BY ZenonT(60), <1>1, OneAbove
<1>6. \A i \in 1 .. n : i \in DOMAIN ss /\ i \in DOMAIN zz /\ zz[i] = ss[i]
                        /\ symbol_stack'[i] = symbol_stack[i]
  BY <1>1, WithinBoth
<1>7. \A i \in Waiting' : i \in W \/ i = n + 1
  BY <1>5, <1>6 DEF Waiting
<1>8. W \subseteq Waiting' /\ W \subseteq Waiting
  BY <1>6 DEF Waiting
<1>9. \A i \in W : Frame(i)' = Frame(i)
  OBVIOUS
<1>10. Frames' = Lower(n) \cup Upper(n)'
  BY <1>7, <1>8, <1>9 DEF Frames, Lower, Upper
<1>11. CondsInOrder'
  <2> SUFFICES ASSUME NEW i \in DOMAIN zz, NEW j \in DOMAIN zz, i < j, zz[i] \in Tracked, zz[j] \in Tracked
               PROVE  symbol_stack'[i].cond < symbol_stack'[j].cond
    BY DEF CondsInOrder
  <2>1. i \in 1 .. n
    BY <1>5
  <2>2. CASE j \in 1 .. n
    BY <1>6, <2>1, <2>2 DEF StackInv, CondsInOrder
  <2>3. CASE j = n + 1 /\ Len(zz) = n + 1
    BY <1>6, <2>1, <2>3
  <2> QED BY <1>5, <2>2, <2>3
<1>12. FramesInOrder'
  <2>1. ASSUME NEW i \in Waiting'
        PROVE  /\ zz[i] \in {23, 24} => (Frame(i)').head # 0
               /\ zz[i] \in {19, 24} => (Frame(i)').rest # 0
    <3>1. CASE i \in W
      BY <1>6, <1>8, <1>9, <3>1 DEF StackInv, FramesInOrder
    <3>2. CASE i = n + 1
      <4>1. Len(zz) = n + 1
        BY <1>1, <1>5, <2>1, <3>2, OneAbove DEF Waiting
      <4> QED BY SMTT(40), <3>2, <4>1
    <3> QED BY <1>7, <2>1, <3>1, <3>2
  <2>2. ASSUME NEW i \in Waiting', NEW j \in Waiting', i < j, zz[i] \in {19, 24}, zz[j] \in {19, 24}
        PROVE  (Frame(i)').rest < (Frame(j)').rest
    <3>1. i \in DOMAIN zz /\ j \in DOMAIN zz
      BY <2>2 DEF Waiting
    <3>2. i \in 1 .. n /\ i \in W
      BY <1>5, <1>6, <2>2, <3>1
    <3>3. CASE j \in 1 .. n
      <4>1. j \in W
        BY <1>6, <2>2, <3>3
      <4> QED BY <1>6, <1>8, <1>9, <2>2, <3>2, <4>1 DEF StackInv, FramesInOrder
    <3>4. CASE j = n + 1 /\ Len(zz) = n + 1
      BY <1>6, <1>9, <2>2, <3>2, <3>4
    <3> QED BY <1>5, <3>1, <3>3, <3>4
  <2> QED BY <2>1, <2>2 DEF FramesInOrder
<1> QED BY <1>2, <1>3, <1>4, <1>10, <1>11, <1>12 DEF StackInv

\* The invariant of structured code, of the parser's blocks.
LEMMA BlocksNow ==
  ASSUME RefInv
  PROVE  /\ terms \in Seq(Seq(SUBSET Nat)) /\ Len(terms) \in Nat
         /\ Inside <=> Proofs!Open
         /\ Inside => insert_block \in 1 .. Len(terms)
         /\ ~Inside => Frames = {} /\ func_param.return_block = 0
         /\ func_param.return_block \in 0 .. Len(terms)
         /\ func_param.basic_blocks \in Seq(1 .. Len(terms))
         /\ \A f \in Frames :
              /\ f.head \in 0 .. Len(terms) /\ f.rest \in 0 .. Len(terms)
              /\ f.rest # 0 => terms[f.rest] = <<>> /\ f.rest # insert_block
<1>1. /\ terms \in Seq(Seq(SUBSET Nat)) /\ insert_block \in 0 .. Len(terms)
      /\ func_param.return_block \in 0 .. Len(terms)
      /\ func_param.basic_blocks \in Seq(1 .. Len(terms))
  BY DEF RefInv, Proofs!CodeInv, Proofs!TypeOfBlocks
<1>2. Len(terms) \in Nat
  BY <1>1
<1>3. Inside <=> Proofs!Open
  BY DEF RefInv, ParserInv, FunctionIsParsed, Proofs!Open
<1>4. Inside => insert_block \in 1 .. Len(terms)
  BY <1>1, <1>2 DEF RefInv, ParserInv, FunctionIsParsed
<1>5. ~Inside => Frames = {} /\ func_param.return_block = 0
  BY <1>3 DEF RefInv, Proofs!CodeInv, Proofs!FunctionIsOpen
<1>6. Proofs!Members(func_param.basic_blocks) \subseteq 1 .. Len(terms)
  BY <1>1 DEF Proofs!Members
<1>7. ASSUME NEW f \in Frames
      PROVE  /\ f.head \in {0} \cup Proofs!Members(func_param.basic_blocks)
             /\ f.rest \in {0} \cup Proofs!Members(func_param.basic_blocks)
             /\ f.rest # 0 => terms[f.rest] = <<>> /\ f.rest # insert_block
  BY DEF RefInv, Proofs!CodeInv, Proofs!FramesWait
<1>8. \A x \in {0} \cup Proofs!Members(func_param.basic_blocks) : x \in 0 .. Len(terms)
  BY <1>2, <1>6
<1> QED BY <1>1, <1>2, <1>3, <1>4, <1>5, <1>7, <1>8

\* A body goes on in a block that is empty, in a scope that has not returned.
LEMMA OpenHolds ==
  ASSUME RefInv, StackInv', Inside', definitions' = definitions, ReturnedWereDefined',
         func_param'.basic_blocks # <<>>, insert_block' # 0,
         terms'[insert_block'] = <<>>, ~scopes'[current_node'].has_return
  PROVE  ParserInv'
<1>1. FunctionIsParsed'
  BY DEF FunctionIsParsed
<1>2. ReturnedIsRight'
  BY DEF ReturnedIsRight
<1>3. DefinitionsTyped'
  BY DEF DefinitionsTyped, RefInv, ParserInv
<1> QED BY <1>1, <1>2, <1>3 DEF ParserInv

\* No condition of a loop is being parsed.
LEMMA NotDeciding ==
  ASSUME TreeInv, RefInv, NEW k \in 1 .. Len(status_stack), status_stack[k] \notin {1, 2, 7, 23},
         \A i \in k + 1 .. Len(status_stack) : status_stack[i] # 23
  PROVE  /\ \A i \in 1 .. Len(status_stack) : status_stack[i] # 23
         /\ \A f \in Frames : f.rest # 0
<1>1. /\ WellStacked(Len(conds), status_stack, symbol_stack) /\ Len(status_stack) \in Nat
      /\ DOMAIN status_stack = 1 .. Len(status_stack)
  BY Stacks DEF TreeInv
<1>2. ASSUME NEW i \in 1 .. Len(status_stack), status_stack[i] = 23
      PROVE  FALSE
  <2>1. \A j \in i + 1 .. Len(status_stack) : status_stack[j] \in {1, 2, 7}
    BY <1>1, <1>2, OnCondition DEF TreeInv
  <2>2. k # i /\ k \notin i + 1 .. Len(status_stack) /\ i \notin k + 1 .. Len(status_stack)
    BY <1>2, <2>1
  <2> QED BY <1>1, <2>2
<1>3. ASSUME NEW i \in Waiting PROVE Frame(i).rest # 0
  BY <1>1, <1>2 DEF Waiting, RefInv, ParserInv, StackInv, FramesInOrder
<1> QED BY <1>2, <1>3 DEF Frames

\* What a statement starts from in a body.
LEMMA BodyNow ==
  ASSUME TreeInv, RefInv, NEW t \in Token, CurrentStatus(t) \in InBody
  PROVE  LET n == Len(Statuses(t)) IN
         /\ n \in Nat /\ n >= 2 /\ n \in 1 .. Len(status_stack) /\ Len(status_stack) \in Nat
         /\ status_stack[n] = CurrentStatus(t) /\ Len(Symbols(t)) = n
         /\ Symbols(t)[n] = symbol_stack[n]
         /\ \A i \in n + 1 .. Len(status_stack) : status_stack[i] = 20
         /\ Inside
<1> DEFINE n == Len(Statuses(t))
<1>1. /\ n \in 0 .. Len(status_stack) /\ Len(status_stack) \in Nat /\ Len(Symbols(t)) = n
      /\ \A i \in 1 .. n : Statuses(t)[i] = status_stack[i] /\ Symbols(t)[i] = symbol_stack[i]
      /\ \A i \in n + 1 .. Len(status_stack) : status_stack[i] = 20
  BY Handed, Stacks DEF TreeInv
<1>2. n \in 1 .. n /\ Statuses(t)[n] = CurrentStatus(t)
  BY Dispatch DEF TreeInv, InBody
<1>3. n \in 1 .. Len(status_stack) /\ n \in Nat
  BY <1>1, <1>2
<1>4. status_stack[n] = CurrentStatus(t) /\ Symbols(t)[n] = symbol_stack[n]
  BY <1>1, <1>2
<1>5. n >= 2 /\ Inside
  <2>1. n \in DOMAIN status_stack
    BY <1>3, Stacks DEF TreeInv
  <2> QED BY <1>4, <2>1 DEF InBody, InsideStatus, RefInv, ParserInv, StackInv, BodiesInside
<1> QED BY <1>1, <1>3, <1>4, <1>5

LEMMA BodyDecided ==
  ASSUME TreeInv, RefInv, NEW t \in Token, CurrentStatus(t) \in InBody
  PROVE  \A f \in Frames : f.rest # 0
<1> DEFINE n == Len(Statuses(t))
<1>1. /\ n \in 1 .. Len(status_stack) /\ status_stack[n] = CurrentStatus(t)
      /\ \A i \in n + 1 .. Len(status_stack) : status_stack[i] = 20
  BY BodyNow
<1>2. status_stack[n] \notin {1, 2, 7, 23} /\ \A i \in n + 1 .. Len(status_stack) : status_stack[i] # 23
  BY <1>1 DEF InBody
<1> HIDE DEF n
<1> QED BY <1>1, <1>2, NotDeciding

\* A new condition is pushed.
LEMMA PushedCondition ==
  ASSUME TreeInv, TreeInv', RefInv, NEW t \in Token, CurrentStatus(t) \in InBody, NEW s \in {17, 23},
         NEW x, s = 23 => x.entery_block # 0,
         status_stack' = Append(Statuses(t), s),
         symbol_stack' = Append(Symbols(t), CondSymbol(Len(conds) + 1)),
         conds' = Append(Conds(t), x)
  PROVE  /\ StackInv' /\ Inside'
         /\ Frames' = Frames \cup (IF s = 23 THEN {[head |-> x.entery_block, rest |-> 0]} ELSE {})
<1> SUFFICES ASSUME NEW n, n = Len(Statuses(t)), NEW c, c = Len(conds) + 1
             PROVE  /\ StackInv' /\ Inside'
                    /\ Frames' = Frames \cup
                         (IF s = 23 THEN {[head |-> x.entery_block, rest |-> 0]} ELSE {})
  OBVIOUS
<1>1. /\ n \in Nat /\ n >= 2 /\ n \in 1 .. Len(status_stack)
      /\ Len(Symbols(t)) = n /\ Len(status_stack) \in Nat
      /\ \A i \in n + 1 .. Len(status_stack) : status_stack[i] = 20
      /\ Inside
  BY BodyNow
<1>2. /\ SubSeq(Statuses(t), 1, n) = Statuses(t) /\ SubSeq(Symbols(t), 1, n) = Symbols(t)
      /\ n \in 0 .. n /\ n \in n .. Len(Symbols(t))
  BY <1>1, WholeStacks DEF TreeInv
<1>3. Cuts(t, n)
  BY <1>2 DEF Cuts
<1>4. KeptTo(n) /\ Len(status_stack') = n + 1 /\ status_stack'[n + 1] = s
  <2>1. status_stack' = Append(SubSeq(Statuses(t), 1, n), s)
    BY <1>2
  <2>2. /\ KeptTo(n)
        /\ \A r : status_stack' = Append(SubSeq(Statuses(t), 1, n), r) =>
             Len(status_stack') = n + 1 /\ status_stack'[n + 1] = r
    <3>1. IInv /\ IInv' /\ \E r : status_stack' = Append(SubSeq(Statuses(t), 1, n), r)
      BY <2>1 DEF TreeInv
    <3> QED BY <1>3, <3>1, Keeping
  <2> QED BY <2>1, <2>2
<1>5. CondsKept
  BY KeptConds DEF TreeInv
<1>6. symbol_stack'[n + 1].cond = c
  <2>1. Symbols(t) \in Seq(Held(Len(conds)))
    BY Handed DEF TreeInv
  <2>2. symbol_stack'[n + 1] = CondSymbol(c)
    BY <1>1, <2>1
  <2>3. CondSymbol(c).cond = c
    BY DEF CondSymbol
  <2> QED BY <2>2, <2>3
<1>7. conds'[c] = x
  BY CondsNow DEF TreeInv
<1>8. s = 23 => Frame(n + 1)' = [head |-> x.entery_block, rest |-> 0]
  <2>1. conds'[symbol_stack'[n + 1].cond] = x
    BY <1>6, <1>7
  <2> QED BY <1>4, <2>1 DEF Frame
<1>9. ASSUME NEW i \in 1 .. n, status_stack[i] \in Tracked
      PROVE  /\ symbol_stack[i].cond < c
             /\ status_stack[i] \in {19, 23, 24} => Frame(i)' = Frame(i)
  <2>1. i \in 1 .. Len(status_stack)
    BY <1>1
  <2>2. symbol_stack[i].cond \in 1 .. Len(conds) /\ Len(conds) \in Nat
    BY <1>9, <2>1, OfCondition, Stacks DEF TreeInv, Tracked
  <2>3. symbol_stack[i].cond < c
    BY <2>2
  <2>4. status_stack'[i] = status_stack[i] /\ symbol_stack'[i] = symbol_stack[i]
    BY <1>4 DEF KeptTo
  <2>5. status_stack[i] \in {19, 23, 24} => Frame(i)' = Frame(i)
    BY <1>5, <2>1, <2>2, <2>4, FrameStays DEF CondsKept, TreeInv
  <2> QED BY <2>3, <2>5
<1>10. \A i \in n + 2 .. Len(status_stack) : status_stack[i] \notin Loud
  <2>1. \A i \in n + 2 .. Len(status_stack) : i \in n + 1 .. Len(status_stack)
    BY <1>1
  <2> QED BY <1>1, <2>1 DEF Loud
<1>11. n + 1 \notin Waiting
  <2>1. n + 1 \in 1 .. Len(status_stack) => n + 1 \in n + 1 .. Len(status_stack)
    BY <1>1
  <2>2. DOMAIN status_stack = 1 .. Len(status_stack)
    BY Stacks DEF TreeInv
  <2> QED BY <1>1, <2>1, <2>2 DEF Waiting
<1>12. n + 1 \in Waiting' <=> s = 23
  <2>1. n + 1 \in DOMAIN status_stack'
    BY <1>1, <1>4, StacksNext DEF TreeInv
  <2> QED BY <1>4, <2>1 DEF Waiting
<1>13. /\ StackInv' /\ (Inside' <=> Inside)
       /\ Frames = Lower(n) \cup Upper(n) /\ Frames' = Lower(n) \cup Upper(n)'
  <2>1. \A i \in 1 .. n : status_stack[i] \in {19, 23, 24} => Frame(i)' = Frame(i)
    BY <1>9 DEF Tracked
  <2>2. /\ status_stack'[n + 1] \in Tracked =>
             \A i \in 1 .. n : status_stack[i] \in Tracked =>
               symbol_stack[i].cond < symbol_stack'[n + 1].cond
        /\ status_stack'[n + 1] \in {23, 24} => (Frame(n + 1)').head # 0
        /\ status_stack'[n + 1] \notin {19, 24}
    <3>1. \A i \in 1 .. n : status_stack[i] \in Tracked =>
             symbol_stack[i].cond < symbol_stack'[n + 1].cond
      BY <1>6, <1>9
    <3>2. s = 23 => (Frame(n + 1)').head # 0
      BY <1>8
    <3>3. status_stack'[n + 1] = s /\ s # 24 /\ s # 19
      BY <1>4
    <3> QED BY <3>1, <3>2, <3>3
  <2>3. Len(status_stack') \in {n, n + 1} /\ KeptTo(n) /\ n \in Nat /\ n >= 2
    BY <1>1, <1>4
  <2>4. IInv /\ IInv' /\ StackInv
    BY DEF TreeInv, RefInv, ParserInv
  <2> QED BY <1>10, <2>1, <2>2, <2>3, <2>4, TopStack
<1>14. Upper(n) = {} /\ Upper(n)' = IF s = 23 THEN {[head |-> x.entery_block, rest |-> 0]} ELSE {}
  BY <1>8, <1>11, <1>12 DEF Upper
<1> QED BY <1>1, <1>13, <1>14

\* The block being written has not ended.
LEMMA OpenBlock ==
  ASSUME RefInv, Inside, ~scopes[current_node].has_return
  PROVE  /\ terms[insert_block] = <<>> /\ func_param.basic_blocks # <<>> /\ insert_block # 0
         /\ Proofs!Open /\ ~Proofs!Ended
  BY DEF RefInv, ParserInv, ReturnedIsRight, FunctionIsParsed, Proofs!Open, Proofs!Ended

\* A block is ended and others are made.
LEMMA EndedBlock ==
  ASSUME IInv, NEW d \in Nat, d \in {Len(terms) + 1, Len(terms) + 2}, NEW targets \in SUBSET (0 .. d)
  PROVE  LET E == Terminate(terms, insert_block, targets) IN
         /\ Len(E) = Len(terms) /\ Len(terms) \in Nat
         /\ Append(E, <<>>)[Len(terms) + 1] = <<>>
         /\ (E \o <<<<>>, <<>>>>)[Len(terms) + 1] = <<>>
         /\ Len(Append(E, <<>>)) = Len(terms) + 1 /\ Len(E \o <<<<>>, <<>>>>) = Len(terms) + 2
<1> DEFINE E == Terminate(terms, insert_block, targets)
<1>1. terms \in Seq(Seq(SUBSET (0 .. Len(terms)))) /\ Len(terms) \in Nat
  BY DEF IInv, TypeOfCode, MaybeBlock
<1>2. Len(terms) <= d
  BY <1>1
<1>3. Seq(Seq(SUBSET (0 .. Len(terms)))) \subseteq Seq(Seq(SUBSET (0 .. d)))
  BY <1>1, <1>2, WidenCode
<1>4. E \in Seq(Seq(SUBSET (0 .. d))) /\ Len(E) = Len(terms)
  BY <1>1, <1>3, TerminateType
<1> HIDE DEF E
<1>5. <<>> \in Seq(SUBSET (0 .. d))
  OBVIOUS
<1> DEFINE S == Seq(SUBSET (0 .. d))
           x == <<>>
<1>6. E \in Seq(S) /\ x \in S
  BY <1>4, <1>5
<1> HIDE DEF S, x
<1>7. /\ Append(E, x)[Len(E) + 1] = x /\ (E \o <<x, x>>)[Len(E) + 1] = x
      /\ Len(Append(E, x)) = Len(E) + 1 /\ Len(E \o <<x, x>>) = Len(E) + 2
  BY <1>6
<1> QED BY <1>1, <1>4, <1>7 DEF E, x

LEMMA ParamGrows ==
  ASSUME IInv
  PROVE  LET own == func_param.basic_blocks IN
         /\ \A b : /\ [func_param EXCEPT !.basic_blocks = Append(@, b)].basic_blocks = Append(own, b)
                   /\ [func_param EXCEPT !.basic_blocks = Append(@, b)].return_block =
                        func_param.return_block
                   /\ Append(own, b) # <<>>
         /\ \A b, d : /\ [func_param EXCEPT !.basic_blocks = @ \o <<b, d>>].basic_blocks =
                           own \o <<b, d>>
                      /\ [func_param EXCEPT !.basic_blocks = @ \o <<b, d>>].return_block =
                           func_param.return_block
                      /\ own \o <<b, d>> # <<>>
         /\ \A b : /\ [func_param EXCEPT !.return_block = b].basic_blocks = own
                   /\ [func_param EXCEPT !.return_block = b].return_block = b
<1>1. func_param \in FuncParamOf(MaybeBlock)
  BY DEF IInv, TypeOfCode
<1>2. func_param.basic_blocks \in Seq(MaybeBlock)
  BY <1>1 DEF FuncParamOf
<1>3. ASSUME NEW own \in Seq(MaybeBlock), NEW b, NEW d
      PROVE  Append(own, b) # <<>> /\ own \o <<b, d>> # <<>>
  <2>1. Len(own) \in Nat /\ Len(Append(own, b)) = Len(own) + 1 /\ Len(own \o <<b, d>>) = Len(own) + 2
    OBVIOUS
  <2>2. Len(<<>>) = 0
    OBVIOUS
  <2> QED BY <2>1, <2>2
<1> QED BY <1>1, <1>2, <1>3 DEF FuncParamOf

LEMMA StartSimulates ==
  ASSUME TreeInv, TreeInv', RefInv, NEW t \in Token, start_while_condition(t) \/ start_if_condition(t)
  PROVE  Simulates
<1>1. CurrentStatus(t) \in InBody
  <2>1. CurrentStatus(t) \in Status /\ t.key \in Key
    BY Dispatch, TokenIsSymbol DEF TreeInv
  <2> QED BY <2>1, Registered DEF start_while_condition, start_if_condition, On, NoEntry, InBody
<1>2. Inside /\ \A f \in Frames : f.rest # 0
  BY <1>1, BodyNow, BodyDecided
<1>3. ~scopes[current_node].has_return
  BY OpenNow DEF start_while_condition, start_if_condition, On, Finisher
<1>4. /\ terms[insert_block] = <<>> /\ func_param.basic_blocks # <<>> /\ insert_block # 0
      /\ Proofs!Open /\ ~Proofs!Ended /\ ~Proofs!Deciding
  BY <1>2, <1>3, OpenBlock DEF Proofs!Deciding
<1>5. StaysOpen /\ definitions' = definitions
  BY <1>3, GrowsAnonymous DEF start_while_condition, start_if_condition, StaysOpen, TreeInv, module
<1>6. ReturnedWereDefined'
  BY <1>3, <1>5, DefinedKept DEF RefInv, ParserInv, StaysOpen
<1>7. CASE start_if_condition(t)
  <2>1. /\ StackInv' /\ Inside'
        /\ Frames' = Frames \cup (IF 17 = 23 THEN {[head |-> NoCond.entery_block, rest |-> 0]} ELSE {})
    BY <1>1, <1>7, PushedCondition DEF start_if_condition
  <2>2. UNCHANGED <<terms, insert_block, func_param, definitions>> /\ Frames' = Frames
    BY <1>7, <2>1 DEF start_if_condition, code, module
  <2>3. ParserInv'
    BY <1>4, <1>5, <1>6, <2>1, <2>2, OpenHolds DEF StaysOpen
  <2>4. UNCHANGED Proofs!vars
    BY <2>2 DEF Proofs!vars, Defined
  <2> QED BY <2>3, <2>4 DEF Simulates
<1>8. CASE start_while_condition(t)
  <2> DEFINE b == Len(terms) + 1
             x == [NoCond EXCEPT !.entery_block = b]
  <2>1. x.entery_block = b /\ b # 0 /\ Len(terms) \in Nat
    BY BlocksNow DEF NoCond
  <2>2. /\ status_stack' = Append(Statuses(t), 23)
        /\ symbol_stack' = Append(Symbols(t), CondSymbol(Len(conds) + 1))
        /\ conds' = Append(Conds(t), x)
        /\ func_param' = [func_param EXCEPT !.basic_blocks = Append(@, b)]
        /\ terms' = Append(Terminate(terms, insert_block, {b}), <<>>)
        /\ insert_block' = b
        /\ definitions' = definitions
    BY <1>8 DEF start_while_condition, module
  <2>3. /\ StackInv' /\ Inside'
        /\ Frames' = Frames \cup {[head |-> b, rest |-> 0]}
    <3> HIDE DEF x, b
    <3>1. /\ StackInv' /\ Inside'
          /\ Frames' = Frames \cup (IF 23 = 23 THEN {[head |-> x.entery_block, rest |-> 0]} ELSE {})
      BY <1>1, <2>1, <2>2, PushedCondition
    <3> QED BY <2>1, <3>1
  <2>4. /\ func_param'.basic_blocks = Append(func_param.basic_blocks, b)
        /\ func_param'.basic_blocks # <<>>
        /\ func_param'.return_block = func_param.return_block
    BY <2>2, ParamGrows DEF TreeInv
  <2>5. terms'[insert_block'] = <<>>
    <3>1. b \in Nat /\ {b} \in SUBSET (0 .. b)
      BY <2>1
    <3>2. Append(Terminate(terms, insert_block, {b}), <<>>)[Len(terms) + 1] = <<>>
      BY <3>1, EndedBlock DEF TreeInv
    <3> QED BY <2>2, <3>2
  <2>6. ParserInv'
    <3>1. insert_block' # 0
      BY <2>1, <2>2
    <3> QED BY <1>5, <1>6, <2>3, <2>4, <2>5, <3>1, OpenHolds DEF StaysOpen
  <2>7. Proofs!StartLoop
    BY <1>4, <2>2, <2>3, <2>4
       DEF Proofs!StartLoop, Proofs!Ending, Proofs!New, Proofs!Frame, Terminate, Defined
  <2> QED BY <2>6, <2>7 DEF Simulates, Proofs!Next
<1> QED BY <1>7, <1>8

LEMMA SmallerIsOther == \A k, m, n : m \in 1 .. k /\ n \in 1 .. k /\ m < n => m # n
  OBVIOUS

\* A condition is decided: the entry at n + 1 says so.
LEMMA DecidedStacks ==
  ASSUME TreeInv, TreeInv', RefInv, NEW t \in Token, CurrentStatus(t) = 2,
         NEW n \in Nat, n + 1 \in 1 .. Len(status_stack),
         \A i \in n + 2 .. Len(status_stack) : status_stack[i] \in {2, 7},
         NEW s \in {17, 23}, status_stack[n + 1] = s,
         status_stack' = Append(SubSeq(status_stack, 1, n), IF s = 17 THEN 19 ELSE 24),
         symbol_stack' = SubSeq(symbol_stack, 1, n + 1),
         NEW c, c = symbol_stack[n + 1].cond, NEW x, conds' = [conds EXCEPT ![c] = x],
         s = 23 => x.entery_block = conds[c].entery_block,
         (IF s = 17 THEN x.body2 ELSE x.exit_block) = Len(terms) + 2
  PROVE  LET head == IF s = 23 THEN conds[c].entery_block ELSE 0 IN
         /\ StackInv' /\ Inside /\ Inside'
         /\ Frames = Lower(n) \cup (IF s = 23 THEN {[head |-> head, rest |-> 0]} ELSE {})
         /\ Frames' = Lower(n) \cup {[head |-> head, rest |-> Len(terms) + 2]}
         /\ \A f \in Lower(n) : f.rest # 0
<1> DEFINE ss == status_stack
           k == n + 1
<1>1. /\ Len(ss) \in Nat /\ DOMAIN ss = 1 .. Len(ss) /\ Len(symbol_stack) = Len(ss)
      /\ symbol_stack \in Seq(Held(Len(conds)))
      /\ WellStacked(Len(conds), ss, symbol_stack)
      /\ Statuses(t) = ss /\ Symbols(t) = symbol_stack
  <2>1. IInv /\ CurrentStatus(t) \notin {15, 19, 22, 24}
    BY DEF TreeInv
  <2>2. Statuses(t) = ss /\ Symbols(t) = symbol_stack
    BY <2>1, Dispatch, Zenon
  <2> QED BY <2>1, <2>2, Stacks
<1>2. n \in 0 .. Len(ss) /\ k \in n .. Len(symbol_stack) /\ k \in 1 .. Len(ss)
  BY <1>1
<1>3. Cuts(t, n)
  BY <1>1, <1>2 DEF Cuts
<1>4. /\ KeptTo(n) /\ Len(status_stack') = n + 1
      /\ status_stack'[n + 1] = IF s = 17 THEN 19 ELSE 24
  <2>1. IInv /\ IInv' /\ status_stack' = Append(SubSeq(Statuses(t), 1, n), IF s = 17 THEN 19 ELSE 24)
    BY <1>1 DEF TreeInv
  <2>2. /\ KeptTo(n)
        /\ \A r : status_stack' = Append(SubSeq(Statuses(t), 1, n), r) =>
             Len(status_stack') = n + 1 /\ status_stack'[n + 1] = r
    <3>1. \E r : status_stack' = Append(SubSeq(Statuses(t), 1, n), r)
      BY <2>1
    <3> QED BY <1>3, <2>1, <3>1, Keeping
  <2> QED BY <2>1, <2>2
<1>5. symbol_stack'[n + 1] = symbol_stack[n + 1]
  BY <1>1, <1>2
<1>6. c \in 1 .. Len(conds) /\ DOMAIN conds = 1 .. Len(conds)
  <2>1. c \in 1 .. Len(conds)
    BY <1>2, OfCondition DEF TreeInv
  <2>2. DOMAIN conds = 1 .. Len(conds)
    BY DEF TreeInv, IInv, TypeOfCode
  <2> QED BY <2>1, <2>2
<1>7. conds'[c] = x /\ \A d \in 1 .. Len(conds) : d # c => conds'[d] = conds[d]
  BY <1>6
\* Below it the conditions are others.
<1>8. ASSUME NEW i \in 1 .. n, ss[i] \in Tracked
      PROVE  /\ i \in DOMAIN ss /\ symbol_stack[i].cond < c
             /\ symbol_stack[i].cond \in 1 .. Len(conds) /\ symbol_stack[i].cond # c
             /\ ss[i] \in {19, 23, 24} => Frame(i)' = Frame(i)
             /\ ss[i] # 23
  <2>1. i \in DOMAIN ss /\ i \in 1 .. Len(ss) /\ k \in DOMAIN ss /\ i < k /\ k \in i + 1 .. Len(ss)
    BY <1>1, <1>2
  <2>2. symbol_stack[i].cond < c
    BY <1>8, <2>1 DEF RefInv, ParserInv, StackInv, CondsInOrder, Tracked
  <2>3. symbol_stack[i].cond \in 1 .. Len(conds)
    BY <1>8, <2>1, OfCondition DEF TreeInv, Tracked
  <2>4. symbol_stack[i].cond # c
    BY <1>6, <2>2, <2>3, SmallerIsOther, Zenon
  <2>5. status_stack'[i] = status_stack[i] /\ symbol_stack'[i] = symbol_stack[i]
    BY <1>4 DEF KeptTo
  <2>6. ss[i] \in {19, 23, 24} => Frame(i)' = Frame(i)
    BY <1>7, <2>1, <2>3, <2>4, <2>5, FrameStays DEF TreeInv
  <2>7. ss[i] # 23
    <3>1. ASSUME ss[i] = 23 PROVE FALSE
      <4>1. \A j \in i + 1 .. Len(ss) : ss[j] \in {1, 2, 7}
        BY <1>1, <2>1, <3>1, OnCondition DEF TreeInv
      <4> QED BY <2>1, <4>1
    <3> QED BY <3>1
  <2> QED BY <2>1, <2>2, <2>3, <2>4, <2>6, <2>7
<1>9. Frame(n + 1)' = [head |-> IF s = 23 THEN conds[c].entery_block ELSE 0, rest |-> Len(terms) + 2]
  <2>1. conds'[symbol_stack'[n + 1].cond] = x
    BY <1>5, <1>7
  <2>2. CASE s = 17
    BY <1>4, <2>1, <2>2 DEF Frame
  <2>3. CASE s = 23
    BY <1>4, <2>1, <2>3 DEF Frame
  <2> QED BY <2>2, <2>3
<1>10. s = 23 => /\ n + 1 \in Waiting /\ Frame(n + 1) = [head |-> conds[c].entery_block, rest |-> 0]
                 /\ conds[c].entery_block # 0
  <2>1. s = 23 => n + 1 \in Waiting /\ Frame(n + 1) = [head |-> conds[c].entery_block, rest |-> 0]
    BY <1>1, <1>2 DEF Waiting, Frame
  <2>2. s = 23 => Frame(n + 1).head # 0
    BY <2>1 DEF RefInv, ParserInv, StackInv, FramesInOrder
  <2> QED BY <2>1, <2>2
<1>11. s = 17 => n + 1 \notin Waiting
  BY DEF Waiting
<1>12. n + 1 \in Waiting'
  <2>1. n + 1 \in DOMAIN status_stack'
    <3>1. DOMAIN status_stack' = 1 .. Len(status_stack')
      BY StacksNext DEF TreeInv
    <3> QED BY <1>2, <1>4, <3>1
  <2> QED BY <1>4, <2>1 DEF Waiting
<1>13. Inside /\ n >= 2
  <2>1. k \in DOMAIN ss /\ ss[k] \in InsideStatus
    BY <1>1, <1>2 DEF InsideStatus
  <2>2. k >= 2 /\ Inside
    BY <2>1 DEF RefInv, ParserInv, StackInv, BodiesInside
  <2>3. k # 2
    BY <2>2 DEF Inside
  <2> QED BY <2>2, <2>3
<1>14. ASSUME NEW i \in 1 .. n, ss[i] \in {19, 24}
       PROVE  Frame(i).rest < Len(terms) + 2 /\ Frame(i).rest # 0
  <2>1. i \in Waiting
    BY <1>8, <1>14 DEF Waiting, Tracked
  <2>2. Frame(i).rest \in 0 .. Len(terms) /\ Len(terms) \in Nat
    BY <2>1, BlocksNow DEF Frames
  <2>3. Frame(i).rest # 0
    BY <1>14, <2>1 DEF RefInv, ParserInv, StackInv, FramesInOrder
  <2> QED BY <2>2, <2>3
<1>15. \A f \in Lower(n) : f.rest # 0
  BY <1>8, <1>14 DEF Lower, Tracked
<1>16. /\ StackInv' /\ (Inside' <=> Inside)
       /\ Frames = Lower(n) \cup Upper(n) /\ Frames' = Lower(n) \cup Upper(n)'
  <2>1. \A i \in 1 .. n : status_stack[i] \in {19, 23, 24} => Frame(i)' = Frame(i)
    BY <1>8 DEF Tracked
  <2>2. \A i \in 1 .. n : status_stack[i] \in Tracked =>
          symbol_stack[i].cond < symbol_stack'[n + 1].cond
    BY <1>5, <1>8
  <2>3. status_stack'[n + 1] \in {23, 24} => (Frame(n + 1)').head # 0
    BY <1>4, <1>9, <1>10
  <2>4. /\ (Frame(n + 1)').rest # 0
        /\ \A i \in 1 .. n : status_stack[i] \in {19, 24} => Frame(i).rest < (Frame(n + 1)').rest
    <3>1. (Frame(n + 1)').rest = Len(terms) + 2 /\ Len(terms) \in Nat
      BY <1>9, BlocksNow
    <3> QED BY <1>14, <3>1
  <2>5. Len(status_stack') \in {n, n + 1}
    BY <1>4
  <2>6. IInv /\ IInv' /\ StackInv
    BY DEF TreeInv, RefInv, ParserInv
  <2>7. \A i \in n + 2 .. Len(status_stack) : status_stack[i] \notin Loud
    BY DEF Loud
  <2> QED BY <1>4, <1>13, <2>1, <2>2, <2>3, <2>4, <2>5, <2>6, <2>7, TopStack
<1>17. Upper(n) = IF s = 23 THEN {[head |-> conds[c].entery_block, rest |-> 0]} ELSE {}
  BY <1>10, <1>11 DEF Upper
<1>18. Upper(n)' = {[head |-> IF s = 23 THEN conds[c].entery_block ELSE 0, rest |-> Len(terms) + 2]}
  BY <1>9, <1>12 DEF Upper
<1> QED BY <1>13, <1>15, <1>16, <1>17, <1>18

\* What a decision does, whichever statement it is for.
Decides(n, s) ==
  LET b == Len(terms) + 1
      c == symbol_stack[n + 1].cond
  IN
  /\ status_stack' = Append(SubSeq(status_stack, 1, n), IF s = 17 THEN 19 ELSE 24)
  /\ symbol_stack' = SubSeq(symbol_stack, 1, n + 1)
  /\ \E x : /\ conds' = [conds EXCEPT ![c] = x]
            /\ x.entery_block = conds[c].entery_block
            /\ (IF s = 17 THEN x.body2 ELSE x.exit_block) = Len(terms) + 2
            /\ x.live = conds[c].live /\ (s = 17 => x.exit_block = conds[c].exit_block)
  /\ terms' = Terminate(terms, insert_block, {b, b + 1}) \o <<<<>>, <<>>>>
  /\ func_param' = [func_param EXCEPT !.basic_blocks = @ \o <<b, b + 1>>]
  /\ insert_block' = b
  /\ \E m : scopes' = TouchedBy(symbol_stack, m)
  /\ UNCHANGED <<current_node, definitions>>

LEMMA ReducedDecides ==
  ASSUME IInv, NEW t \in Token, NEW m \in 2 .. Len(symbol_stack), reduce_condition_calculate(t, m),
         Len(symbol_stack) = Len(status_stack), Len(status_stack) \in Nat,
         NEW s \in {17, 23}, status_stack[m - 1] = s
  PROVE  (\E o : End(o)) \/ Decides(m - 2, s)
<1> DEFINE n == m - 2
           b == Len(terms) + 1
           c == symbol_stack[m - 1].cond
           x == IF s = 17 THEN [conds[c] EXCEPT !.body1 = b, !.body2 = b + 1]
                ELSE [conds[c] EXCEPT !.body1 = b, !.exit_block = b + 1]
<1>1. n + 1 = m - 1 /\ m - 1 \in 1 .. Len(status_stack) /\ Len(terms) \in Nat /\ b + 1 = Len(terms) + 2
  <2>1. m \in Nat /\ Len(terms) \in Nat
    BY CodeNow DEF TypedCode, IInv, TypeOfCode
  <2> QED BY <2>1
<1>2. conds[c] \in CondOf(MaybeBlock)
  BY <1>1, OfCondition
<1>3. /\ x.entery_block = conds[c].entery_block /\ (IF s = 17 THEN x.body2 ELSE x.exit_block) = b + 1
      /\ x.live = conds[c].live /\ (s = 17 => x.exit_block = conds[c].exit_block)
  BY <1>2 DEF CondOf
\* Decides, in terms of the entry decided.
<1>7. /\ status_stack' = Append(SubSeq(status_stack, 1, m - 2), IF s = 17 THEN 19 ELSE 24)
      /\ symbol_stack' = SubSeq(symbol_stack, 1, m - 1)
      /\ conds' = [conds EXCEPT ![c] = x]
      /\ terms' = Terminate(terms, insert_block, {b, b + 1}) \o <<<<>>, <<>>>>
      /\ func_param' = [func_param EXCEPT !.basic_blocks = @ \o <<b, b + 1>>]
      /\ insert_block' = b
      /\ scopes' = TouchedBy(symbol_stack, m)
      /\ UNCHANGED <<current_node, definitions>>
      => Decides(m - 2, s)
  <2> SUFFICES ASSUME NEW k, k = m - 2, k + 1 = m - 1
               PROVE  (/\ status_stack' = Append(SubSeq(status_stack, 1, k), IF s = 17 THEN 19 ELSE 24)
                       /\ symbol_stack' = SubSeq(symbol_stack, 1, k + 1)
                       /\ conds' = [conds EXCEPT ![c] = x]
                       /\ terms' = Terminate(terms, insert_block, {b, b + 1}) \o <<<<>>, <<>>>>
                       /\ func_param' = [func_param EXCEPT !.basic_blocks = @ \o <<b, b + 1>>]
                       /\ insert_block' = b
                       /\ scopes' = TouchedBy(symbol_stack, m)
                       /\ UNCHANGED <<current_node, definitions>>) => Decides(k, s)
    BY <1>1
  <2>1. c = symbol_stack[k + 1].cond
    OBVIOUS
  <2>2. /\ x.entery_block = conds[c].entery_block
        /\ (IF s = 17 THEN x.body2 ELSE x.exit_block) = Len(terms) + 2
        /\ x.live = conds[c].live /\ (s = 17 => x.exit_block = conds[c].exit_block)
    BY <1>1, <1>3
  <2> HIDE DEF x, c
  <2> QED BY <2>1, <2>2, Zenon DEF Decides
<1>4. CASE \E o : End(o)
  BY <1>4
<1>5. CASE ~ \E o : End(o)
  <2>3. \/ status_stack[m - 1] = 17 /\ status_stack' = Append(SubSeq(status_stack, 1, m - 2), 19)
        \/ status_stack[m - 1] = 23 /\ status_stack' = Append(SubSeq(status_stack, 1, m - 2), 24)
        \/ status_stack[m - 1] \notin {17, 23}
    BY <1>5 DEF reduce_condition_calculate
  <2>1. CASE s = 17
    <3>1. /\ conds' = [conds EXCEPT ![c] = [@ EXCEPT !.body1 = b, !.body2 = b + 1]]
          /\ status_stack' = Append(SubSeq(status_stack, 1, m - 2), 19)
          /\ symbol_stack' = SubSeq(symbol_stack, 1, m - 1)
          /\ terms' = Terminate(terms, insert_block, {b, b + 1}) \o <<<<>>, <<>>>>
          /\ func_param' = [func_param EXCEPT !.basic_blocks = @ \o <<b, b + 1>>]
          /\ insert_block' = b
          /\ scopes' = TouchedBy(symbol_stack, m)
          /\ UNCHANGED <<current_node, definitions>>
      <4>1. conds' = [conds EXCEPT ![c] = [@ EXCEPT !.body1 = b, !.body2 = b + 1]]
        BY <1>5, <2>1 DEF reduce_condition_calculate
      <4>2. status_stack' = Append(SubSeq(status_stack, 1, m - 2), 19)
        BY <2>1, <2>3
      <4>3. /\ terms' = Terminate(terms, insert_block, {b, b + 1}) \o <<<<>>, <<>>>>
            /\ func_param' = [func_param EXCEPT !.basic_blocks = @ \o <<b, b + 1>>]
            /\ insert_block' = b
        BY <1>5, <2>1 DEF reduce_condition_calculate
      <4>4. /\ symbol_stack' = SubSeq(symbol_stack, 1, m - 1)
            /\ scopes' = TouchedBy(symbol_stack, m)
            /\ UNCHANGED <<current_node, definitions>>
        BY <1>5 DEF reduce_condition_calculate, module
      <4> QED BY <4>1, <4>2, <4>3, <4>4
    <3>2. conds' = [conds EXCEPT ![c] = x]
      BY <2>1, <3>1
    <3>3. status_stack' = Append(SubSeq(status_stack, 1, m - 2), IF s = 17 THEN 19 ELSE 24)
      BY <2>1, <3>1
    <3> HIDE DEF x, c, b
    <3> QED BY <1>7, <3>1, <3>2, <3>3, Zenon
  <2>2. CASE s = 23
    <3>1. /\ conds' = [conds EXCEPT ![c] = [@ EXCEPT !.body1 = b, !.exit_block = b + 1]]
          /\ status_stack' = Append(SubSeq(status_stack, 1, m - 2), 24)
          /\ symbol_stack' = SubSeq(symbol_stack, 1, m - 1)
          /\ terms' = Terminate(terms, insert_block, {b, b + 1}) \o <<<<>>, <<>>>>
          /\ func_param' = [func_param EXCEPT !.basic_blocks = @ \o <<b, b + 1>>]
          /\ insert_block' = b
          /\ scopes' = TouchedBy(symbol_stack, m)
          /\ UNCHANGED <<current_node, definitions>>
      <4>1. conds' = [conds EXCEPT ![c] = [@ EXCEPT !.body1 = b, !.exit_block = b + 1]]
        BY <1>5, <2>2 DEF reduce_condition_calculate
      <4>2. status_stack' = Append(SubSeq(status_stack, 1, m - 2), 24)
        BY <2>2, <2>3
      <4>3. /\ terms' = Terminate(terms, insert_block, {b, b + 1}) \o <<<<>>, <<>>>>
            /\ func_param' = [func_param EXCEPT !.basic_blocks = @ \o <<b, b + 1>>]
            /\ insert_block' = b
        BY <1>5, <2>2 DEF reduce_condition_calculate
      <4>4. /\ symbol_stack' = SubSeq(symbol_stack, 1, m - 1)
            /\ scopes' = TouchedBy(symbol_stack, m)
            /\ UNCHANGED <<current_node, definitions>>
        BY <1>5 DEF reduce_condition_calculate, module
      <4> QED BY <4>1, <4>2, <4>3, <4>4
    <3>2. conds' = [conds EXCEPT ![c] = x]
      BY <2>2, <3>1
    <3>3. status_stack' = Append(SubSeq(status_stack, 1, m - 2), IF s = 17 THEN 19 ELSE 24)
      BY <2>2, <3>1
    <3> HIDE DEF x, c, b
    <3> QED BY <1>7, <3>1, <3>2, <3>3, Zenon
  <2> QED BY <2>1, <2>2
<1> QED BY <1>4, <1>5

LEMMA DecideSimulates ==
  ASSUME TreeInv, TreeInv', RefInv, NEW t \in Token, NEW m \in 2 .. Len(symbol_stack),
         reduce_condition_calculate(t, m), NEW s \in {17, 23}, status_stack[m - 1] = s
  PROVE  Simulates
<1> SUFFICES ASSUME NEW n, n = m - 2 PROVE Simulates
  OBVIOUS
<1>1. CurrentStatus(t) = 2 /\ LoopStart(symbol_stack, last_priority, m)
  BY OnStatement DEF TreeInv
<1>2. /\ \A i \in m .. Len(status_stack) : status_stack[i] \in {2, 7}
      /\ m \in 2 .. Len(status_stack) /\ Len(status_stack) \in Nat
      /\ Len(symbol_stack) = Len(status_stack)
  <2>1. IInv /\ Flat(status_stack)
    BY DEF TreeInv
  <2> QED BY <1>1, <2>1, HushedSuffix, Stacks
<1>3. n \in Nat /\ n + 1 \in 1 .. Len(status_stack) /\ n + 1 = m - 1 /\ n + 2 = m
  BY <1>2
<1>4. (\E o : End(o)) \/ Decides(n, s)
  BY <1>2, ReducedDecides DEF TreeInv
<1>5. CASE \E o : End(o)
  BY <1>5, EndSimulates
<1>6. CASE Decides(n, s)
  <2> DEFINE b == Len(terms) + 1
             c == symbol_stack[n + 1].cond
             head == IF s = 23 THEN conds[c].entery_block ELSE 0
  <2>1. Len(terms) \in Nat /\ b + 1 = Len(terms) + 2
    BY BlocksNow
  <2>2. /\ StackInv' /\ Inside /\ Inside'
        /\ Frames = Lower(n) \cup (IF s = 23 THEN {[head |-> head, rest |-> 0]} ELSE {})
        /\ Frames' = Lower(n) \cup {[head |-> head, rest |-> b + 1]}
        /\ \A f \in Lower(n) : f.rest # 0
    <3>1. PICK x : /\ conds' = [conds EXCEPT ![c] = x]
                   /\ x.entery_block = conds[c].entery_block
                   /\ (IF s = 17 THEN x.body2 ELSE x.exit_block) = Len(terms) + 2
      BY <1>6 DEF Decides
    <3>2. /\ status_stack' = Append(SubSeq(status_stack, 1, n), IF s = 17 THEN 19 ELSE 24)
          /\ symbol_stack' = SubSeq(symbol_stack, 1, n + 1)
      BY <1>6 DEF Decides
    <3>3. status_stack[n + 1] = s /\ \A i \in n + 2 .. Len(status_stack) : status_stack[i] \in {2, 7}
      BY <1>2, <1>3
    <3>4. s = 23 => x.entery_block = conds[c].entery_block
      BY <3>1
    <3>5. c = symbol_stack[n + 1].cond
      OBVIOUS
    <3> HIDE DEF c, b
    <3>6. /\ StackInv' /\ Inside /\ Inside'
          /\ Frames = Lower(n) \cup (IF s = 23 THEN {[head |-> head, rest |-> 0]} ELSE {})
          /\ Frames' = Lower(n) \cup {[head |-> head, rest |-> Len(terms) + 2]}
          /\ \A f \in Lower(n) : f.rest # 0
      <4>1. \A i \in n + 2 .. Len(status_stack) : status_stack[i] \in {2, 7}
        BY <3>3
      <4>2. conds' = [conds EXCEPT ![c] = x]
        BY <3>1
      <4>3. (IF s = 17 THEN x.body2 ELSE x.exit_block) = Len(terms) + 2
        BY <3>1
      <4>4. CurrentStatus(t) = 2 /\ n \in Nat /\ n + 1 \in 1 .. Len(status_stack)
        BY <1>1, <1>3
      <4>5. status_stack[n + 1] = s
        BY <3>3
      <4> HIDE DEF head
      <4> QED BY ZenonT(90), <3>2, <3>4, <3>5, <4>1, <4>2, <4>3, <4>4, <4>5, DecidedStacks DEF head
    <3> QED BY <2>1, <3>6
  <2>3. ~scopes[current_node].has_return
    BY OpenNow DEF reduce_condition_calculate, On, Finisher
  <2>4. /\ terms[insert_block] = <<>> /\ func_param.basic_blocks # <<>> /\ insert_block # 0
        /\ Proofs!Open /\ ~Proofs!Ended
    BY <2>2, <2>3, OpenBlock
  <2>5. StaysOpen /\ definitions' = definitions
    <3>1. Grows(scopes') /\ current_node' = current_node /\ definitions' = definitions
      BY <1>6, GrowsTouched DEF Decides, TreeInv
    <3> QED BY <2>3, <3>1, OpenStep DEF TreeInv
  <2>6. ReturnedWereDefined'
    BY <2>3, <2>5, DefinedKept DEF RefInv, ParserInv, StaysOpen
  <2>7. /\ func_param'.basic_blocks = func_param.basic_blocks \o <<b, b + 1>>
        /\ func_param'.basic_blocks # <<>>
        /\ func_param'.return_block = func_param.return_block
    <3>1. func_param' = [func_param EXCEPT !.basic_blocks = @ \o <<b, b + 1>>] /\ IInv
      BY <1>6 DEF Decides, TreeInv
    <3> HIDE DEF b
    <3>2. \A a, d : /\ [func_param EXCEPT !.basic_blocks = @ \o <<a, d>>].basic_blocks =
                         func_param.basic_blocks \o <<a, d>>
                    /\ [func_param EXCEPT !.basic_blocks = @ \o <<a, d>>].return_block =
                         func_param.return_block
                    /\ func_param.basic_blocks \o <<a, d>> # <<>>
      BY <3>1, ParamGrows
    <3>3. /\ func_param'.basic_blocks = func_param.basic_blocks \o <<b, b + 1>>
          /\ func_param'.return_block = func_param.return_block
          /\ func_param.basic_blocks \o <<b, b + 1>> # <<>>
      BY <3>1, <3>2, Zenon
    <3> QED BY <3>3, Zenon
  <2>8. terms'[insert_block'] = <<>>
    <3>1. b + 1 \in Nat /\ {b, b + 1} \in SUBSET (0 .. b + 1)
      BY <2>1
    <3>2. (Terminate(terms, insert_block, {b, b + 1}) \o <<<<>>, <<>>>>)[b] = <<>>
      BY <2>1, <3>1, EndedBlock DEF TreeInv
    <3> QED BY <1>6, <3>2 DEF Decides
  <2>9. ParserInv'
    <3>1. insert_block' # 0
      BY <1>6, <2>1 DEF Decides
    <3> QED BY <2>2, <2>5, <2>6, <2>7, <2>8, <3>1, OpenHolds DEF StaysOpen
  <2>10. Proofs!Decide
    <3> DEFINE undecided == {f \in Frames : f.rest = 0}
               heads == IF Proofs!Deciding THEN {f.head : f \in undecided} ELSE {0}
    <3>1. heads = {head} /\ Frames \ undecided = Lower(n)
      <4>1. CASE s = 17
        <5>1. undecided = {} /\ ~Proofs!Deciding
          BY <2>2, <4>1 DEF Proofs!Deciding
        <5> QED BY <2>2, <4>1, <5>1
      <4>2. CASE s = 23
        <5> DEFINE f == [head |-> head, rest |-> 0]
        <5>1. f.rest = 0 /\ f.head = head
          OBVIOUS
        <5>2. Frames = Lower(n) \cup {f} /\ \A g \in Lower(n) : g.rest # 0
          BY <2>2, <4>2
        <5> HIDE DEF f, head
        <5>3. undecided = {f} /\ Proofs!Deciding
          BY <5>1, <5>2 DEF Proofs!Deciding
        <5>4. Frames \ undecided = Lower(n)
          BY <5>1, <5>2, <5>3
        <5>5. heads = {head}
          BY <5>1, <5>3
        <5> QED BY <5>4, <5>5
      <4> QED BY <4>1, <4>2
    <3>2. Frames' = (Frames \ undecided) \cup {[head |-> h, rest |-> b + 1] : h \in heads}
      BY <2>2, <3>1
    <3>3. /\ terms' = Terminate(terms, insert_block, {b, b + 1}) \o <<<<>>, <<>>>>
          /\ insert_block' = b
      BY <1>6 DEF Decides
    <3> QED BY <2>4, <2>5, <2>7, <3>2, <3>3
         DEF Proofs!Decide, Proofs!Ending, Proofs!New, Proofs!Frame, Terminate, Defined
  <2> QED BY <2>9, <2>10 DEF Simulates, Proofs!Next
<1> QED BY <1>4, <1>5, <1>6

\* A new block behind those that are changed.
LEMMA EndingThenNew ==
  ASSUME NEW S, NEW blocks \in Seq(S), NEW i \in 1 .. Len(blocks), NEW x \in S, NEW y
  PROVE  [Append(blocks, x) EXCEPT ![i] = y] = Append([blocks EXCEPT ![i] = y], x)
<1> DEFINE a == [Append(blocks, x) EXCEPT ![i] = y]
           e == [blocks EXCEPT ![i] = y]
           k == Len(blocks)
<1>1. /\ k \in Nat /\ blocks \in [1 .. k -> S]
      /\ Append(blocks, x) \in [1 .. k + 1 -> S]
      /\ \A j \in 1 .. k : Append(blocks, x)[j] = blocks[j]
      /\ Append(blocks, x)[k + 1] = x
  <2>1. /\ Append(blocks, x) \in Seq(S) /\ Len(Append(blocks, x)) = Len(blocks) + 1
        /\ \A j \in 1 .. Len(blocks) : Append(blocks, x)[j] = blocks[j]
        /\ Append(blocks, x)[Len(blocks) + 1] = x
    BY AppendProperties
  <2>2. Len(blocks) \in Nat /\ blocks \in [1 .. Len(blocks) -> S]
    BY LenProperties
  <2>3. Append(blocks, x) \in [1 .. Len(Append(blocks, x)) -> S]
    BY <2>1, LenProperties
  <2> QED BY <2>1, <2>2, <2>3
<1>2. e \in Seq(S \cup {y}) /\ Len(e) = k /\ \A j \in 1 .. k : e[j] = IF j = i THEN y ELSE blocks[j]
  OBVIOUS
<1>3. /\ Append(e, x) \in [1 .. k + 1 -> S \cup {y}]
      /\ \A j \in 1 .. k : Append(e, x)[j] = e[j]
      /\ Append(e, x)[k + 1] = x
  <2>1. x \in S \cup {y}
    OBVIOUS
  <2> HIDE DEF e, a
  <2>2. /\ Append(e, x) \in Seq(S \cup {y}) /\ Len(Append(e, x)) = Len(e) + 1
        /\ \A j \in 1 .. Len(e) : Append(e, x)[j] = e[j]
        /\ Append(e, x)[Len(e) + 1] = x
    BY <1>2, <2>1, AppendProperties
  <2>3. Append(e, x) \in [1 .. Len(Append(e, x)) -> S \cup {y}]
    BY <2>2, LenProperties
  <2> HIDE DEF k
  <2> QED BY <1>2, <2>2, <2>3
<1>4. /\ a \in [1 .. k + 1 -> S \cup {y}]
      /\ \A j \in 1 .. k + 1 : a[j] = IF j = i THEN y ELSE Append(blocks, x)[j]
  BY <1>1
<1>5. \A j \in 1 .. k + 1 : j \in 1 .. k \/ j = k + 1
  BY <1>1
<1>6. i # k + 1
  BY <1>1
<1> HIDE DEF a, e, k
<1>7. \A j \in 1 .. k + 1 : a[j] = Append(e, x)[j]
  BY <1>1, <1>2, <1>3, <1>4, <1>5, <1>6
<1> QED BY <1>3, <1>4, <1>7 DEF a, e

LEMMA Appended ==
  ASSUME NEW S, NEW s \in Seq(S), NEW x
  PROVE  Append(s, x) # <<>>
<1>1. s \in Seq(S \cup {x}) /\ x \in S \cup {x}
  OBVIOUS
<1> QED BY <1>1, AppendProperties

\* A block that is ended is not empty, and the others stay.
LEMMA EndingWrites ==
  ASSUME RefInv, Inside, NEW T
  PROVE  /\ Terminate(terms, insert_block, T)[insert_block] # <<>>
         /\ Terminate(terms, insert_block, T) = Proofs!Ending(T)
         /\ Len(Terminate(terms, insert_block, T)) = Len(terms)
         /\ \A b \in 1 .. Len(terms) :
              b # insert_block => Terminate(terms, insert_block, T)[b] = terms[b]
         /\ Terminate(Append(terms, <<{}>>), insert_block, T) =
              Append(Terminate(terms, insert_block, T), <<{}>>)
         /\ Append(Terminate(terms, insert_block, T), <<{}>>)[insert_block] # <<>>
<1> DEFINE i == insert_block
           E == Terminate(terms, i, T)
           S == Seq(SUBSET Nat)
           x == <<{}>>
           y == Append(terms[i], T)
<1>1. terms \in Seq(S) /\ i \in 1 .. Len(terms) /\ x \in S
  BY BlocksNow
<1>2. y # <<>>
  <2>1. terms[i] \in Seq(SUBSET Nat)
    BY <1>1
  <2> QED BY <2>1, Appended
<1>3. E = [terms EXCEPT ![i] = y] /\ E = Proofs!Ending(T)
  BY DEF Terminate, Proofs!Ending
<1>4. Append(terms, x)[i] = terms[i]
  <2> HIDE DEF S, x, i
  <2> QED BY <1>1
<1>5. Terminate(Append(terms, x), i, T) = [Append(terms, x) EXCEPT ![i] = y]
  BY <1>4 DEF Terminate
<1> HIDE DEF E, S, x, y, i
<1>6. [Append(terms, x) EXCEPT ![i] = y] = Append([terms EXCEPT ![i] = y], x)
  BY <1>1, EndingThenNew
<1>7. /\ E \in Seq(S \cup {y}) /\ E[i] = y /\ Len(E) = Len(terms)
      /\ \A b \in 1 .. Len(terms) : b # i => E[b] = terms[b]
  BY <1>1, <1>3
<1>8. Append(E, x)[i] = y
  BY <1>1, <1>7
<1> QED BY <1>2, <1>3, <1>5, <1>6, <1>7, <1>8 DEF E, i, x

LEMMA ReturnSimulates ==
  ASSUME TreeInv, TreeInv', RefInv, NEW t \in Token, NEW m \in 2 .. Len(symbol_stack),
         return_statement(t, m)
  PROVE  Simulates
<1> DEFINE ss == status_stack
           first == func_param.return_block = 0
           target == IF first THEN Len(terms) + 1 ELSE func_param.return_block
           touched == TouchedBy(symbol_stack, m)
<1>1. CurrentStatus(t) = 2 /\ LoopStart(symbol_stack, last_priority, m) /\ ss[m - 1] = 16
  <2>1. IInv
    BY DEF TreeInv
  <2>2. CurrentStatus(t) = 2 /\ LoopStart(symbol_stack, last_priority, m)
    BY <2>1, OnStatement
  <2>3. ss[m - 1] = 16
    BY DEF return_statement
  <2> QED BY <2>2, <2>3
<1>2. /\ \A i \in m .. Len(ss) : ss[i] \in {2, 7}
      /\ m \in 2 .. Len(ss) /\ Len(ss) \in Nat /\ DOMAIN ss = 1 .. Len(ss)
      /\ Len(symbol_stack) = Len(ss)
  <2>1. IInv /\ Flat(status_stack)
    BY DEF TreeInv
  <2> QED BY <1>1, <2>1, HushedSuffix, Stacks
<1>3. /\ m - 2 \in 0 .. Len(ss) /\ m - 1 \in 1 .. Len(ss) /\ m - 2 \in m - 2 .. Len(ss)
      /\ \A i \in m - 1 .. Len(ss) : i = m - 1 \/ i \in m .. Len(ss)
      /\ m - 2 + 1 = m - 1 /\ m - 1 + 1 = m
  BY <1>2
<1>4. Hushed(ss, m - 2)
  BY <1>1, <1>2, <1>3 DEF Hushed, Loud
<1>5. /\ \A f \in Frames : f.rest # 0
      /\ Inside
  <2>1. ss[m - 1] \notin {1, 2, 7, 23} /\ \A i \in m - 1 + 1 .. Len(ss) : ss[i] # 23
    BY <1>1, <1>2, <1>3
  <2>2. \A f \in Frames : f.rest # 0
    BY <1>3, <2>1, NotDeciding
  <2>3. Inside
    BY <1>1, <1>2, <1>3 DEF RefInv, ParserInv, StackInv, BodiesInside, InsideStatus
  <2> QED BY <2>2, <2>3
<1>6. ~scopes[current_node].has_return
  BY OpenNow DEF return_statement, OnSemicolon, On, Finisher
<1>7. /\ terms[insert_block] = <<>> /\ func_param.basic_blocks # <<>> /\ insert_block # 0
      /\ Proofs!Open /\ ~Proofs!Ended /\ ~Proofs!Deciding
  BY <1>5, <1>6, OpenBlock DEF Proofs!Deciding
<1>8. CASE \E o : End(o)
  BY <1>8, EndSimulates
<1>9. CASE ~ \E o : End(o)
  <2>1. /\ terms' = Terminate(IF first THEN Append(terms, <<{}>>) ELSE terms, insert_block, {target})
        /\ func_param' = [func_param EXCEPT !.return_block = target]
        /\ scopes' = [touched EXCEPT ![current_node].has_return = TRUE]
        /\ symbol_stack' = SubSeq(symbol_stack, 1, m - 2)
        /\ status_stack' = SubSeq(status_stack, 1, m - 2)
        /\ UNCHANGED <<current_node, conds, definitions, insert_block>>
    BY <1>9 DEF return_statement, module
  <2>2. Calm
    BY <1>1, <1>3, <1>4, <2>1, CalmExpression DEF TreeInv
  <2>3. StackInv' /\ (Inside' <=> Inside) /\ Frames' = Frames
    <3>1. CondsKept
      BY <2>1, KeptConds DEF TreeInv
    <3> QED BY <2>2, <3>1, CalmStack DEF TreeInv, RefInv, ParserInv
  <2>4. func_param'.basic_blocks = func_param.basic_blocks /\ func_param'.return_block = target
    <3> HIDE DEF target
    <3> QED BY <2>1, ParamGrows DEF TreeInv
  <2>5. /\ terms' = IF first THEN Append(Proofs!Ending({target}), <<{}>>) ELSE Proofs!Ending({target})
        /\ terms'[insert_block] # <<>>
    <3> HIDE DEF target, first
    <3> QED BY <1>5, <2>1, EndingWrites
  <2>6. /\ DOMAIN scopes' = DOMAIN scopes /\ scopes'[current_node].has_return
        /\ \A p \in DOMAIN scopes : p # current_node => (scopes'[p].has_return = scopes[p].has_return)
    <3>1. /\ DOMAIN touched = DOMAIN scopes
          /\ \A p \in DOMAIN scopes : touched[p] \in Node /\ touched[p].has_return = scopes[p].has_return
      BY TouchTree DEF TreeInv
    <3>2. current_node \in DOMAIN scopes
      BY DEF TreeInv, InTree
    <3> HIDE DEF touched
    <3> QED BY <2>1, <3>1, <3>2, ReturnTree
  <2>7. ReturnedWereDefined'
    BY <2>1, <2>6 DEF RefInv, ParserInv, ReturnedWereDefined
  <2>8. ParserInv'
    <3>1. ReturnedIsRight'
      BY <2>1, <2>5, <2>6 DEF ReturnedIsRight
    <3>2. FunctionIsParsed'
      BY <1>5, <1>7, <2>1, <2>3, <2>4 DEF FunctionIsParsed
    <3>3. DefinitionsTyped'
      BY <2>1 DEF RefInv, ParserInv, DefinitionsTyped
    <3> QED BY <2>3, <2>7, <3>1, <3>2, <3>3 DEF ParserInv
  <2>9. Proofs!Return
    BY <1>7, <2>1, <2>3, <2>4, <2>5 DEF Proofs!Return, Proofs!New, Defined
  <2> QED BY <2>8, <2>9 DEF Simulates, Proofs!Next
<1> QED BY <1>8, <1>9

\* The body at the top of the stack ends.
Leaves(t) ==
  LET N == Len(Statuses(t)) IN
  \/ status_stack' = SubSeq(Statuses(t), 1, N - 1) /\ symbol_stack' = SubSeq(Symbols(t), 1, N - 1)
  \/ status_stack' = Append(SubSeq(Statuses(t), 1, N - 1), 20) /\ symbol_stack' = SubSeq(Symbols(t), 1, N)

LEMMA LeftStacks ==
  ASSUME TreeInv, TreeInv', RefInv, NEW t \in Token, CurrentStatus(t) \in {19, 24}, Leaves(t), CondsKept,
         NEW N, N = Len(Statuses(t))
  PROVE  /\ StackInv' /\ Inside /\ Inside'
         /\ N \in Waiting /\ Frame(N).rest # 0
         /\ Frames' = Frames \ {Frame(N)}
         /\ \A g \in Frames : g.rest \in 1 .. Frame(N).rest
         /\ TopOf(status_stack) # 15
<1> DEFINE ss == status_stack
<1>1. /\ N \in Nat /\ N >= 2 /\ N \in 1 .. Len(ss) /\ Len(ss) \in Nat
      /\ ss[N] \in {19, 24} /\ Len(Symbols(t)) = N
      /\ \A i \in N + 1 .. Len(ss) : ss[i] = 20
      /\ Inside /\ DOMAIN ss = 1 .. Len(ss)
  <2>1. CurrentStatus(t) \in InBody
    BY DEF InBody
  <2> QED BY <2>1, BodyNow, Stacks DEF TreeInv
<1> SUFFICES ASSUME NEW n \in Nat, N = n + 1, n >= 2
             PROVE  /\ StackInv' /\ Inside /\ Inside'
                    /\ N \in Waiting /\ Frame(N).rest # 0
                    /\ Frames' = Frames \ {Frame(N)}
                    /\ \A g \in Frames : g.rest \in 1 .. Frame(N).rest
                    /\ TopOf(status_stack) # 15
  <2>1. N # 2
    BY <1>1 DEF Inside
  <2>2. N - 1 \in Nat /\ N = N - 1 + 1 /\ N - 1 >= 2
    BY <1>1, <2>1
  <2> QED BY <2>2
<1>2. N \in Waiting /\ N \in DOMAIN ss
  BY <1>1 DEF Waiting
<1>3. N - 1 = n /\ n \in 0 .. N /\ n \in n .. N /\ N \in n .. N
  OBVIOUS
<1>4. Cuts(t, n)
  BY <1>1, <1>3 DEF Cuts, Leaves
<1>5. KeptTo(n) /\ (Len(status_stack') = n \/ (Len(status_stack') = n + 1 /\ status_stack'[n + 1] = 20))
  <2>1. /\ IInv /\ IInv'
        /\ \/ status_stack' = SubSeq(Statuses(t), 1, n)
           \/ status_stack' = Append(SubSeq(Statuses(t), 1, n), 20)
    BY <1>3 DEF TreeInv, Leaves
  <2>2. \/ status_stack' = SubSeq(Statuses(t), 1, n)
        \/ \E s : status_stack' = Append(SubSeq(Statuses(t), 1, n), s)
    BY <2>1
  <2>3. /\ KeptTo(n)
        /\ status_stack' = SubSeq(Statuses(t), 1, n) => Len(status_stack') = n
        /\ \A s : status_stack' = Append(SubSeq(Statuses(t), 1, n), s) =>
              Len(status_stack') = n + 1 /\ status_stack'[n + 1] = s
    BY <1>4, <2>1, <2>2, Keeping
  <2> QED BY <2>1, <2>3
<1>6. /\ \A i \in 1 .. Len(ss) : ss[i] # 23
      /\ \A f \in Frames : f.rest # 0
  <2>1. ss[N] \notin {1, 2, 7, 23} /\ \A i \in N + 1 .. Len(ss) : ss[i] # 23
    BY <1>1
  <2> QED BY <1>1, <2>1, NotDeciding
<1>7. ASSUME NEW i \in 1 .. n, ss[i] \in {19, 23, 24}
      PROVE  /\ i \in Waiting /\ i < N /\ ss[i] \in {19, 24}
             /\ Frame(i)' = Frame(i) /\ Frame(i).rest < Frame(N).rest
  <2>1. i \in 1 .. Len(ss) /\ i < N
    BY <1>1
  <2>2. i \in Waiting /\ ss[i] \in {19, 24}
    BY <1>1, <1>6, <1>7, <2>1 DEF Waiting
  <2>3. Frame(i).rest < Frame(N).rest
    BY <1>1, <1>2, <2>1, <2>2 DEF RefInv, ParserInv, StackInv, FramesInOrder
  <2>4. status_stack'[i] = status_stack[i] /\ symbol_stack'[i] = symbol_stack[i]
    BY <1>5 DEF KeptTo
  <2>5. symbol_stack[i].cond \in 1 .. Len(conds)
    BY <1>7, <2>1, OfCondition DEF TreeInv
  <2>6. Frame(i)' = Frame(i)
    BY <1>7, <2>1, <2>4, <2>5, FrameStays DEF CondsKept, TreeInv
  <2> QED BY <2>1, <2>2, <2>3, <2>6
<1>8. /\ StackInv' /\ (Inside' <=> Inside)
      /\ Frames = Lower(n) \cup Upper(n) /\ Frames' = Lower(n) \cup Upper(n)'
  <2>1. IInv /\ IInv' /\ StackInv
    BY DEF TreeInv, RefInv, ParserInv
  <2>2. \A i \in n + 2 .. Len(ss) : ss[i] \notin Loud
    BY <1>1 DEF Loud
  <2>3. Len(status_stack') = n + 1 => status_stack'[n + 1] = 20
    BY <1>5
  <2>4. Len(status_stack') \in {n, n + 1}
    BY <1>5
  <2> QED BY <1>5, <1>7, <2>1, <2>2, <2>3, <2>4, TopStack DEF Tracked
<1>9. Upper(n) = {Frame(N)}
  BY <1>2 DEF Upper
<1>10. Upper(n)' = {}
  <2>1. n + 1 \notin Waiting'
    <3>1. DOMAIN status_stack' = 1 .. Len(status_stack')
      BY StacksNext DEF TreeInv
    <3>2. n + 1 \notin 1 .. n
      BY <1>1
    <3>3. CASE Len(status_stack') = n
      BY <3>1, <3>2, <3>3 DEF Waiting
    <3>4. CASE status_stack'[n + 1] = 20
      BY <3>4 DEF Waiting
    <3> QED BY <1>5, <3>3, <3>4
  <2> QED BY <2>1 DEF Upper
<1>11. \A g \in Lower(n) : g.rest < Frame(N).rest
  BY <1>7 DEF Lower
<1>12. \A g \in Frames : g.rest \in Nat /\ g.rest # 0
  <2>1. Len(terms) \in Nat /\ \A g \in Frames : g.rest \in 0 .. Len(terms)
    BY BlocksNow
  <2> QED BY <1>6, <2>1
<1>13. Frame(N) \in Frames
  BY <1>2 DEF Frames
<1>14. Frames' = Frames \ {Frame(N)}
  <2>1. Frame(N) \notin Lower(n)
    BY <1>11, <1>12, <1>13
  <2> QED BY <1>8, <1>9, <1>10, <2>1
<1>15. \A g \in Frames : g.rest \in 1 .. Frame(N).rest
  BY <1>8, <1>9, <1>11, <1>12, <1>13
<1>16. TopOf(ss) # 15
  <2>1. ss # <<>> /\ TopOf(ss) = ss[Len(ss)]
    <3>1. Len(ss) # 0
      BY <1>1
    <3>2. ss # <<>>
      BY <3>1
    <3> QED BY <3>2 DEF TopOf
  <2>2. Len(ss) = N \/ Len(ss) \in N + 1 .. Len(ss)
    <3>1. Len(ss) \in Nat /\ N \in 1 .. Len(ss)
      BY <1>1
    <3> HIDE DEF ss
    <3> QED BY <3>1
  <2>3. ss[N] # 15 /\ \A i \in N + 1 .. Len(ss) : ss[i] # 15
    BY <1>1
  <2> QED BY <2>1, <2>2, <2>3
<1> QED BY <1>1, <1>2, <1>8, <1>12, <1>13, <1>14, <1>15, <1>16

LEMMA GoOnSimulates ==
  ASSUME TreeInv, TreeInv', RefInv, NEW t \in Token, CurrentStatus(t) \in {19, 24}, Leaves(t), CondsKept,
         NEW N, N = Len(Statuses(t)),
         terms' = IF Frame(N).head # 0 THEN Terminate(terms, insert_block, {Frame(N).head})
                  ELSE IF scopes[current_node].has_return THEN terms
                  ELSE Terminate(terms, insert_block, {Frame(N).rest}),
         insert_block' = Frame(N).rest, leave_scope,
         UNCHANGED <<scopes, func_param, definitions>>
  PROVE  Simulates
<1>1. /\ StackInv' /\ Inside /\ Inside'
      /\ N \in Waiting /\ Frame(N).rest # 0
      /\ Frames' = Frames \ {Frame(N)}
      /\ \A g \in Frames : g.rest \in 1 .. Frame(N).rest
      /\ TopOf(status_stack) # 15
  BY LeftStacks
<1> SUFFICES ASSUME NEW f, f = Frame(N) PROVE Simulates
  OBVIOUS
<1>2. f \in Frames
  BY <1>1 DEF Frames
<1>3. /\ f.rest \in 1 .. Len(terms) /\ terms[f.rest] = <<>> /\ f.rest # insert_block
      /\ func_param.basic_blocks # <<>>
  BY <1>1, <1>2, BlocksNow DEF Proofs!Open
<1>4. scopes[current_node].has_return <=> Proofs!Ended
  BY <1>1 DEF RefInv, ParserInv, ReturnedIsRight, Proofs!Ended
<1>5. terms' = IF f.head # 0 THEN Proofs!Ending({f.head})
               ELSE IF Proofs!Ended THEN terms ELSE Proofs!Ending({f.rest})
  BY <1>1, <1>4, EndingWrites
<1>6. terms'[insert_block'] = <<>>
  <2>1. CASE terms' = terms
    BY <1>3, <2>1
  <2>2. ASSUME NEW T, terms' = Terminate(terms, insert_block, T) PROVE terms'[insert_block'] = <<>>
    BY <1>1, <1>3, <2>2, EndingWrites
  <2>3. terms' = terms \/ \E T : terms' = Terminate(terms, insert_block, T)
    OBVIOUS
  <2> QED BY <2>1, <2>2, <2>3
<1>7. Len(current_node) >= 2 /\ Len(current_node) \in Nat
  <2>1. N \in 1 .. Len(status_stack) /\ status_stack[N] \in Tracked
    BY <1>1, Stacks DEF Waiting, Tracked, TreeInv
  <2> QED BY <2>1, DeepInside
<1>8. ~scopes'[current_node'].has_return
  <2>1. Len(current_node) >= 1
    BY <1>7
  <2>2. ~scopes[Pop(current_node, 1)].has_return
    <3>1. InTree /\ ReturnedInv
      BY DEF TreeInv
    <3> QED BY <2>1, <3>1, OuterOpen
  <2> QED BY <2>2 DEF leave_scope
<1>9. ReturnedWereDefined'
  <2>1. Len(current_node) # 1
    BY <1>7, AtLeastTwo, Zenon
  <2>2. Grows(scopes')
    BY GrowsTouched DEF TreeInv
  <2> QED BY <2>1, <2>2, DefinedKept DEF RefInv, ParserInv
<1>10. ParserInv'
  BY <1>1, <1>3, <1>6, <1>8, <1>9, OpenHolds
<1>11. Proofs!GoOn
  <2>1. Proofs!Innermost(f)
    BY <1>1 DEF Proofs!Innermost
  <2>2. Defined' = Defined /\ insert_block' = f.rest /\ Frames' = Frames \ {f}
    BY <1>1 DEF Defined
  <2> QED BY <1>2, <1>5, <2>1, <2>2 DEF Proofs!GoOn
<1> QED BY <1>10, <1>11 DEF Simulates, Proofs!Next

LEMMA LeaveSimulates ==
  ASSUME TreeInv, TreeInv', RefInv, NEW t \in Token, end_while_body(t) \/ end_if_body1(t)
  PROVE  Simulates
<1> DEFINE N == Len(Statuses(t))
           c == symbol_stack[N].cond
<1>1. CurrentStatus(t) \in Status /\ t.key \in Key
  BY Dispatch, TokenIsSymbol DEF TreeInv
<1>2. CurrentStatus(t) \in {19, 24}
  BY <1>1, Registered DEF end_while_body, end_if_body1, On, NoEntry
<1>3. /\ N \in Nat /\ N >= 2 /\ N \in 1 .. Len(status_stack) /\ Len(Symbols(t)) = N
      /\ status_stack[N] = CurrentStatus(t) /\ Symbols(t)[N] = symbol_stack[N]
  <2>1. CurrentStatus(t) \in InBody
    BY <1>2 DEF InBody
  <2> QED BY <2>1, BodyNow
<1>4. Last(Symbols(t)).cond = c
  BY <1>3 DEF Last
<1>5. SubSeq(Symbols(t), 1, N) = Symbols(t)
  BY <1>3, WholeStacks DEF TreeInv
<1>6. CASE end_while_body(t)
  <2>1. CurrentStatus(t) = 24
    BY <1>1, <1>6, Registered DEF end_while_body, On, NoEntry
  <2>2. Frame(N) = [head |-> conds[c].entery_block, rest |-> conds[c].exit_block]
    BY <1>3, <2>1 DEF Frame
  <2>3. Frame(N).head # 0
    BY <1>3, <2>1, Stacks DEF RefInv, ParserInv, StackInv, FramesInOrder, Waiting, TreeInv
  <2>4. /\ terms' = Terminate(terms, insert_block, {Frame(N).head})
        /\ insert_block' = Frame(N).rest /\ leave_scope
        /\ UNCHANGED <<scopes, func_param, definitions>>
    BY <1>4, <1>6, <2>2 DEF end_while_body, module
  <2>5. Leaves(t)
    BY <1>3, <1>6 DEF end_while_body, Leaves, Pop
  <2>6. CondsKept
    BY <1>6, KeptConds DEF end_while_body, TreeInv
  <2> QED BY <1>2, <2>3, <2>4, <2>5, <2>6, GoOnSimulates
<1>7. CASE end_if_body1(t)
  <2>1. CurrentStatus(t) = 19
    BY <1>1, <1>7, Registered DEF end_if_body1, On, NoEntry
  <2>2. Frame(N) = [head |-> 0, rest |-> conds[c].body2]
    BY <1>3, <2>1 DEF Frame
  <2>3. Frame(N).head = 0
    BY <2>2
  <2>4. /\ terms' = IF scopes[current_node].has_return THEN terms
                    ELSE Terminate(terms, insert_block, {Frame(N).rest})
        /\ insert_block' = Frame(N).rest /\ leave_scope
        /\ UNCHANGED <<scopes, func_param, definitions>>
    BY SMTT(40), <1>4, <1>7, <2>2 DEF end_if_body1, module
  <2>5. Leaves(t)
    BY <1>3, <1>5, <1>7 DEF end_if_body1, Leaves, Pop
  <2>6. CondsKept
    BY <1>7, KeptConds DEF end_if_body1, TreeInv
  <2> QED BY <1>2, <2>3, <2>4, <2>5, <2>6, GoOnSimulates
<1> QED BY <1>6, <1>7

-----------------------------------------------------------------------------
(* The body of a function begins and ends. *)

\* Outside bodies no scope is open.
LEMMA Outside ==
  ASSUME TreeInv, RefInv, ~Inside
  PROVE  /\ \A i \in DOMAIN status_stack : status_stack[i] \notin InsideStatus
         /\ Len(current_node) = 0 /\ current_node = Root /\ current_node \in Path
<1> DEFINE S == ScopedIn(status_stack)
<1>1. \A i \in DOMAIN status_stack : status_stack[i] \notin InsideStatus
  BY DEF RefInv, ParserInv, StackInv, BodiesInside
<1>2. S = {}
  BY <1>1 DEF ScopedIn, Scoped, InsideStatus
<1>3. Len(current_node) = Cardinality(S)
  BY DEF Depth, TreeInv, ScopesMatchStatuses, ScopedIn, Scoped
<1>4. Len(current_node) = 0
  BY <1>2, <1>3, FS_EmptySet
<1>5. current_node \in Path
  BY DEF TreeInv, InTree, TreeOf
<1>6. current_node = Root
  <2>1. \A p \in Seq(NodeName) : Len(p) = 0 => p = <<>>
    OBVIOUS
  <2> QED BY <1>4, <1>5, <2>1 DEF Path, Root
<1> QED BY <1>1, <1>4, <1>5, <1>6

LEMMA SecondOnly == \A k \in Nat : k - 1 = 1 => k = 2
  OBVIOUS

LEMMA HeaderOutside ==
  ASSUME TreeInv, NEW t \in Token, CurrentStatus(t) \in {14, 25}
  PROVE  /\ ~Inside /\ Statuses(t) = status_stack /\ Symbols(t) = symbol_stack
         /\ Len(status_stack) \in Nat /\ Len(symbol_stack) = Len(status_stack)
         /\ Len(status_stack) - 1 \in 0 .. Len(status_stack)
<1> SUFFICES ASSUME NEW n, n = Len(status_stack)
             PROVE  /\ ~Inside /\ Statuses(t) = status_stack /\ Symbols(t) = symbol_stack
                    /\ n \in Nat /\ Len(symbol_stack) = n /\ n - 1 \in 0 .. n
  OBVIOUS
<1>1. /\ WellStacked(Len(conds), status_stack, symbol_stack) /\ n \in Nat
      /\ Len(symbol_stack) = n
  BY Stacks DEF TreeInv
<1>2. Statuses(t) = status_stack /\ Symbols(t) = symbol_stack
  BY Dispatch DEF TreeInv
<1>3. /\ n \in 1 .. n /\ status_stack[n] = CurrentStatus(t)
      /\ Fits(Below(status_stack, n - 1), CurrentStatus(t), symbol_stack[n].key)
  <2>1. CurrentStatus(t) \in Status \ {0, 15, 19, 22, 24} /\ IInv
    BY DEF Status, TreeInv
  <2> QED BY <2>1, OnTop
<1>4. ASSUME NEW i \in 1 .. n, Below(status_stack, i - 1) = 0
      PROVE  i = 1
  <2>1. i - 1 \in 1 .. n => status_stack[i - 1] # 0
    BY <1>1, Entry
  <2> QED BY <1>1, <1>4, <2>1 DEF Below
<1>5. ASSUME NEW i \in 1 .. n, status_stack[i] = 14
      PROVE  i = 1
  <2>1. Fits(Below(status_stack, i - 1), 14, symbol_stack[i].key)
    BY <1>1, <1>5, Entry
  <2>2. Below(status_stack, i - 1) = 0
    BY <2>1 DEF Fits, StandsOn
  <2> QED BY <1>4, <2>2
<1>6. CASE CurrentStatus(t) = 14
  <2>1. n = 1
    BY <1>3, <1>5, <1>6
  <2> QED BY <1>1, <1>2, <2>1 DEF Inside
<1>7. CASE CurrentStatus(t) = 25
  <2>1. Below(status_stack, n - 1) = 14
    BY <1>3, <1>7, Standing
  <2>2. n - 1 \in 1 .. n /\ status_stack[n - 1] = 14
    BY <1>1, <1>3, <2>1 DEF Below
  <2>3. n - 1 = 1
    BY <1>5, <2>2
  <2>4. n \in Nat
    BY <1>1
  <2>5. status_stack[n] = 25
    BY <1>3, <1>7
  <2>6. n = 2
    BY <2>3, <2>4, SecondOnly, Zenon
  <2>7. ~Inside
    BY <2>5, <2>6 DEF Inside
  <2> QED BY <1>1, <1>2, <1>3, <2>7
<1> QED BY <1>6, <1>7

LEMMA Single ==
  ASSUME NEW S, NEW x \in S
  PROVE  <<x>> \in Seq(S) /\ Len(<<x>>) = 1 /\ SubSeq(<<x>>, 1, 1) = <<x>> /\ <<x>> # <<>>
<1>1. <<x>> \in Seq(S) /\ Len(<<x>>) = 1
  OBVIOUS
<1>2. <<x>> # <<>>
  OBVIOUS
<1>3. SubSeq(<<x>>, 1, 1) = <<x>>
  <2> DEFINE s == <<x>>
             r == SubSeq(s, 1, 1)
  <2>1. s \in Seq(S) /\ Len(s) = 1 /\ s \in [1 .. 1 -> S]
    OBVIOUS
  <2> HIDE DEF s
  <2>2. r \in Seq(S) /\ Len(r) = 1 /\ r[1] = s[1]
    BY <2>1, SubSeqProperties
  <2> HIDE DEF r
  <2>3. r \in [1 .. 1 -> S]
    BY <2>2
  <2>4. r = s
    BY <2>1, <2>2, <2>3
  <2> QED BY <2>4 DEF r, s
<1> QED BY <1>1, <1>2, <1>3

LEMMA BeginSimulates ==
  ASSUME TreeInv, TreeInv', RefInv, NEW t \in Token, CurrentStatus(t) \in {14, 25},
         NEW n \in {Len(status_stack) - 1, Len(status_stack)},
         status_stack' = Append(SubSeq(status_stack, 1, n), 15),
         \E y : symbol_stack' = Append(SubSeq(symbol_stack, 1, n), y),
         func_param' = [func_param EXCEPT !.basic_blocks = Append(@, Len(terms) + 1)],
         terms' = Append(terms, <<>>), insert_block' = Len(terms) + 1,
         current_node' = FunctionScope, Grows(scopes'),
         UNCHANGED <<conds, definitions>>
  PROVE  Simulates
<1> DEFINE b == Len(terms) + 1
<1>1. /\ ~Inside /\ Statuses(t) = status_stack /\ Symbols(t) = symbol_stack
      /\ Len(status_stack) \in Nat /\ Len(symbol_stack) = Len(status_stack)
      /\ Len(status_stack) - 1 \in 0 .. Len(status_stack)
      /\ DOMAIN status_stack = 1 .. Len(status_stack)
  BY HeaderOutside, Stacks DEF TreeInv
<1>2. n \in Nat /\ n \in 0 .. Len(status_stack) /\ n \in n .. Len(symbol_stack)
  BY <1>1
<1>3. KeptTo(n) /\ Len(status_stack') = n + 1 /\ status_stack'[n + 1] = 15
  <2>1. /\ IInv /\ IInv' /\ Cuts(t, n)
        /\ status_stack' = Append(SubSeq(Statuses(t), 1, n), 15)
    BY <1>1, <1>2 DEF Cuts, TreeInv
  <2>2. \E s : status_stack' = Append(SubSeq(Statuses(t), 1, n), s)
    BY <2>1
  <2>3. /\ KeptTo(n)
        /\ \A s : status_stack' = Append(SubSeq(Statuses(t), 1, n), s) =>
              Len(status_stack') = n + 1 /\ status_stack'[n + 1] = s
    BY ZenonT(60), <2>1, <2>2, Keeping
  <2> QED BY <2>1, <2>3
<1>4. /\ \A i \in DOMAIN status_stack : status_stack[i] \notin InsideStatus
      /\ Len(current_node) = 0 /\ current_node = Root
  BY <1>1, Outside
<1>5. /\ StackInv'
      /\ Frames = Lower(n) \cup Upper(n) /\ Frames' = Lower(n) \cup Upper(n)'
  <2>1. IInv /\ IInv' /\ StackInv
    BY DEF TreeInv, RefInv, ParserInv
  <2>2. \A i \in n + 2 .. Len(status_stack) : status_stack[i] \notin Loud
    BY <1>1, <1>2, <1>4 DEF Loud, InsideStatus
  <2>3. ASSUME NEW i \in 1 .. n PROVE status_stack[i] \notin {19, 23, 24}
    <3>1. i \in DOMAIN status_stack
      BY <1>1, <1>2
    <3> QED BY <1>4, <3>1 DEF InsideStatus
  <2>4. Len(status_stack') \in {n, n + 1} /\ status_stack'[n + 1] \notin Tracked \cup {19, 23, 24}
    BY <1>3 DEF Tracked
  <2> QED BY <1>2, <1>3, <2>1, <2>2, <2>3, <2>4, TopStack
<1>6. /\ Frames = {} /\ func_param.return_block = 0 /\ func_param.basic_blocks = <<>>
      /\ Len(terms) \in Nat /\ terms \in Seq(Seq(SUBSET Nat)) /\ ~Proofs!Open
  BY <1>1, BlocksNow DEF Proofs!Open
<1>7. Frames' = {}
  <2>1. n + 1 \notin Waiting'
    BY <1>3 DEF Waiting
  <2> QED BY <1>5, <1>6, <2>1 DEF Upper
<1>8. Inside'
  <2>1. n + 1 \in DOMAIN status_stack'
    <3>1. DOMAIN status_stack' = 1 .. Len(status_stack')
      BY StacksNext DEF TreeInv
    <3> QED BY <1>2, <1>3, <3>1
  <2> QED BY <1>3, <1>5, <2>1 DEF StackInv, BodiesInside, InsideStatus
<1>9. /\ func_param'.basic_blocks = <<b>> /\ func_param'.return_block = 0
      /\ func_param'.basic_blocks # <<>>
  <2>1. Append(func_param.basic_blocks, b) = <<b>>
    BY <1>6
  <2>2. /\ func_param'.basic_blocks = Append(func_param.basic_blocks, b)
        /\ func_param'.return_block = func_param.return_block
        /\ func_param'.basic_blocks # <<>>
    BY ParamGrows DEF TreeInv
  <2> QED BY <1>6, <2>1, <2>2
<1>10. terms'[insert_block'] = <<>> /\ insert_block' # 0
  BY <1>6
<1>11. /\ current_node' \in Path /\ Len(current_node') = 1 /\ SubSeq(current_node', 1, 1) = current_node'
       /\ current_node' # Root
  <2>1. Mangled(func_param.name, Len(func_param.arg)) \in NodeName
    BY ChildNames DEF TreeInv
  <2>2. current_node' = <<Mangled(func_param.name, Len(func_param.arg))>>
    BY <1>4 DEF FunctionScope, Root
  <2> DEFINE x == Mangled(func_param.name, Len(func_param.arg))
  <2> HIDE DEF x
  <2>3. x \in NodeName => /\ <<x>> \in Seq(NodeName) /\ Len(<<x>>) = 1
                          /\ SubSeq(<<x>>, 1, 1) = <<x>> /\ <<x>> # <<>>
    BY Single
  <2> QED BY <2>1, <2>2, <2>3 DEF x, Path, Root
<1>12. ReturnedWereDefined'
  <2>1. Len(current_node) # 1
    BY <1>4
  <2> QED BY <2>1, DefinedKept DEF RefInv, ParserInv
<1>13. scopes'[current_node'].has_return => Redefining'
  <2>1. ASSUME scopes'[current_node'].has_return PROVE Redefining'
    <3>1. current_node' \in DOMAIN scopes /\ scopes[current_node'].has_return
      <4>1. current_node' \in DOMAIN scopes'
        BY DEF TreeInv, InTree
      <4> QED BY <2>1, <4>1 DEF Grows, Keeps
    <3>2. current_node' # current_node
      BY <1>4, <1>11
    <3>3. \E i \in DOMAIN definitions : definitions[i].scope = current_node'
      BY <1>11, <3>1, <3>2 DEF RefInv, ParserInv, ReturnedWereDefined
    <3> QED BY <1>11, <3>3 DEF Redefining
  <2> QED BY <2>1
<1>14. TopOf(status_stack') = 15
  <2>1. status_stack' # <<>>
    BY <1>2, <1>3
  <2> QED BY <1>3, <2>1 DEF TopOf
<1>15. ParserInv'
  <2>1. ReturnedIsRight'
    BY <1>9, <1>10, <1>13, <1>14 DEF ReturnedIsRight
  <2>2. FunctionIsParsed'
    BY <1>8, <1>9, <1>10 DEF FunctionIsParsed
  <2>3. DefinitionsTyped'
    BY DEF RefInv, ParserInv, DefinitionsTyped
  <2> QED BY <1>5, <1>12, <2>1, <2>2, <2>3 DEF ParserInv
<1>16. Proofs!Begin
  BY <1>6, <1>7, <1>9 DEF Proofs!Begin, Proofs!New, Defined
<1> QED BY <1>15, <1>16 DEF Simulates, Proofs!Next

LEMMA BodySimulates ==
  ASSUME TreeInv, TreeInv', RefInv, NEW t \in Token,
         function_body_define_strart(t) \/ has_return_type_function_define(t)
  PROVE  Simulates
<1> DEFINE entry == Len(terms) + 1
           opened == Opened(FunctionScope, func_param.arg, entry)
<1>1. CurrentStatus(t) \in Status /\ t.key \in Key
  BY Dispatch, TokenIsSymbol DEF TreeInv
<1>2. entry \in Nat
  BY DEF IInv, TypeOfCode, TreeInv
<1>3. Grows(opened)
  BY <1>2, GrowsOpened DEF TreeInv
<1>4. CASE \E o : End(o)
  BY <1>4, EndSimulates
<1>5. CASE function_body_define_strart(t)
  <2>1. CurrentStatus(t) = 14
    BY <1>1, <1>5, Registered DEF function_body_define_strart, On, NoEntry
  <2>2. /\ SubSeq(status_stack, 1, Len(status_stack)) = status_stack
        /\ SubSeq(symbol_stack, 1, Len(status_stack)) = symbol_stack
    BY <2>1, HeaderOutside, WholeStacks DEF TreeInv
  <2>3. \/ \E o : End(o)
        \/ /\ status_stack' = Append(status_stack, 15)
           /\ \E y : symbol_stack' = Append(symbol_stack, y)
           /\ func_param' = [func_param EXCEPT !.basic_blocks = Append(@, entry)]
           /\ terms' = Append(terms, <<>>) /\ insert_block' = entry
           /\ current_node' = FunctionScope /\ scopes' = opened
           /\ UNCHANGED <<conds, definitions>>
    BY <1>5 DEF function_body_define_strart, StartBody
  <2> HIDE DEF opened
  <2> QED BY <1>3, <1>4, <2>1, <2>2, <2>3, BeginSimulates
<1>6. CASE has_return_type_function_define(t)
  <2>1. CurrentStatus(t) = 25
    BY <1>1, <1>6, Registered DEF has_return_type_function_define, On, NoEntry
  <2>2. Len(symbol_stack) = Len(status_stack)
    BY <2>1, HeaderOutside
  <2>3. \/ \E o : End(o)
        \/ /\ status_stack' = Append(SubSeq(status_stack, 1, Len(status_stack) - 1), 15)
           /\ \E y : symbol_stack' = Append(SubSeq(symbol_stack, 1, Len(status_stack) - 1), y)
           /\ func_param' = [func_param EXCEPT !.basic_blocks = Append(@, entry)]
           /\ terms' = Append(terms, <<>>) /\ insert_block' = entry
           /\ current_node' = FunctionScope
           /\ scopes' = [opened EXCEPT ![FunctionScope].function_ptr = Len(functions) + 1]
           /\ UNCHANGED <<conds, definitions>>
    BY <1>6, <2>2 DEF has_return_type_function_define, StartBody, Pop
  <2>4. \A p \in DOMAIN opened : opened[p] \in Node
    BY <1>2, OpenTree DEF TreeOf, TreeInv
  <2> HIDE DEF opened
  <2>5. Grows([opened EXCEPT ![FunctionScope].function_ptr = Len(functions) + 1])
    BY <1>3, <2>4, GrowsPointer
  <2> QED BY <1>4, <2>1, <2>3, <2>5, BeginSimulates
<1> QED BY <1>5, <1>6

\* What is defined grows by the blocks of the function.
LEMMA BlocksOfAppend ==
  ASSUME NEW S, NEW d \in Seq(S), NEW x
  PROVE  LET a == Append(d, x) IN
         /\ [i \in DOMAIN a |-> a[i].blocks] = Append([i \in DOMAIN d |-> d[i].blocks], x.blocks)
         /\ DOMAIN d \subseteq DOMAIN a /\ \A i \in DOMAIN d : a[i] = d[i]
         /\ \E i \in DOMAIN a : a[i] = x
<1> DEFINE a == Append(d, x)
           k == Len(d)
           T == {d[i].blocks : i \in DOMAIN d}
           e == [i \in DOMAIN d |-> d[i].blocks]
           f == [i \in DOMAIN a |-> a[i].blocks]
<1>1. k \in Nat /\ DOMAIN d = 1 .. k /\ DOMAIN a = 1 .. k + 1
      /\ (\A i \in 1 .. k : a[i] = d[i]) /\ a[k + 1] = x
  OBVIOUS
<1>2. e \in [1 .. k -> T] /\ \A i \in 1 .. k : e[i] = d[i].blocks
  BY <1>1
<1>3. f = [i \in 1 .. k + 1 |-> a[i].blocks]
  BY <1>1
<1> HIDE DEF k, a, e, T
<1>4. e \in Seq(T) /\ Len(e) = k
  BY <1>1, <1>2
<1>5. /\ Append(e, x.blocks) = [i \in 1 .. k + 1 |-> Append(e, x.blocks)[i]]
      /\ \A i \in 1 .. k : Append(e, x.blocks)[i] = e[i]
      /\ Append(e, x.blocks)[k + 1] = x.blocks
  BY <1>1, <1>4
<1>6. \A i \in 1 .. k + 1 : Append(e, x.blocks)[i] = a[i].blocks
  <2>1. \A i \in 1 .. k + 1 : i \in 1 .. k \/ i = k + 1
    BY <1>1
  <2> QED BY <1>1, <1>2, <1>5, <2>1
<1>7. f = Append(e, x.blocks)
  BY <1>3, <1>5, <1>6
<1>8. 1 .. k \subseteq 1 .. k + 1 /\ k + 1 \in 1 .. k + 1
  BY <1>1
<1> QED BY <1>1, <1>7, <1>8 DEF a, e

LEMMA FinishSimulates ==
  ASSUME TreeInv, TreeInv', RefInv, NEW t \in Token, function_body_define_finished(t)
  PROVE  Simulates
<1> DEFINE N == Len(Statuses(t))
           own == func_param.basic_blocks
           ret == func_param.return_block
           fn == IF scopes[current_node].function_ptr # 0
                 THEN scopes[current_node].function_ptr ELSE Len(functions) + 1
           blocks == own \o (IF ret = 0 THEN <<>> ELSE <<ret>>)
           new == [scope |-> current_node, fn |-> fn, blocks |-> blocks]
<1>1. CurrentStatus(t) = 15
  <2>1. CurrentStatus(t) \in Status /\ t.key \in Key
    BY Dispatch, TokenIsSymbol DEF TreeInv
  <2> QED BY <2>1, Registered DEF function_body_define_finished, On, NoEntry
<1>2. /\ N = 2 /\ N \in 1 .. Len(status_stack) /\ status_stack[2] = 15 /\ Inside
      /\ Len(Symbols(t)) = N /\ Len(status_stack) \in Nat /\ DOMAIN status_stack = 1 .. Len(status_stack)
      /\ \A i \in 3 .. Len(status_stack) : status_stack[i] = 20
  <2>1. /\ N \in 1 .. Len(status_stack) /\ status_stack[N] = 15 /\ Inside
        /\ Len(Symbols(t)) = N /\ \A i \in N + 1 .. Len(status_stack) : status_stack[i] = 20
    BY <1>1, BodyNow DEF InBody
  <2>2. /\ WellStacked(Len(conds), status_stack, symbol_stack)
        /\ Len(status_stack) \in Nat /\ DOMAIN status_stack = 1 .. Len(status_stack)
    BY Stacks DEF TreeInv
  <2> HIDE DEF N
  <2>3. N = 2
    BY <2>1, <2>2, BodyIsSecond
  <2> QED BY <2>1, <2>2, <2>3
<1>3. Frames = {}
  <2>1. ASSUME NEW i \in DOMAIN status_stack, status_stack[i] \in {19, 23, 24} PROVE FALSE
    <3>1. i >= 2
      BY <2>1 DEF RefInv, ParserInv, StackInv, BodiesInside, InsideStatus
    <3>2. i = 2 \/ i \in 3 .. Len(status_stack)
      BY <1>2, <3>1
    <3> QED BY <1>2, <2>1, <3>2
  <2> QED BY <2>1 DEF Frames, Waiting
<1>4. /\ terms' = IF scopes[current_node].has_return \/ ret = 0 THEN terms
                  ELSE Terminate(terms, insert_block, {ret})
      /\ scopes' = [scopes EXCEPT ![current_node].function_ptr = fn]
      /\ definitions' = Append(definitions, new)
      /\ status_stack' = SubSeq(Statuses(t), 1, N - 2)
      /\ func_param' = Cleared(func_param)
      /\ insert_block' = insert_block
  BY DEF function_body_define_finished, Pop
<1>5. DOMAIN status_stack' = {} /\ Len(status_stack') = 0 /\ ~Inside'
  <2>1. SubSeq(Statuses(t), 1, 0) = <<>>
    BY Handed DEF TreeInv
  <2>2. N - 2 = 0
    BY <1>2
  <2>3. status_stack' = <<>>
    BY <1>4, <2>1, <2>2
  <2>4. ~Inside'
    BY <2>3 DEF Inside
  <2> QED BY <2>3, <2>4
<1>6. StackInv' /\ Frames' = {}
  BY <1>5 DEF StackInv, BodiesInside, CondsInOrder, FramesInOrder, Waiting, Frames
<1>7. func_param'.basic_blocks = <<>> /\ func_param'.return_block = 0
  <2>1. func_param \in FuncParamOf(MaybeBlock)
    BY DEF TreeInv, IInv, TypeOfCode
  <2> QED BY <1>4, <2>1 DEF FuncParamOf, Cleared
<1>8. definitions \in Seq([scope : Path, fn : Nat, blocks : Seq(Nat)])
  BY DEF RefInv, ParserInv, DefinitionsTyped
<1>9. new \in [scope : Path, fn : Nat, blocks : Seq(Nat)]
  <2>1. current_node \in Path /\ scopes[current_node].function_ptr \in Nat
    BY DEF TreeInv, InTree, TreeOf, Node
  <2>2. Len(functions) \in Nat
    BY DEF TreeInv
  <2>3. own \in Seq(Nat)
    <3>1. own \in Seq(1 .. Len(terms)) /\ Len(terms) \in Nat
      BY BlocksNow
    <3>2. 1 .. Len(terms) \subseteq Nat
      BY <3>1
    <3> HIDE DEF own
    <3>3. \A S, T : S \subseteq T => Seq(S) \subseteq Seq(T)
      OBVIOUS
    <3> QED BY <3>1, <3>2, <3>3
  <2>4. ret \in Nat
    BY BlocksNow
  <2>5. fn \in Nat
    BY <2>1, <2>2
  <2> HIDE DEF fn, own, ret
  <2>6. blocks \in Seq(Nat)
    BY <2>3, <2>4
  <2> QED BY <2>1, <2>5, <2>6
<1>10. /\ Defined' = Append(Defined, blocks)
       /\ DOMAIN definitions \subseteq DOMAIN definitions'
       /\ \A i \in DOMAIN definitions : definitions'[i] = definitions[i]
       /\ \E i \in DOMAIN definitions' : definitions'[i] = new
  <2> DEFINE d == definitions
             a == Append(d, new)
  <2>1. new.blocks = blocks
    OBVIOUS
  <2> HIDE DEF new, blocks
  <2>2. /\ [i \in DOMAIN a |-> a[i].blocks] = Append([i \in DOMAIN d |-> d[i].blocks], new.blocks)
        /\ DOMAIN d \subseteq DOMAIN a /\ \A i \in DOMAIN d : a[i] = d[i]
        /\ \E i \in DOMAIN a : a[i] = new
    BY ZenonT(60), <1>8, BlocksOfAppend
  <2> QED BY <1>4, <2>1, <2>2 DEF Defined
<1>11. DefinitionsTyped'
  <2>1. definitions' \in Seq([scope : Path, fn : Nat, blocks : Seq(Nat)])
    <3> HIDE DEF new
    <3> QED BY <1>4, <1>8, <1>9
  <2> QED BY <2>1 DEF DefinitionsTyped
<1>12. /\ DOMAIN scopes' = DOMAIN scopes
       /\ \A p \in DOMAIN scopes : scopes'[p].has_return = scopes[p].has_return
  <2>1. \A p \in DOMAIN scopes : scopes[p] \in Node
    BY DEF TreeInv, InTree, TreeOf
  <2> HIDE DEF fn
  <2> QED BY <1>4, <2>1 DEF Node
<1>13. ReturnedWereDefined'
  <2> SUFFICES ASSUME NEW p \in DOMAIN scopes, Len(p) = 1, scopes[p].has_return
               PROVE  \E i \in DOMAIN definitions' : definitions'[i].scope = p
    BY <1>12 DEF ReturnedWereDefined
  <2>1. new.scope = current_node
    OBVIOUS
  <2>2. p = current_node \/ \E i \in DOMAIN definitions : definitions[i].scope = p
    BY DEF RefInv, ParserInv, ReturnedWereDefined
  <2> HIDE DEF new
  <2> QED BY <1>10, <2>1, <2>2
<1>14. ParserInv'
  BY <1>5, <1>6, <1>7, <1>11, <1>13 DEF ParserInv, FunctionIsParsed, ReturnedIsRight
<1>15. Proofs!Finish
  <2>1. Proofs!Open
    BY <1>2, BlocksNow
  <2>2. scopes[current_node].has_return \/ ret = 0 <=> Proofs!Ended \/ ret = 0
    BY <1>2 DEF RefInv, ParserInv, ReturnedIsRight, Proofs!Ended
  <2>3. terms' = IF Proofs!Ended \/ ret = 0 THEN terms ELSE Proofs!Ending({ret})
    <3> HIDE DEF ret
    <3> QED BY <1>2, <1>4, <2>2, EndingWrites
  <2> QED BY <1>3, <1>4, <1>6, <1>7, <1>10, <2>1, <2>3 DEF Proofs!Finish
<1> QED BY <1>14, <1>15 DEF Simulates, Proofs!Next

-----------------------------------------------------------------------------
(* The refinement. *)

LEMMA StepSimulates ==
  ASSUME TreeInv, TreeInv', RefInv, NEW t \in Token, process_token(t)
  PROVE  Simulates
<1>1. CASE Shift(t) \/ NoRow(t) \/ Ignore(t) \/ skip(t) \/ Header(t) \/ Variable(t)
  BY <1>1, PlainSimulates
<1>2. CASE Body(t)
  BY <1>2, BodySimulates, FinishSimulates DEF Body
<1>3. CASE Branching(t)
  BY <1>3, StartSimulates, LeaveSimulates, ElseSimulates DEF Branching
<1>4. CASE Expression(t)
  <2>1. ASSUME NEW m \in 2 .. Len(symbol_stack), reduce_condition_calculate(t, m) PROVE Simulates
    <3>1. CASE status_stack[m - 1] \in {17, 23}
      BY <2>1, <3>1, DecideSimulates
    <3>2. CASE status_stack[m - 1] \notin {17, 23}
      BY <2>1, <3>2, ExpressionSimulates
    <3> QED BY <3>1, <3>2
  <2>2. ASSUME NEW m \in 2 .. Len(symbol_stack), return_statement(t, m) PROVE Simulates
    BY <2>2, ReturnSimulates
  <2> QED BY <1>4, <2>1, <2>2, ExpressionSimulates DEF Expression
<1> QED BY <1>1, <1>2, <1>3, <1>4 DEF process_token, Reduce

LEMMA RefInductive == TreeInv /\ TreeInv' /\ RefInv /\ [Next]_vars => RefInv' /\ [Proofs!Next]_(Proofs!vars)
<1> SUFFICES ASSUME TreeInv, TreeInv', RefInv, [Next]_vars PROVE RefInv' /\ [Proofs!Next]_(Proofs!vars)
  OBVIOUS
<1>1. Simulates
  <2>1. CASE UNCHANGED vars
    BY <2>1, NothingSimulates DEF vars, stacks, tree, module, code
  <2>2. CASE EndOfInput
    BY <2>2, EndSimulates DEF EndOfInput
  <2>3. ASSUME NEW t \in Token, process_token(t) PROVE Simulates
    BY <2>3, StepSimulates
  <2> QED BY <2>1, <2>2, <2>3 DEF Next
<1>2. (Proofs!CodeInv)'
  BY <1>1, Proofs!CodeInductive DEF RefInv, Simulates
<1> QED BY <1>1, <1>2 DEF RefInv, Simulates

LEMMA RefInitially == Init => RefInv /\ Proofs!Init
<1> SUFFICES ASSUME Init PROVE RefInv /\ Proofs!Init
  OBVIOUS
<1>1. /\ status_stack = <<>> /\ terms = <<>> /\ insert_block = 0 /\ definitions = <<>>
      /\ func_param.basic_blocks = <<>> /\ func_param.return_block = 0
      /\ \A p \in DOMAIN scopes : ~scopes[p].has_return
  <2>1. /\ status_stack = <<>> /\ terms = <<>> /\ insert_block = 0 /\ definitions = <<>>
        /\ func_param.basic_blocks = <<>> /\ func_param.return_block = 0
    BY DEF Init, NoFunction
  <2>2. TreeInv
    BY TreeInitially
  <2>3. \A p \in DOMAIN scopes : ~scopes[p].has_return
    BY DEF Init, Fresh
  <2> QED BY <2>1, <2>3
<1>2. DOMAIN status_stack = {} /\ ~Inside
  BY <1>1 DEF Inside
<1>3. StackInv /\ Frames = {}
  BY <1>2 DEF StackInv, BodiesInside, CondsInOrder, FramesInOrder, Waiting, Frames
<1>4. DefinitionsTyped /\ Defined = <<>>
  <2>1. <<>> \in Seq([scope : Path, fn : Nat, blocks : Seq(Nat)])
    OBVIOUS
  <2>2. Defined = <<>>
    BY <1>1 DEF Defined
  <2> QED BY <1>1, <2>1, <2>2 DEF DefinitionsTyped
<1>5. ParserInv
  BY <1>1, <1>2, <1>3, <1>4
     DEF ParserInv, FunctionIsParsed, ReturnedIsRight, ReturnedWereDefined
<1>6. Proofs!Init
  BY <1>1, <1>3, <1>4 DEF Proofs!Init
<1>7. Proofs!CodeInv
  BY <1>6, Proofs!CodeInitially
<1> QED BY <1>5, <1>6, <1>7 DEF RefInv

\* What the parser keeps on its stacks, in func_param and in has_return always agrees
\* with the blocks it has emitted, which are those of structured code.
THEOREM RefInvariance == Spec => [](TreeInv /\ RefInv)
<1>1. Init => TreeInv /\ RefInv
  BY TreeInitially, RefInitially
<1>2. TreeInv /\ RefInv /\ [Next]_vars => (TreeInv /\ RefInv)'
  BY TreeInductive, RefInductive
<1> QED BY <1>1, <1>2, PTL DEF Spec

\* Parser implements StructuredCode, for every program text: each handler that
\* touches the code does what one step of structured code does, with the blocks,
\* the statements that are open and the function it finds on its own stacks and in
\* its own structures, and every other handler leaves all of that alone.
THEOREM CodeStaysStructured == Spec => CodeIsStructured
<1>1. Proofs!Init => Code!Init
  BY DEF Proofs!Init, Code!Init
<1>2. Proofs!vars = Code!vars
  BY DEF Proofs!vars, Code!vars
<1>3. [Proofs!Next]_(Proofs!vars) => [Code!Next]_(Code!vars)
  <2>1. Proofs!Begin => Code!Begin
    BY DEF Proofs!Begin, Proofs!Open, Proofs!New, Code!Begin, Code!Open, Code!New
  <2>2. Proofs!StartLoop => Code!StartLoop
    BY DEF Proofs!StartLoop, Proofs!Open, Proofs!Ended, Proofs!Deciding, Proofs!New, Proofs!Ending,
           Proofs!Frame, Code!StartLoop, Code!Open, Code!Ended, Code!Deciding, Code!New,
           Code!Ending, Code!Frame
  <2>3. Proofs!Decide => Code!Decide
    BY Zenon DEF Proofs!Decide, Proofs!Open, Proofs!Ended, Proofs!Deciding, Proofs!New, Proofs!Ending,
                 Proofs!Frame, Code!Decide, Code!Open, Code!Ended, Code!Deciding, Code!New,
                 Code!Ending, Code!Frame
  <2>4. Proofs!GoOn => Code!GoOn
    BY DEF Proofs!GoOn, Proofs!Innermost, Proofs!Ended, Proofs!Ending,
           Code!GoOn, Code!Innermost, Code!Ended, Code!Ending
  <2>5. Proofs!Return => Code!Return
    BY DEF Proofs!Return, Proofs!Open, Proofs!Ended, Proofs!Deciding, Proofs!New, Proofs!Ending,
           Code!Return, Code!Open, Code!Ended, Code!Deciding, Code!New, Code!Ending
  <2>6. Proofs!Finish => Code!Finish
    BY DEF Proofs!Finish, Proofs!Open, Proofs!Ended, Proofs!Ending,
           Code!Finish, Code!Open, Code!Ended, Code!Ending
  <2>7. UNCHANGED Proofs!vars => UNCHANGED Code!vars
    BY DEF Proofs!vars, Code!vars
  <2> QED BY <2>1, <2>2, <2>3, <2>4, <2>5, <2>6, <2>7 DEF Proofs!Next, Code!Next
<1>4. Init => Code!Init
  BY <1>1, RefInitially
<1>5. TreeInv /\ TreeInv' /\ RefInv /\ [Next]_vars => [Code!Next]_(Code!vars)
  BY <1>3, RefInductive
<1> QED BY <1>4, <1>5, RefInvariance, PTL DEF Spec, CodeIsStructured, Code!Spec

\* has_return, which the handlers ask before they branch, is right in any body but one
\* for a function that is already defined.
THEOREM ReturnedStaysTerminated == Spec => []ReturnedMeansTerminated
<1>1. TreeInv /\ RefInv => ReturnedMeansTerminated
  <2> SUFFICES ASSUME TreeInv, RefInv, current_node # Root, ~Redefining
               PROVE  scopes[current_node].has_return <=> terms[insert_block] # <<>>
    BY DEF ReturnedMeansTerminated
  <2>1. Inside
    BY Outside
  <2> QED BY <2>1 DEF RefInv, ParserInv, ReturnedIsRight
<1> QED BY <1>1, RefInvariance, PTL

LEMMA WholeFunctions ==
  ASSUME RefInv
  PROVE  /\ DOMAIN Defined = DOMAIN definitions
         /\ \A i \in DOMAIN definitions :
              /\ Proofs!Members(Defined[i]) = SeqRange(definitions[i].blocks)
         /\ \A b : Proofs!Targets(terms, b) = UNION SeqRange(terms[b])
         /\ \A b : Proofs!Members(terms[b]) = SeqRange(terms[b])
         /\ Proofs!FunctionsAreWhole /\ Proofs!FunctionsAreDisjoint
  BY DEF Defined, Proofs!Members, Proofs!Targets, SeqRange, RefInv, Proofs!CodeInv

\* What define_function is given is a whole function: no branch leaves it, no block is
\* in two.
THEOREM BranchesStay == Spec => []BranchesStayInFunction
<1>1. RefInv => BranchesStayInFunction
  BY WholeFunctions DEF BranchesStayInFunction, Proofs!FunctionsAreWhole, Proofs!FunctionsAreDisjoint
<1> QED BY <1>1, RefInvariance, PTL

\* At most one block of a finished function has not ended, and none if the function
\* returns.
THEOREM OneEndStaysOpen == Spec => []OnlyEndStaysOpen
<1>1. RefInv => OnlyEndStaysOpen
  BY WholeFunctions DEF OnlyEndStaysOpen, Proofs!FunctionsAreWhole
<1> QED BY <1>1, RefInvariance, PTL
-----------------------------------------------------------------------------
(* Names and uses. *)

\* A set of numbers has a least one.
LEMMA Lowest ==
  ASSUME NEW T \in SUBSET Nat, T # {}
  PROVE  \E x \in T : \A y \in T : x <= y
<1>1. PICK x \in T : \A y \in T : ~ (<<y, x>> \in OpToRel(<, Nat))
  BY NatLessThanWellFounded, WFMin, Zenon
<1>2. \A y \in T : y < x => <<y, x>> \in OpToRel(<, Nat)
  BY DEF OpToRel
<1>3. \A y \in T : ~ (y < x)
  BY <1>1, <1>2, Zenon
<1> HIDE <1>1, <1>2
<1> QED BY <1>3

\* ... and a greatest one below a bound.
LEMMA Highest ==
  ASSUME NEW n \in Nat, NEW T \in SUBSET (0 .. n), T # {}
  PROVE  \E x \in T : \A y \in T : y <= x
<1> DEFINE U == {i \in 0 .. n : n - i \in T}
<1>1. U \in SUBSET Nat /\ U # {}
  <2>1. PICK x \in T : TRUE
    OBVIOUS
  <2>2. x \in 0 .. n /\ n - x \in 0 .. n /\ n - (n - x) = x
    OBVIOUS
  <2>3. n - x \in U
    BY <2>2
  <2>4. \A i \in U : i \in Nat
    OBVIOUS
  <2> HIDE DEF U
  <2> QED BY <2>3, <2>4
<1>2. \A V \in SUBSET Nat : V # {} => \E v \in V : \A y \in V : v <= y
  BY Lowest
<1>3. PICK u \in U : \A y \in U : u <= y
  BY <1>1, <1>2
<1>4. n - u \in T
  OBVIOUS
<1>5. ASSUME NEW y \in T PROVE y <= n - u
  <2>1. y \in 0 .. n /\ n - y \in 0 .. n /\ n - (n - y) = y
    OBVIOUS
  <2>2. n - y \in U
    BY <2>1
  <2>3. u <= n - y /\ u \in 0 .. n
    BY <1>3, <2>2
  <2> QED BY <2>1, <2>3
<1> QED BY <1>4, <1>5

\* find_value finds the nearest holder, or the root.
LEMMA LookupFinds ==
  ASSUME TreeInv, NEW x
  PROVE  /\ Lookup(x) \in DOMAIN scopes
         /\ \/ Lookup(x) = Root
            \/ \E i \in 0 .. Len(current_node) :
                 Lookup(x) = Append(SubSeq(current_node, 1, i), Id(x))
<1> DEFINE holders == {i \in 0 .. Len(current_node) :
                         Append(SubSeq(current_node, 1, i), Id(x)) \in DOMAIN scopes}
<1>1. current_node \in Path /\ Len(current_node) \in Nat
  BY DEF TreeInv, InTree, TreeOf, Path
<1>2. Root \in DOMAIN scopes
  <2>1. SubSeq(current_node, 1, 0) = Root
    BY <1>1 DEF Path, Root
  <2>2. 0 \in 0 .. Len(current_node)
    BY <1>1
  <2> QED BY <2>1, <2>2 DEF TreeInv, ReturnedInv, Lineage
<1>3. CASE holders = {}
  <2>1. Lookup(x) = Root
    BY <1>3 DEF Lookup
  <2> QED BY <1>2, <2>1
<1>4. CASE holders # {}
  <2> DEFINE h == CHOOSE h \in holders : \A g \in holders : g <= h
  <2>1. \E i \in holders : \A g \in holders : g <= i
    <3>1. holders \in SUBSET (0 .. Len(current_node))
      OBVIOUS
    <3> HIDE DEF holders
    <3> QED BY <1>1, <1>4, <3>1, Highest
  <2>2. h \in holders
    <3> HIDE DEF holders
    <3> QED BY <2>1
  <2>3. Lookup(x) = Append(SubSeq(current_node, 1, h), Id(x))
    BY <1>4 DEF Lookup
  <2> HIDE DEF h
  <2> QED BY <2>2, <2>3
<1> QED BY <1>3, <1>4

LEMMA BelowRoot ==
  ASSUME NEW x, NEW k \in 0 .. Len(Root)
  PROVE  Len(Append(SubSeq(Root, 1, k), x)) = 1
<1>1. Len(<<>>) = 0 /\ <<>> \in Seq({x})
  OBVIOUS
<1>2. k = 0
  BY <1>1 DEF Root
<1>3. SubSeq(<<>>, 1, 0) = <<>>
  OBVIOUS
<1>4. Len(Append(<<>>, x)) = 1
  BY <1>1, AppendProperties
<1> QED BY <1>2, <1>3, <1>4 DEF Root

\* The scopes new hold the storage that old held; what is new was allocated in the
\* block b when h was the current scope.
Stores(old, new, b, h) ==
  /\ DOMAIN old \subseteq DOMAIN new
  /\ \A p \in DOMAIN new : new[p].address > 0 =>
       \/ p \in DOMAIN old /\ new[p].address = old[p].address /\ new[p].home = old[p].home
       \/ new[p].address = b /\ new[p].home = h /\ h # Root

\* An expression allocates in the block that is being written.
LEMMA StoresTouched ==
  ASSUME TreeInv, NEW S, NEW m
  PROVE  Stores(scopes, TouchedBy(S, m), insert_block, current_node)
<1> DEFINE new == TouchedBy(S, m)
           given == {Lookup(x) : x \in Unset(Targets(S, m))}
<1>1. /\ DOMAIN new = DOMAIN scopes
      /\ \A p \in DOMAIN scopes :
           \/ new[p] = scopes[p]
           \/ /\ p \in given
              /\ new[p] = [scopes[p] EXCEPT !.address = IF Len(p) = 1 THEN Global ELSE insert_block,
                                            !.home = current_node]
  BY ZenonT(60) DEF TouchedBy, Touched
<1>2. \A p \in given : \E x : p = Lookup(x) /\ p # Root
  BY DEF Unset, Unknown
<1> HIDE DEF new, given
<1>3. ASSUME NEW p \in DOMAIN new, new[p].address > 0, new[p] # scopes[p]
      PROVE  new[p].address = insert_block /\ new[p].home = current_node /\ current_node # Root
  <2>1. /\ p \in given
        /\ new[p] = [scopes[p] EXCEPT !.address = IF Len(p) = 1 THEN Global ELSE insert_block,
                                      !.home = current_node]
    BY <1>1, <1>3
  <2>2. scopes[p] \in Node
    BY <1>1 DEF TreeInv, InTree, TreeOf
  <2>3. /\ new[p].address = IF Len(p) = 1 THEN Global ELSE insert_block
        /\ new[p].home = current_node
    BY <2>1, <2>2 DEF Node
  <2>4. Len(p) # 1
    BY <1>3, <2>3 DEF Global
  <2>5. current_node # Root
    <3> SUFFICES ASSUME current_node = Root PROVE FALSE
      OBVIOUS
    <3>1. PICK x : p = Lookup(x) /\ p # Root
      BY <1>2, <2>1
    <3>2. PICK i \in 0 .. Len(current_node) : p = Append(SubSeq(current_node, 1, i), Id(x))
      BY <3>1, LookupFinds
    <3> QED BY <2>4, <3>2, BelowRoot
  <2> QED BY <2>3, <2>4, <2>5
<1>4. Stores(scopes, new, insert_block, current_node)
  BY <1>1, <1>3 DEF Stores
<1> QED BY <1>4 DEF new

\* What find_value finds.
Found(x) == scopes[Lookup(x)]

\* A use is noted where the builder inserts; the storage is that of a name, as it was
\* or as it is allocated here.
NewUse(u) ==
  /\ u \in [at : {insert_block}, of : Nat \cup {Global}, within : BOOLEAN]
  /\ u.of > 0 => \/ \E x : /\ Found(x).address = u.of
                           /\ u.within = IsPrefix(Found(x).home, current_node)
                 \/ u.of = insert_block /\ current_node # Root

UsesStep == uses \subseteq uses' /\ \A u \in uses' \ uses : NewUse(u)

LEMMA UseOf ==
  ASSUME NEW of \in Nat \cup {Global}, NEW home
  PROVE  /\ Use(of, home) \in [at : {insert_block}, of : Nat \cup {Global}, within : BOOLEAN]
         /\ Use(of, home).of = of
         /\ Use(of, home).within = IsPrefix(home, current_node)
<1>1. IsPrefix(home, current_node) \in BOOLEAN
  BY DEF IsPrefix
<1> QED BY <1>1 DEF Use

\* Uses of names in scopes that hold the storage the current ones held.
LEMMA UsedStep ==
  ASSUME TreeInv, NEW nodes, Stores(scopes, nodes, insert_block, current_node),
         DOMAIN nodes = DOMAIN scopes, \A p \in DOMAIN nodes : nodes[p] \in Node,
         NEW names, NEW more, \A u \in more : NewUse(u),
         uses' = Used(nodes, names) \cup more
  PROVE  UsesStep
<1> DEFINE use(x) == Use(nodes[Lookup(x)].address, nodes[Lookup(x)].home)
<1>1. uses' = uses \cup {use(x) : x \in names} \cup more
  BY DEF Used
<1>2. ASSUME NEW x PROVE NewUse(use(x))
  <2> DEFINE p == Lookup(x)
             of == nodes[p].address
             home == nodes[p].home
  <2>1. p \in DOMAIN scopes /\ of \in Nat \cup {Global}
    BY LookupFinds DEF Node
  <2>2. of > 0 => \/ of = scopes[p].address /\ home = scopes[p].home
                  \/ of = insert_block /\ current_node # Root
    BY <2>1 DEF Stores
  <2>3. scopes[p] = Found(x)
    BY DEF Found
  <2>4. use(x) = Use(of, home)
    OBVIOUS
  <2> HIDE DEF use, of, home, p
  <2>5. /\ use(x) \in [at : {insert_block}, of : Nat \cup {Global}, within : BOOLEAN]
        /\ use(x).of = of /\ use(x).within = IsPrefix(home, current_node)
    BY <2>1, <2>4, UseOf
  <2>6. CASE of = scopes[p].address /\ home = scopes[p].home
    BY <2>3, <2>5, <2>6 DEF NewUse
  <2>7. CASE of = insert_block /\ current_node # Root
    BY <2>5, <2>7 DEF NewUse
  <2>8. CASE ~(of > 0)
    BY <2>5, <2>8 DEF NewUse
  <2> QED BY <2>2, <2>6, <2>7, <2>8
<1> HIDE DEF use
<1> QED BY <1>1, <1>2 DEF UsesStep

LEMMA EvaluatedUses ==
  ASSUME TreeInv, NEW S, NEW m, uses' = UsedBy(S, m)
  PROVE  UsesStep
<1> DEFINE nodes == TouchedBy(S, m)
           names == Loads(S, m) \cup Targets(S, m)
           more == {}
<1>1. /\ Stores(scopes, nodes, insert_block, current_node)
      /\ DOMAIN nodes = DOMAIN scopes /\ \A p \in DOMAIN nodes : nodes[p] \in Node
  BY StoresTouched, TouchTree DEF TreeInv
<1>2. uses' = Used(nodes, names) \cup more /\ \A u \in more : NewUse(u)
  BY DEF UsedBy
<1> HIDE DEF nodes, names, more
<1> QED BY <1>1, <1>2, UsedStep

LEMMA SameUses ==
  ASSUME uses' = uses
  PROVE  UsesStep
  BY DEF UsesStep

LEMMA EvaluateUses ==
  ASSUME TreeInv, NEW S, NEW m, Evaluate(S, m)
  PROVE  UsesStep
  BY EvaluatedUses, SameUses DEF Evaluate

LEMMA EndUses ==
  ASSUME NEW o, End(o)
  PROVE  UsesStep
  BY SameUses DEF End, code

\* A call is of no storage.
LEMMA CalledUses ==
  ASSUME TreeInv, NEW names, uses' = Used(scopes, names) \cup {Call}
  PROVE  UsesStep
<1>1. Stores(scopes, scopes, insert_block, current_node) /\ \A p \in DOMAIN scopes : scopes[p] \in Node
  BY DEF Stores, TreeInv, InTree, TreeOf
<1> DEFINE more == {Call}
<1>2. NewUse(Call)
  <2>1. Global \in Nat \cup {Global} /\ ~(Global > 0)
    BY DEF Global
  <2>2. /\ Call \in [at : {insert_block}, of : Nat \cup {Global}, within : BOOLEAN]
        /\ Call.of = Global
    BY <2>1, UseOf DEF Call
  <2> QED BY <2>1, <2>2 DEF NewUse
<1>3. uses' = Used(scopes, names) \cup more /\ \A u \in more : NewUse(u)
  BY <1>2
<1> HIDE DEF more
<1> QED BY <1>1, <1>3, UsedStep

LEMMA ExpressionUses ==
  ASSUME TreeInv, NEW t, Expression(t)
  PROVE  UsesStep
<1>1. CASE \E o : End(o)
  BY <1>1, EndUses
<1>2. CASE enter_parentheses(t) \/ push_operator(t)
  <2>1. UNCHANGED uses \/ \E o : End(o)
    BY <1>2 DEF enter_parentheses, push_operator, code
  <2> QED BY <1>1, <2>1, SameUses
<1>3. CASE solve_then_push_operator(t)
  <2>1. (\E o : End(o)) \/ \E m : Evaluate(symbol_stack, m)
    BY <1>3, Zenon DEF solve_then_push_operator
  <2> QED BY <1>1, <2>1, EvaluateUses
<1>4. CASE expression_fails(t) \/ parenthesis_fails(t)
  <2>1. \E o : End(o)
    BY <1>4, Zenon DEF expression_fails, LoopFails, parenthesis_fails
  <2> QED BY <1>1, <2>1
<1>5. ASSUME NEW m,
             \/ expression_statement(t, m) \/ return_statement(t, m)
             \/ reduce_condition_calculate(t, m)
             \/ reduce_group(t, m) \/ reduce_operatorbrace(t, m)
      PROVE  UsesStep
  <2>1. CASE expression_statement(t, m)
    <3>1. (\E o : End(o)) \/ Evaluate(symbol_stack, m)
      BY <2>1, Zenon DEF expression_statement
    <3> QED BY <1>1, <3>1, EvaluateUses
  <2>2. CASE return_statement(t, m)
    <3>1. (\E o : End(o)) \/ uses' = UsedBy(symbol_stack, m)
      BY <2>2, Zenon DEF return_statement
    <3> QED BY <1>1, <3>1, EvaluatedUses
  <2>3. CASE reduce_condition_calculate(t, m)
    <3>1. (\E o : End(o)) \/ uses' = UsedBy(symbol_stack, m)
      BY <2>3, Zenon DEF reduce_condition_calculate
    <3> QED BY <1>1, <3>1, EvaluatedUses
  <2>4. CASE reduce_group(t, m)
    <3>1. (\E o : End(o)) \/ Evaluate(symbol_stack, m + 1)
      BY <2>4, Zenon DEF reduce_group
    <3> QED BY <1>1, <3>1, EvaluateUses
  <2>5. CASE reduce_operatorbrace(t, m)
    <3>1. (\E o : End(o)) \/ \E names : uses' = Used(scopes, names) \cup {Call}
      BY <2>5, Zenon DEF reduce_operatorbrace
    <3> QED BY <1>1, <3>1, CalledUses
  <2> QED BY <1>5, <2>1, <2>2, <2>3, <2>4, <2>5
<1> QED BY <1>2, <1>3, <1>4, <1>5 DEF Expression

LEMMA StepUses ==
  ASSUME TreeInv, NEW t, process_token(t)
  PROVE  UsesStep
<1>1. CASE \E o : End(o)
  BY <1>1, EndUses
<1>2. CASE UNCHANGED uses
  BY <1>2, SameUses
<1>3. CASE Shift(t) \/ NoRow(t) \/ Ignore(t) \/ skip(t)
  BY <1>1, <1>2, <1>3 DEF Shift, NoRow, Ignore, skip, vars, code
<1>4. CASE Header(t)
  BY <1>1, <1>2, <1>4 DEF Header, get_function_name, get_argument, wait_function_return_type,
                          get_function_return_type, function_declear, code
<1>5. CASE Body(t)
  BY <1>1, <1>2, <1>5 DEF Body, function_body_define_strart, has_return_type_function_define,
                          function_body_define_finished, StartBody
<1>6. CASE Variable(t)
  BY <1>1, <1>2, <1>6 DEF Variable, define_pointer, define_variable, define_again,
                          define_finished, Define, code
<1>7. CASE Branching(t)
  <2>1. UNCHANGED uses \/ \E o : End(o)
    BY <1>7 DEF Branching, start_while_condition, end_while_body, start_if_condition,
                end_if_body1, check_if_body2, end_if_body2, code
  <2> QED BY <1>1, <1>2, <2>1
<1>8. CASE Reduce(t)
  <2>1. \/ skip(t) \/ Header(t) \/ Body(t) \/ Variable(t) \/ Branching(t) \/ Expression(t)
    BY <1>8 DEF Reduce
  <2> QED BY <1>3, <1>4, <1>5, <1>6, <1>7, <2>1, ExpressionUses
<1> QED BY <1>3, <1>8 DEF process_token

LEMMA AnyStepUses ==
  ASSUME TreeInv, [Next]_vars
  PROVE  UsesStep
<1>1. CASE EndOfInput
  BY <1>1, EndUses DEF EndOfInput
<1>2. CASE UNCHANGED vars
  BY <1>2, SameUses DEF vars, code
<1> QED BY <1>1, <1>2, StepUses DEF Next

UsesTyped == uses \subseteq [at : Nat, of : Nat \cup {Global}, within : BOOLEAN]

LEMMA UsesStayTyped ==
  ASSUME TreeInv, UsesTyped, [Next]_vars
  PROVE  UsesTyped'
<1>1. UsesStep
  BY AnyStepUses
<1>2. insert_block \in Nat
  BY DEF TreeInv, IInv, TypeOfCode, MaybeBlock
<1>3. \A u : NewUse(u) => u \in [at : Nat, of : Nat \cup {Global}, within : BOOLEAN]
  BY <1>2 DEF NewUse
<1> QED BY <1>1, <1>3 DEF UsesStep, UsesTyped

\* Every variable of the parser keeps its type, for every program text.
THEOREM ParserStaysTyped == Spec => []TypeOK
<1>1. Init => UsesTyped
  BY DEF Init, UsesTyped
<1>2. TreeInv /\ UsesTyped /\ [Next]_vars => UsesTyped'
  BY UsesStayTyped
<1>3. TreeInv /\ RefInv /\ PrioInv /\ UsesTyped => TypeOK
  BY DEF TypeOK, TreeInv, IInv, InTree, TreeOf, TypeOfTree, RefInv, ParserInv, DefinitionsTyped,
         PrioInv, TypeOfResult, UsesTyped
<1> QED BY <1>1, <1>2, <1>3, RefInvariance, PriorityInvariance, PTL DEF Spec

-----------------------------------------------------------------------------
(* Finished code. *)

\* A use is noted in the block being written, which is one of the function being
\* parsed; outside functions it is the last one of the function finished last.
LEMMA UsesElsewhere ==
  ASSUME TreeInv, RefInv, Proofs!Resting, UsesStep, NEW i \in DOMAIN definitions,
         NEW b \in SeqRange(definitions[i].blocks)
  PROVE  \/ {u \in uses' : u.at = b} = {u \in uses : u.at = b}
         \/ current_node = Root /\ i = Len(definitions) /\ b = insert_block
<1>1. CASE insert_block # b
  <2>1. \A u \in uses' \ uses : u.at = insert_block
    BY DEF UsesStep, NewUse
  <2> QED BY <1>1, <2>1 DEF UsesStep
<1>2. CASE insert_block = b
  <2>1. ~Inside
    <3> SUFFICES ASSUME Inside PROVE FALSE
      OBVIOUS
    <3>1. Proofs!Open
      BY BlocksNow
    <3>2. b \in Proofs!Members(func_param.basic_blocks)
      BY <1>2, <3>1 DEF RefInv, Proofs!CodeInv, Proofs!FunctionIsOpen
    <3>3. Proofs!Members(Defined[i]) \cap Proofs!Mine = {} /\ b \in Proofs!Members(Defined[i])
      BY WholeFunctions DEF Proofs!FunctionsAreDisjoint
    <3> QED BY <3>2, <3>3 DEF Proofs!Mine
  <2>2. current_node = Root
    BY <2>1, Outside
  <2>3. ~Proofs!Open
    BY <2>1, BlocksNow
  <2>4. definitions \in Seq([scope : Path, fn : Nat, blocks : Seq(Nat)])
    BY DEF RefInv, ParserInv, DefinitionsTyped
  <2>5. Len(definitions) \in DOMAIN definitions /\ Len(Defined) = Len(definitions) /\ Defined # <<>>
    BY <2>4 DEF Defined
  <2>6. /\ b \in Proofs!Members(Defined[i])
        /\ b \in Proofs!Members(Defined[Len(definitions)])
    BY <1>2, <2>3, <2>5, WholeFunctions DEF Proofs!Resting
  <2>7. i = Len(definitions)
    BY <2>5, <2>6, WholeFunctions DEF Proofs!FunctionsAreDisjoint
  <2> QED BY <1>2, <2>2, <2>7
<1> QED BY <1>1, <1>2

LEMMA RestingInitially == Init => Proofs!Resting
<1>1. Init => Defined = <<>>
  BY DEF Init, Defined
<1> QED BY <1>1 DEF Proofs!Resting

LEMMA RestingInductive == TreeInv /\ TreeInv' /\ RefInv /\ Proofs!Resting /\ [Next]_vars => (Proofs!Resting)'
<1> SUFFICES ASSUME TreeInv, TreeInv', RefInv, Proofs!Resting, [Next]_vars PROVE (Proofs!Resting)'
  OBVIOUS
<1>1. Proofs!CodeInv /\ [Proofs!Next]_(Proofs!vars)
  BY RefInductive DEF RefInv
<1> QED BY <1>1, Proofs!RestingStep

\* No step adds a terminator to the blocks of a function that was filled; a load, store
\* or call is added outside all functions only, to the block that the builder was left
\* in, which is one of the function that was filled last.
THEOREM FilledCodeStays == Spec => FilledCodeGrowsAtRootOnly
<1> DEFINE Stays == \A i \in DOMAIN definitions : \A b \in SeqRange(definitions[i].blocks) :
                     /\ terms'[b] = terms[b]
                     /\ \/ {u \in uses' : u.at = b} = {u \in uses : u.at = b}
                        \/ current_node = Root /\ i = Len(definitions) /\ b = insert_block
<1>1. ASSUME TreeInv, TreeInv', RefInv, Proofs!Resting, [Next]_vars
      PROVE  Stays
  <2> SUFFICES ASSUME NEW i \in DOMAIN definitions, NEW b \in SeqRange(definitions[i].blocks)
               PROVE  /\ terms'[b] = terms[b]
                      /\ \/ {u \in uses' : u.at = b} = {u \in uses : u.at = b}
                         \/ current_node = Root /\ i = Len(definitions) /\ b = insert_block
    OBVIOUS
  <2>1. [Proofs!Next]_(Proofs!vars)
    BY <1>1, RefInductive
  <2>2. /\ b \in Proofs!Members(Defined[i]) /\ i \in DOMAIN Defined
        /\ Proofs!Members(Defined[i]) \cap Proofs!Mine = {}
    BY <1>1, WholeFunctions DEF Proofs!FunctionsAreDisjoint
  <2>3. b \in 1 .. Len(terms)
    <3>1. Defined \in Seq(Seq(1 .. Len(terms)))
      BY <1>1 DEF RefInv, Proofs!CodeInv, Proofs!TypeOfBlocks
    <3>2. Defined[i] \in Seq(1 .. Len(terms))
      BY <2>2, <3>1, ElementOfDomain
    <3> QED BY <2>2, <3>2 DEF Proofs!Members
  <2>4. terms'[b] = terms[b]
    <3>1. CASE Proofs!Next
      <4>1. b \notin Proofs!Members(func_param.basic_blocks)
        BY <2>2 DEF Proofs!Mine
      <4> QED BY <1>1, <2>3, <3>1, <4>1, Proofs!StepWrites DEF RefInv, Proofs!Block
    <3>2. CASE UNCHANGED Proofs!vars
      BY <3>2 DEF Proofs!vars
    <3> QED BY <2>1, <3>1, <3>2
  <2> QED BY <1>1, <2>4, AnyStepUses, UsesElsewhere
<1>2. TreeInv /\ TreeInv' /\ RefInv /\ Proofs!Resting /\ [Next]_vars => [Stays]_vars
  BY <1>1
<1> HIDE DEF Stays
<1>3. Spec => [][Stays]_vars
  BY <1>2, RestingInitially, RestingInductive, TreeInvariance, RefInvariance, PTL DEF Spec
<1> QED BY <1>3 DEF FilledCodeGrowsAtRootOnly, Stays

-----------------------------------------------------------------------------
(* The conditions on the stack. *)

CondStatus == {17, 19, 20, 21, 23, 24}
HeldConds(ss) == {i \in 1 .. Len(ss) : ss[i] \in CondStatus}

\* What is known of a condition while it is parsed, when there are n blocks.
Known(s, c, n) ==
  /\ s = 17 => c.body1 = 0 /\ c.exit_block = 0
  /\ s \in {19, 20, 21} => c.body2 \in 1 .. n /\ c.exit_block = 0
  /\ s = 23 => c.entery_block \in 1 .. n /\ c.exit_block = 0
  /\ s = 24 => c.entery_block \in 1 .. n /\ c.exit_block \in 1 .. n

\* The conditions that live are those on the stack, where each is above the ones
\* allocated before it.
CondsFit(ss, ys, cs, n) ==
  /\ \A c \in 1 .. Len(cs) : cs[c].live <=> \E i \in HeldConds(ss) : ys[i].cond = c
  /\ \A i, j \in HeldConds(ss) : i < j => ys[i].cond < ys[j].cond
  /\ \A i \in HeldConds(ss) : Known(ss[i], cs[ys[i].cond], n)

CondInv == CondsFit(status_stack, symbol_stack, conds, Len(terms))

\* Above n there is no condition.
Free(ss, n) == \A i \in n + 1 .. Len(ss) : ss[i] \notin CondStatus

\* Two stacks have the lowest n entries in common.
Common(ss, ys, zs, ws, n) ==
  /\ n \in 0 .. Len(ss) /\ n <= Len(zs)
  /\ \A i \in 1 .. n : zs[i] = ss[i] /\ ws[i] = ys[i]

LEMMA KnownGrows ==
  ASSUME NEW s, NEW c, NEW n \in Nat, NEW m \in Nat, n <= m, Known(s, c, n)
  PROVE  Known(s, c, m)
  BY DEF Known

\* The conditions held below n, and above it.
LEMMA HeldApart ==
  ASSUME NEW ss, NEW ys, NEW zs, NEW ws, NEW n, Common(ss, ys, zs, ws, n),
         Len(ss) \in Nat, Len(zs) \in Nat
  PROVE  /\ \A i \in HeldConds(ss) : i \in Nat /\ (i \in 1 .. n => i \in HeldConds(zs))
         /\ \A i \in HeldConds(zs) : i \in Nat /\ (i \in 1 .. n => i \in HeldConds(ss))
         /\ \A i \in HeldConds(ss) \cup HeldConds(zs) : i > n \/ i \in 1 .. n
         /\ Free(ss, n) => \A i \in HeldConds(ss) : i \in 1 .. n
         /\ Free(zs, n) => \A i \in HeldConds(zs) : i \in 1 .. n
         /\ \A i \in 1 .. n : zs[i] = ss[i] /\ ws[i] = ys[i]
         /\ n \in Nat /\ n <= Len(ss) /\ n <= Len(zs)
<1>1. n \in Nat /\ n <= Len(ss) /\ n <= Len(zs)
  BY DEF Common
<1>2. \A i \in 1 .. n : i \in 1 .. Len(ss) /\ i \in 1 .. Len(zs)
  BY <1>1
<1>3. \A i \in 1 .. Len(ss) : i \in Nat /\ (i \in n + 1 .. Len(ss) \/ i \in 1 .. n)
  BY <1>1
<1>4. \A i \in 1 .. Len(zs) : i \in Nat /\ (i \in n + 1 .. Len(zs) \/ i \in 1 .. n)
  BY <1>1
<1>5. \A i \in n + 1 .. Len(ss) : i > n
  BY <1>1
<1>6. \A i \in n + 1 .. Len(zs) : i > n
  BY <1>1
<1> QED BY <1>1, <1>2, <1>3, <1>4, <1>5, <1>6 DEF HeldConds, Free, Common

\* Nothing that holds a condition is dropped or pushed.
LEMMA FitKept ==
  ASSUME NEW ss, NEW ys, NEW cs, NEW b \in Nat, CondsFit(ss, ys, cs, b),
         NEW zs, NEW ws, NEW n, Common(ss, ys, zs, ws, n), Free(ss, n), Free(zs, n),
         Len(ss) \in Nat, Len(zs) \in Nat, NEW d \in Nat, b <= d
  PROVE  CondsFit(zs, ws, cs, d)
<1>1. HeldConds(zs) = HeldConds(ss) /\ \A i \in HeldConds(ss) : zs[i] = ss[i] /\ ws[i] = ys[i]
  BY HeldApart
<1> QED BY <1>1, KnownGrows DEF CondsFit

\* The topmost condition, at p, is taken off and deleted.
Drops(ss, ys, cs, p, zs, ws, ds) ==
  /\ p \in HeldConds(ss) /\ Free(ss, p)
  /\ \A i \in HeldConds(ss) : ys[i].cond \in 1 .. Len(cs)
  /\ Common(ss, ys, zs, ws, p - 1) /\ Free(zs, p - 1)
  /\ Len(ss) \in Nat /\ Len(zs) \in Nat /\ Len(cs) \in Nat /\ Len(ds) = Len(cs)
  /\ \A c \in 1 .. Len(cs) :
       /\ c # ys[p].cond => ds[c] = cs[c]
       /\ c = ys[p].cond => ~ds[c].live

LEMMA FitDropped ==
  ASSUME NEW ss, NEW ys, NEW cs, NEW b \in Nat, CondsFit(ss, ys, cs, b),
         NEW p, NEW zs, NEW ws, NEW ds, Drops(ss, ys, cs, p, zs, ws, ds)
  PROVE  CondsFit(zs, ws, ds, b)
<1> USE DEF Drops
<1>1. /\ \A i \in HeldConds(ss) : i \in Nat /\ (i \in 1 .. p - 1 => i \in HeldConds(zs))
      /\ \A i \in HeldConds(zs) : i \in HeldConds(ss) /\ i \in 1 .. p - 1
      /\ \A i \in 1 .. p - 1 : zs[i] = ss[i] /\ ws[i] = ys[i]
  BY HeldApart
<1>2. p \in Nat /\ \A i \in HeldConds(ss) : i = p \/ i \in 1 .. p - 1
  <2>1. \A i \in HeldConds(ss) : i \in 1 .. Len(ss) /\ (i \in p + 1 .. Len(ss) => FALSE)
    BY DEF HeldConds, Free
  <2>2. p \in 1 .. Len(ss)
    BY <2>1
  <2> QED BY <2>1, <2>2
<1>3. \A i \in 1 .. p - 1 : i < p
  BY <1>2
<1>4. \A i \in HeldConds(zs) : ys[i].cond < ys[p].cond /\ ys[i].cond \in 1 .. Len(cs)
  BY <1>1, <1>3 DEF CondsFit
<1>5. \A i \in HeldConds(zs) : ws[i] = ys[i] /\ zs[i] = ss[i] /\ ys[i].cond # ys[p].cond
  <2>1. ys[p].cond \in 1 .. Len(cs)
    OBVIOUS
  <2> QED BY <1>1, <1>4, <2>1
<1>6. ASSUME NEW c \in 1 .. Len(ds)
      PROVE  ds[c].live <=> \E i \in HeldConds(zs) : ws[i].cond = c
  <2>1. CASE c = ys[p].cond
    BY <1>5, <1>6, <2>1
  <2>2. CASE c # ys[p].cond
    <3>1. ds[c].live <=> \E i \in HeldConds(ss) : ys[i].cond = c
      BY <1>6, <2>2 DEF CondsFit
    <3> QED BY <1>1, <1>2, <1>5, <2>2, <3>1
  <2> QED BY <2>1, <2>2
<1>7. \A i \in HeldConds(zs) : Known(zs[i], ds[ws[i].cond], b)
  BY <1>1, <1>4, <1>5 DEF CondsFit
<1>8. \A i, j \in HeldConds(zs) : i < j => ws[i].cond < ws[j].cond
  BY <1>1, <1>5 DEF CondsFit
<1> QED BY <1>6, <1>7, <1>8 DEF CondsFit

\* A new condition is pushed, when there are d blocks.
Pushes(ss, ys, cs, zs, ws, ds, d) ==
  /\ \A i \in HeldConds(ss) : ys[i].cond \in 1 .. Len(cs)
  /\ Len(ss) \in Nat /\ Len(cs) \in Nat
  /\ Common(ss, ys, zs, ws, Len(ss)) /\ Len(zs) = Len(ss) + 1
  /\ zs[Len(ss) + 1] \in CondStatus /\ ws[Len(ss) + 1].cond = Len(cs) + 1
  /\ Len(ds) = Len(cs) + 1 /\ \A c \in 1 .. Len(cs) : ds[c] = cs[c]
  /\ ds[Len(cs) + 1].live
  /\ Known(zs[Len(ss) + 1], ds[Len(cs) + 1], d)

LEMMA FitPushed ==
  ASSUME NEW ss, NEW ys, NEW cs, NEW b \in Nat, CondsFit(ss, ys, cs, b),
         NEW zs, NEW ws, NEW ds, NEW d \in Nat, b <= d, Pushes(ss, ys, cs, zs, ws, ds, d)
  PROVE  CondsFit(zs, ws, ds, d)
<1> USE DEF Pushes
<1> DEFINE n == Len(ss)
           k == Len(cs)
<1>1. /\ \A i \in HeldConds(ss) : i \in 1 .. n /\ i \in HeldConds(zs)
      /\ \A i \in HeldConds(zs) : i \in 1 .. n => i \in HeldConds(ss)
      /\ \A i \in 1 .. n : zs[i] = ss[i] /\ ws[i] = ys[i]
  BY HeldApart DEF HeldConds
<1>2. /\ n + 1 \in HeldConds(zs)
      /\ \A i \in HeldConds(zs) : i = n + 1 \/ i \in 1 .. n
      /\ \A i \in 1 .. n : ~(n + 1 < i) /\ i # n + 1
  BY DEF HeldConds
<1>3. \A c \in 1 .. k : c \in 1 .. k + 1 /\ c # k + 1 /\ c < k + 1
  OBVIOUS
<1>4. \A c \in 1 .. k + 1 : c = k + 1 \/ c \in 1 .. k
  OBVIOUS
<1> HIDE DEF n, k
<1>5. \A c \in 1 .. Len(ds) : ds[c].live <=> \E i \in HeldConds(zs) : ws[i].cond = c
  <2>1. ASSUME NEW c \in 1 .. k PROVE ds[c].live <=> \E i \in HeldConds(zs) : ws[i].cond = c
    <3>1. ds[c].live <=> \E i \in HeldConds(ss) : ys[i].cond = c
      BY <2>1 DEF CondsFit, k
    <3> QED BY <1>1, <1>2, <1>3, <3>1 DEF n, k
  <2>2. ds[k + 1].live /\ \E i \in HeldConds(zs) : ws[i].cond = k + 1
    BY <1>2 DEF n, k
  <2> QED BY <1>4, <2>1, <2>2 DEF k
<1>6. \A i, j \in HeldConds(zs) : i < j => ws[i].cond < ws[j].cond
  <2> SUFFICES ASSUME NEW i \in HeldConds(zs), NEW j \in HeldConds(zs), i < j
               PROVE  ws[i].cond < ws[j].cond
    OBVIOUS
  <2>1. i \in 1 .. n
    <3>1. CASE i = n + 1
      <4>1. j \in 1 .. n \/ j = n + 1
        BY <1>2
      <4>2. n \in Nat
        BY DEF n
      <4> QED BY <1>2, <3>1, <4>1, <4>2
    <3> QED BY <1>2, <3>1
  <2>2. ws[i].cond \in 1 .. k
    BY <1>1, <2>1 DEF k
  <2>3. CASE j = n + 1
    BY <1>3, <2>2, <2>3 DEF n, k
  <2>4. CASE j \in 1 .. n
    BY <1>1, <2>1, <2>4 DEF CondsFit
  <2> QED BY <1>2, <2>3, <2>4
<1>7. \A i \in HeldConds(zs) : Known(zs[i], ds[ws[i].cond], d)
  <2>1. \A i \in HeldConds(ss) : Known(zs[i], ds[ws[i].cond], d)
    BY <1>1, KnownGrows DEF CondsFit
  <2> QED BY <1>1, <1>2, <2>1 DEF n, k
<1> QED BY <1>5, <1>6, <1>7 DEF CondsFit

\* The topmost condition, at p, gets another status, when there are d blocks.
Changes(ss, ys, cs, p, zs, ws, ds, d) ==
  /\ p \in HeldConds(ss) /\ Free(ss, p)
  /\ \A i \in HeldConds(ss) : ys[i].cond \in 1 .. Len(cs)
  /\ Len(ss) \in Nat /\ Len(cs) \in Nat
  /\ Common(ss, ys, zs, ws, p - 1) /\ Len(zs) = p
  /\ zs[p] \in CondStatus /\ ws[p] = ys[p]
  /\ Len(ds) = Len(cs)
  /\ \A c \in 1 .. Len(cs) : ds[c].live = cs[c].live /\ (c # ys[p].cond => ds[c] = cs[c])
  /\ Known(zs[p], ds[ys[p].cond], d)

LEMMA FitChanged ==
  ASSUME NEW ss, NEW ys, NEW cs, NEW b \in Nat, CondsFit(ss, ys, cs, b),
         NEW p, NEW zs, NEW ws, NEW ds, NEW d \in Nat, b <= d,
         Changes(ss, ys, cs, p, zs, ws, ds, d)
  PROVE  CondsFit(zs, ws, ds, d)
<1> USE DEF Changes
<1>1. p \in 1 .. Len(ss) /\ \A i \in HeldConds(ss) : i = p \/ i \in 1 .. p - 1
  <2>1. \A i \in HeldConds(ss) : i \in 1 .. Len(ss) /\ (i \in p + 1 .. Len(ss) => FALSE)
    BY DEF HeldConds, Free
  <2> QED BY <2>1
<1>2. /\ p \in HeldConds(zs) /\ \A i \in HeldConds(zs) : i = p \/ i \in 1 .. p - 1
      /\ \A i \in 1 .. p - 1 : i < p /\ i # p
  BY <1>1 DEF HeldConds
<1>3. /\ \A i \in 1 .. p - 1 : i \in HeldConds(ss) <=> i \in HeldConds(zs)
      /\ \A i \in 1 .. p - 1 : zs[i] = ss[i] /\ ws[i] = ys[i]
  <2>1. Common(ss, ys, zs, ws, p - 1) /\ Len(ss) \in Nat /\ Len(zs) \in Nat /\ p - 1 < p
    BY <1>1
  <2>2. \A i \in 1 .. p - 1 : zs[i] = ss[i] /\ ws[i] = ys[i]
    BY <2>1, HeldApart
  <2>3. \A i \in 1 .. p - 1 : i \in HeldConds(ss) <=> i \in HeldConds(zs)
    BY ONLY <2>1, HeldApart
  <2> QED BY ONLY <2>2, <2>3, Zenon
<1>4. HeldConds(zs) = HeldConds(ss) /\ \A i \in HeldConds(ss) : ws[i] = ys[i]
  <2>1. p \in HeldConds(ss) /\ ws[p] = ys[p]
    OBVIOUS
  <2>2. \A i \in HeldConds(ss) : i \in HeldConds(zs) /\ ws[i] = ys[i]
    BY ONLY <1>1, <1>2, <1>3, <2>1, Zenon
  <2>3. \A i \in HeldConds(zs) : i \in HeldConds(ss)
    BY ONLY <1>2, <1>3, <2>1, Zenon
  <2> QED BY ONLY <2>2, <2>3, Zenon
<1>5. ASSUME NEW i \in HeldConds(zs), i # p PROVE Known(zs[i], ds[ws[i].cond], d)
  <2>1. i \in 1 .. p - 1 /\ zs[i] = ss[i]
    BY <1>2, <1>3, <1>5
  <2>2. ys[i].cond < ys[p].cond /\ ys[i].cond \in 1 .. Len(cs) /\ ys[p].cond \in 1 .. Len(cs)
    BY <1>2, <1>4, <2>1 DEF CondsFit
  <2>3. ds[ws[i].cond] = cs[ys[i].cond]
    BY <1>4, <2>2
  <2>4. Known(ss[i], cs[ys[i].cond], b)
    BY <1>4 DEF CondsFit
  <2> QED BY <2>1, <2>3, <2>4, KnownGrows
<1>6. Known(zs[p], ds[ws[p].cond], d)
  OBVIOUS
<1>7. \A c \in 1 .. Len(ds) : ds[c].live <=> \E i \in HeldConds(zs) : ws[i].cond = c
  <2>1. \A c \in 1 .. Len(cs) : cs[c].live <=> \E i \in HeldConds(ss) : ys[i].cond = c
    BY DEF CondsFit
  <2>2. Len(ds) = Len(cs) /\ \A c \in 1 .. Len(cs) : ds[c].live = cs[c].live
    OBVIOUS
  <2>3. \A c : (\E i \in HeldConds(zs) : ws[i].cond = c) <=> \E i \in HeldConds(ss) : ys[i].cond = c
    BY ONLY <1>4, Zenon
  <2> QED BY ONLY <2>1, <2>2, <2>3
<1>8. \A i, j \in HeldConds(zs) : i < j => ws[i].cond < ws[j].cond
  BY <1>4 DEF CondsFit
<1>9. \A i \in HeldConds(zs) : Known(zs[i], ds[ws[i].cond], d)
  BY ONLY <1>5, <1>6, Zenon
<1> QED BY ONLY <1>7, <1>8, <1>9 DEF CondsFit

\* A step keeps what holds conditions: up to n the stacks the handlers get are left as
\* they are, and above n there is no condition, before and after.
CondsStay(t) ==
  \E n : /\ KeptTo(n) /\ n <= Len(Statuses(t))
         /\ Free(Statuses(t), n) /\ Free(status_stack', n)

\* What the handlers get holds the conditions that live, also when a finished "if"
\* has been dropped.
LEMMA FitNow ==
  ASSUME IInv, CondInv, NEW t \in Token
  PROVE  /\ CondsFit(Statuses(t), Symbols(t), Conds(t), Len(terms))
         /\ \A i \in HeldConds(Statuses(t)) : Symbols(t)[i].cond \in 1 .. Len(Conds(t))
         /\ Len(Conds(t)) = Len(conds) /\ Len(conds) \in Nat
         /\ Len(Statuses(t)) \in Nat /\ Len(Symbols(t)) = Len(Statuses(t))
<1>1. /\ \A i \in HeldConds(status_stack) : symbol_stack[i].cond \in 1 .. Len(conds)
      /\ \A i \in HeldConds(Statuses(t)) : Symbols(t)[i].cond \in 1 .. Len(conds)
      /\ Len(Conds(t)) = Len(conds) /\ Len(conds) \in Nat
      /\ Len(Statuses(t)) \in Nat /\ Len(Symbols(t)) = Len(Statuses(t))
      /\ Len(status_stack) \in Nat /\ Len(symbol_stack) = Len(status_stack)
  BY OfCondition, CondFound, CondsNow, WholeStacks, Stacks DEF HeldConds, CondStatus
<1>2. CASE NoElse(t)
  <2> DEFINE p == Len(status_stack)
             c == symbol_stack[p].cond
  <2>1. /\ status_stack # <<>> /\ status_stack[p] = 20 /\ p \in 1 .. p
        /\ Statuses(t) = SubSeq(status_stack, 1, p - 1) /\ Symbols(t) = SubSeq(symbol_stack, 1, p - 1)
        /\ Conds(t) = [conds EXCEPT ![c].live = FALSE]
    BY <1>1, <1>2, Stacks DEF NoElse, Last, Statuses, Symbols, Conds, Front
  <2>2. p \in HeldConds(status_stack) /\ c \in 1 .. Len(conds)
    BY <1>1, <2>1 DEF HeldConds, CondStatus
  <2>3. Common(status_stack, symbol_stack, Statuses(t), Symbols(t), p - 1)
    <3>1. Len(Statuses(t)) = p - 1
      BY <2>1, Stacks
    <3> QED BY <1>1, <2>1, <3>1, Handed DEF Common
  <2>4. Free(status_stack, p) /\ Free(Statuses(t), p - 1)
    <3>1. Len(Statuses(t)) = p - 1
      BY <2>1, Stacks
    <3> QED BY <2>1, <3>1 DEF Free
  <2>5. \A d \in 1 .. Len(conds) :
          /\ d # c => Conds(t)[d] = conds[d]
          /\ d = c => ~Conds(t)[d].live
    <3>1. conds \in Seq(CondOf(MaybeBlock))
      BY DEF IInv, TypeOfCode
    <3> HIDE DEF c
    <3> QED BY <2>1, <2>2, <3>1 DEF CondOf
  <2>6. Len(terms) \in Nat
    BY DEF IInv, TypeOfCode
  <2> HIDE DEF p
  <2>7. CondsFit(Statuses(t), Symbols(t), Conds(t), Len(terms))
    <3>1. Drops(status_stack, symbol_stack, conds, p, Statuses(t), Symbols(t), Conds(t))
      BY <1>1, <2>2, <2>3, <2>4, <2>5 DEF Drops
    <3> QED BY <2>6, <3>1, FitDropped DEF CondInv
  <2> QED BY <1>1, <2>7
<1>3. CASE ~NoElse(t)
  BY <1>1, <1>3 DEF Statuses, Symbols, Conds, CondInv
<1> QED BY <1>1, <1>2, <1>3

LEMMA StayFits ==
  ASSUME IInv, IInv', CondInv, NEW t \in Token, CondsStay(t), conds' = Conds(t),
         Len(terms) <= Len(terms')
  PROVE  CondInv'
<1>1. PICK n : /\ KeptTo(n) /\ n <= Len(Statuses(t))
               /\ Free(Statuses(t), n) /\ Free(status_stack', n)
  BY DEF CondsStay
<1>2. /\ CondsFit(Statuses(t), Symbols(t), Conds(t), Len(terms))
      /\ Len(Statuses(t)) \in Nat /\ Len(status_stack') \in Nat
  BY FitNow, StacksNext
<1>3. Len(terms) \in Nat /\ Len(terms') \in Nat
  BY DEF IInv, TypeOfCode
<1>4. Common(Statuses(t), Symbols(t), status_stack', symbol_stack', n)
  <2>1. n \in 0 .. Len(Statuses(t)) /\ \A i \in 1 .. n : i \in 1 .. Len(Statuses(t))
    BY <1>1, <1>2 DEF KeptTo
  <2> QED BY <1>1, <2>1, Handed DEF Common, KeptTo
<1>5. CondsFit(status_stack', symbol_stack', Conds(t), Len(terms'))
  BY <1>1, <1>2, <1>3, <1>4, FitKept
<1> QED BY <1>5 DEF CondInv

\* Nothing happens to the stacks and the conditions.
LEMMA NothingFits ==
  ASSUME IInv, IInv', CondInv, UNCHANGED <<stacks, conds, terms>>
  PROVE  CondInv'
  BY DEF CondInv, stacks

LEMMA EndFits ==
  ASSUME IInv, IInv', CondInv, NEW o, End(o)
  PROVE  CondInv'
  BY NothingFits DEF End, code

LEMMA StayCut ==
  ASSUME IInv, IInv', NEW t \in Token, NEW n, Cuts(t, n), Free(Statuses(t), n),
         \/ status_stack' = SubSeq(Statuses(t), 1, n)
         \/ \E s : s \notin CondStatus /\ status_stack' = Append(SubSeq(Statuses(t), 1, n), s)
  PROVE  CondsStay(t)
<1>1. /\ KeptTo(n)
      /\ \/ Len(status_stack') = n
         \/ Len(status_stack') = n + 1 /\ status_stack'[n + 1] \notin CondStatus
  BY Keeping
<1>2. n \in Nat /\ n <= Len(Statuses(t))
  BY WholeStacks DEF Cuts
<1>3. \A i \in n + 1 .. Len(status_stack') : i = n + 1 /\ Len(status_stack') # n
  BY <1>1, <1>2
<1> QED BY <1>1, <1>2, <1>3 DEF CondsStay, Free

\* The n topmost entries of the status stack are dropped, and the k topmost of the
\* other.
LEMMA StayTop ==
  ASSUME IInv, IInv', NEW t \in Token, NEW n \in 0 .. 2, NEW k \in 0 .. n,
         n # 0 => CurrentStatus(t) \notin CondStatus \cup {0},
         n = 2 => CurrentStatus(t) \in {10, 12, 15},
         \/ symbol_stack' = Pop(Symbols(t), k)
         \/ \E y : symbol_stack' = Append(Pop(Symbols(t), k), y),
         \/ status_stack' = Pop(Statuses(t), n)
         \/ \E s : s \notin CondStatus /\ status_stack' = Append(Pop(Statuses(t), n), s)
  PROVE  CondsStay(t)
<1> DEFINE N == Len(Statuses(t))
           i == N - n
           j == N - k
<1>1. N \in Nat /\ Len(Symbols(t)) = N
  BY WholeStacks
<1>2. n # 0 => N - 1 \in 0 .. N /\ Statuses(t)[N] = CurrentStatus(t)
  BY TopCut
<1>3. ASSUME n = 2 PROVE N - 2 \in 0 .. N /\ Statuses(t)[N - 1] \notin CondStatus
  <2>1. N - 2 \in 0 .. N /\ Statuses(t)[N - 1] = Under(CurrentStatus(t))
    BY <1>3, SecondCut
  <2>2. Under(CurrentStatus(t)) \in {8, 11, 14}
    BY <1>3 DEF Under
  <2>3. \A x \in {8, 11, 14} : x \notin CondStatus
    BY DEF CondStatus
  <2> QED BY ONLY <2>1, <2>2, <2>3, Zenon
<1> HIDE DEF N
<1>4. i \in 0 .. N /\ j \in i .. N
  BY <1>1, <1>2, <1>3
<1>5. \A h \in i + 1 .. N : n # 0 /\ (h = N \/ (h = N - 1 /\ n = 2))
  BY <1>1
<1>6. Free(Statuses(t), i)
  BY <1>2, <1>3, <1>5 DEF Free, N
<1>7. /\ Pop(Statuses(t), n) = SubSeq(Statuses(t), 1, i)
      /\ Pop(Symbols(t), k) = SubSeq(Symbols(t), 1, j)
  BY <1>1 DEF Pop, N
<1> HIDE DEF i, j
<1>8. Cuts(t, i)
  BY <1>1, <1>4, <1>7 DEF Cuts, N
<1> QED BY <1>6, <1>7, <1>8, StayCut

\* No condition is made, deleted or told of a block.
CondsLeft(t) ==
  \/ \E o : End(o)
  \/ UNCHANGED <<stacks, conds, terms>>
  \/ CondsStay(t) /\ conds' = Conds(t)

LEMMA LeftFits ==
  ASSUME IInv, IInv', CondInv, NEW t \in Token, CondsLeft(t), Len(terms) <= Len(terms')
  PROVE  CondInv'
  BY StayFits, NothingFits, EndFits DEF CondsLeft

LEMMA NothingPopped ==
  ASSUME IInv, NEW t \in Token
  PROVE  Pop(Statuses(t), 0) = Statuses(t) /\ Pop(Symbols(t), 0) = Symbols(t)
<1>1. \A s : Len(s) \in Nat => Pop(s, 0) = SubSeq(s, 1, Len(s))
  BY DEF Pop
<1> QED BY <1>1, WholeStacks

LEMMA LeftShift ==
  ASSUME IInv, IInv', NEW t \in Token, Shift(t)
  PROVE  CondsLeft(t)
<1> DEFINE s == CurrentStatus(t)
           next == ShiftTo[s][t.key]
<1>1. s \in Status /\ t.key \in Key
  BY Dispatch, TokenIsSymbol
<1>2. /\ next # -1 /\ status_stack' = Append(Pop(Statuses(t), 0), next)
      /\ symbol_stack' = Append(Pop(Symbols(t), 0), Lexeme(t)) /\ conds' = Conds(t)
  BY NothingPopped DEF Shift
<1>3. <<s, t.key, next>> \in ShiftRows
  BY <1>1, <1>2, ShiftToRow
<1> HIDE DEF next, s
<1>4. next \notin CondStatus
  BY <1>3 DEF ShiftRows, CondStatus
<1>5. 0 \in 0 .. 2 /\ 0 \in 0 .. 0
  OBVIOUS
<1>6. CondsStay(t)
  BY <1>2, <1>4, <1>5, StayTop
<1> QED BY <1>2, <1>6 DEF CondsLeft

\* The handlers that run outside bodies, in a status that is of no condition.
LEMMA LeftTop ==
  ASSUME IInv, IInv', NEW t \in Token,
         CurrentStatus(t) \in Status \ {0, 15, 19, 22, 24, 17, 20, 21, 23},
         NEW n \in 0 .. 2, NEW k \in 0 .. n, n = 2 => CurrentStatus(t) \in {10, 12},
         \/ symbol_stack' = Pop(symbol_stack, k)
         \/ \E y : symbol_stack' = Append(Pop(symbol_stack, k), y),
         \/ status_stack' = Pop(status_stack, n)
         \/ \E s : s \notin CondStatus /\ status_stack' = Append(Pop(status_stack, n), s),
         conds' = conds
  PROVE  CondsLeft(t)
<1>1. Statuses(t) = status_stack /\ Symbols(t) = symbol_stack /\ Conds(t) = conds
  BY Dispatch
<1>2. CurrentStatus(t) \notin CondStatus \cup {0}
  BY DEF CondStatus
<1>3. CondsStay(t)
  BY <1>1, <1>2, StayTop
<1> QED BY <1>1, <1>3 DEF CondsLeft

LEMMA LeftHeader ==
  ASSUME IInv, IInv', NEW t \in Token, Header(t)
  PROVE  CondsLeft(t)
<1>1. CurrentStatus(t) \in Status /\ t.key \in Key
  BY Dispatch, TokenIsSymbol
<1>2. CASE \E o : End(o)
  BY <1>2 DEF CondsLeft
<1>3. /\ \A s \in {10, 14, 25} : s \notin CondStatus
      /\ \A s \in {9, 10, 12, 18} : s \in Status \ {0, 15, 19, 22, 24, 17, 20, 21, 23}
      /\ 0 \in 0 .. 1 /\ 1 \in 0 .. 1 /\ 1 \in 0 .. 2 /\ 2 \in 0 .. 2
  BY DEF CondStatus, Status
<1>4. CASE get_function_name(t)
  <2>1. CurrentStatus(t) = 9
    BY <1>1, <1>4, Registered DEF get_function_name, On, NoEntry
  <2>2. /\ status_stack' = Append(Pop(status_stack, 1), 10)
        /\ symbol_stack' = Append(Pop(symbol_stack, 1), Lexeme(t))
        /\ conds' = conds
    BY <1>4 DEF get_function_name
  <2> QED BY <1>3, <2>1, <2>2, LeftTop
<1>5. CASE get_argument(t)
  <2>1. CurrentStatus(t) = 12
    BY <1>1, <1>5, Registered DEF get_argument, On, NoEntry
  <2>2. \/ End("threw")
        \/ /\ status_stack' = Pop(status_stack, 2)
           /\ symbol_stack' = Pop(symbol_stack, 2)
           /\ conds' = conds
    BY <1>5 DEF get_argument
  <2> QED BY <1>2, <1>3, <2>1, <2>2, LeftTop
<1>6. CASE wait_function_return_type(t)
  <2>1. CurrentStatus(t) = 10
    BY <1>1, <1>6, Registered DEF wait_function_return_type, On, NoEntry
  <2>2. /\ status_stack' = Append(Pop(status_stack, 2), 14)
        /\ symbol_stack' = Pop(symbol_stack, 1)
        /\ conds' = conds
    BY <1>6 DEF wait_function_return_type
  <2> QED BY <1>3, <2>1, <2>2, LeftTop
<1>7. CASE get_function_return_type(t)
  <2>1. CurrentStatus(t) = 18
    BY <1>1, <1>7, Registered DEF get_function_return_type, On, NoEntry
  <2>2. \/ End("threw")
        \/ /\ status_stack' = Append(Pop(status_stack, 1), 25)
           /\ symbol_stack' = Pop(symbol_stack, 0)
           /\ conds' = conds
    BY <1>7, KeptSymbols DEF get_function_return_type
  <2> QED BY <1>2, <1>3, <2>1, <2>2, LeftTop
<1>8. CASE function_declear(t)
  BY <1>2, <1>8 DEF function_declear
<1> QED BY <1>4, <1>5, <1>6, <1>7, <1>8 DEF Header

LEMMA LeftVariable ==
  ASSUME IInv, IInv', NEW t \in Token, Variable(t)
  PROVE  CondsLeft(t)
<1>1. CurrentStatus(t) \in Status /\ t.key \in Key
  BY Dispatch, TokenIsSymbol
<1>2. CASE \E o : End(o)
  BY <1>2 DEF CondsLeft
<1>3. /\ 4 \notin CondStatus
      /\ \A s \in {3, 4, 5} : s \in Status \ {0, 15, 19, 22, 24, 17, 20, 21, 23}
      /\ 0 \in 0 .. 1 /\ 1 \in 0 .. 1 /\ 1 \in 0 .. 2
  BY DEF CondStatus, Status
<1>4. CASE define_pointer(t)
  BY <1>4 DEF define_pointer, CondsLeft, stacks, code
<1>5. CASE define_variable(t)
  <2>1. CurrentStatus(t) = 3
    BY <1>1, <1>5, Registered DEF define_variable, On, NoEntry
  <2>2. \/ End("threw")
        \/ /\ status_stack' = Append(Pop(status_stack, 1), 4)
           /\ symbol_stack' = Pop(symbol_stack, 0)
           /\ conds' = conds
    BY <1>5, KeptSymbols DEF define_variable, Define
  <2> QED BY <1>2, <1>3, <2>1, <2>2, LeftTop
<1>6. CASE define_again(t) \/ define_finished(t)
  <2>1. CurrentStatus(t) \in {4, 5}
    BY <1>1, <1>6, Registered DEF define_again, define_finished, On, NoEntry
  <2>2. \/ End("threw")
        \/ /\ status_stack' = Pop(status_stack, 1)
           /\ symbol_stack' = Pop(symbol_stack, 1)
           /\ conds' = conds
    BY <1>6 DEF define_again, define_finished, Define
  <2> QED BY <1>2, <1>3, <2>1, <2>2, LeftTop
<1> QED BY <1>4, <1>5, <1>6 DEF Variable

LEMMA LeftBody ==
  ASSUME IInv, IInv', NEW t \in Token, Body(t)
  PROVE  CondsLeft(t)
<1>1. CurrentStatus(t) \in Status /\ t.key \in Key
  BY Dispatch, TokenIsSymbol
<1>2. CASE \E o : End(o)
  BY <1>2 DEF CondsLeft
<1>3. /\ 15 \notin CondStatus
      /\ \A s \in {14, 25} : s \in Status \ {0, 15, 19, 22, 24, 17, 20, 21, 23}
      /\ 0 \in 0 .. 0 /\ 1 \in 0 .. 1 /\ 0 \in 0 .. 2 /\ 1 \in 0 .. 2 /\ 2 \in 0 .. 2
  BY DEF CondStatus, Status
<1>4. CASE function_body_define_strart(t)
  <2>1. CurrentStatus(t) = 14
    BY <1>1, <1>4, Registered DEF function_body_define_strart, On, NoEntry
  <2>2. Statuses(t) = status_stack /\ Symbols(t) = symbol_stack
    BY <2>1, Dispatch
  <2>3. \/ End("undefined")
        \/ /\ status_stack' = Append(Pop(status_stack, 0), 15)
           /\ symbol_stack' = Append(Pop(symbol_stack, 0), Lexeme(t))
           /\ conds' = conds
    BY <1>4, <2>2, NothingPopped DEF function_body_define_strart, StartBody
  <2> QED BY <1>2, <1>3, <2>1, <2>3, LeftTop
<1>5. CASE has_return_type_function_define(t)
  <2>1. CurrentStatus(t) = 25
    BY <1>1, <1>5, Registered DEF has_return_type_function_define, On, NoEntry
  <2>2. \/ End("undefined")
        \/ /\ status_stack' = Append(Pop(status_stack, 1), 15)
           /\ symbol_stack' = Append(Pop(symbol_stack, 1), Lexeme(t))
           /\ conds' = conds
    BY <1>5 DEF has_return_type_function_define, StartBody
  <2> QED BY <1>2, <1>3, <2>1, <2>2, LeftTop
<1>6. CASE function_body_define_finished(t)
  <2>1. CurrentStatus(t) = 15 /\ CurrentStatus(t) \notin CondStatus \cup {0}
    BY <1>1, <1>3, <1>6, Registered DEF function_body_define_finished, On, NoEntry
  <2>2. /\ status_stack' = Pop(Statuses(t), 2) /\ symbol_stack' = Pop(Symbols(t), 2)
        /\ conds' = Conds(t)
    BY <1>6 DEF function_body_define_finished
  <2>3. CondsStay(t)
    BY <1>3, <2>1, <2>2, StayTop
  <2> QED BY <2>2, <2>3 DEF CondsLeft
<1> QED BY <1>4, <1>5, <1>6 DEF Body

\* Both stacks of an expression are cut.
LEMMA LeftExpression ==
  ASSUME IInv, IInv', NEW t \in Token, CurrentStatus(t) = 2,
         NEW n \in 0 .. Len(status_stack), NEW k \in n .. Len(status_stack),
         \A i \in n + 1 .. Len(status_stack) : status_stack[i] \in {2, 7, 16},
         \/ symbol_stack' = SubSeq(symbol_stack, 1, k)
         \/ \E y : symbol_stack' = Append(SubSeq(symbol_stack, 1, k), y),
         \/ status_stack' = SubSeq(status_stack, 1, n)
         \/ \E s : s = 2 /\ status_stack' = Append(SubSeq(status_stack, 1, n), s),
         conds' = conds
  PROVE  CondsLeft(t)
<1>1. Statuses(t) = status_stack /\ Symbols(t) = symbol_stack /\ Conds(t) = conds
  BY Dispatch
<1>2. Len(symbol_stack) = Len(status_stack)
  BY Stacks
<1>3. Cuts(t, n)
  BY <1>1, <1>2 DEF Cuts
<1>4. 2 \notin CondStatus /\ Free(Statuses(t), n)
  BY <1>1 DEF CondStatus, Free
<1>5. CondsStay(t)
  BY <1>1, <1>3, <1>4, StayCut
<1> QED BY <1>1, <1>5 DEF CondsLeft

LEMMA LeftOperator ==
  ASSUME IInv, IInv', Flat(status_stack), NEW t \in Token,
         enter_parentheses(t) \/ push_operator(t) \/ solve_then_push_operator(t)
  PROVE  CondsLeft(t)
<1>1. CurrentStatus(t) \in Status /\ t.key \in Key
  BY Dispatch, TokenIsSymbol
<1>2. CASE \E o : End(o)
  BY <1>2 DEF CondsLeft
<1>3. CurrentStatus(t) \in {2, 7} /\ (solve_then_push_operator(t) => CurrentStatus(t) = 2)
  BY <1>1, Registered DEF enter_parentheses, push_operator, solve_then_push_operator,
                          OnOperator, On, NoEntry
<1>4. /\ Statuses(t) = status_stack /\ Symbols(t) = symbol_stack /\ Conds(t) = conds
      /\ Pop(status_stack, 0) = status_stack /\ Pop(symbol_stack, 0) = symbol_stack
  <2>1. Statuses(t) = status_stack /\ Symbols(t) = symbol_stack /\ Conds(t) = conds
    BY <1>3, Dispatch
  <2> QED BY <2>1, NothingPopped
<1>5. /\ 7 \notin CondStatus
      /\ \A s \in {2, 7} : s \in Status \ {0, 15, 19, 22, 24, 17, 20, 21, 23}
      /\ 0 \in 0 .. 0 /\ 0 \in 0 .. 2
  BY DEF CondStatus, Status
<1>6. ASSUME status_stack' = Append(status_stack, 7),
             symbol_stack' = Append(symbol_stack, Lexeme(t)), conds' = conds
      PROVE  CondsLeft(t)
  BY <1>3, <1>4, <1>5, <1>6, LeftTop
<1>7. CASE enter_parentheses(t) \/ push_operator(t)
  <2>1. \/ \E o : End(o)
        \/ /\ status_stack' = Append(status_stack, 7)
           /\ symbol_stack' = Append(symbol_stack, Lexeme(t))
           /\ conds' = conds
    BY <1>7 DEF enter_parentheses, push_operator
  <2> QED BY <1>2, <1>6, <2>1
<1>8. CASE solve_then_push_operator(t)
  <2>1. ASSUME NEW m \in 2 .. Len(symbol_stack), StepStart(symbol_stack, last_priority, m),
               symbol_stack' = Append(Reduced(symbol_stack, m, Value), Lexeme(t)),
               status_stack' = Append(Reduced(status_stack, m, 2), 7),
               conds' = conds
        PROVE  CondsLeft(t)
    <3>1. CASE m = Len(symbol_stack)
      <4>1. Reduced(symbol_stack, m, Value) = symbol_stack /\ Reduced(status_stack, m, 2) = status_stack
        <5>1. Len(symbol_stack) = Len(status_stack)
          BY Stacks
        <5> QED BY <3>1, <5>1 DEF Reduced
      <4> QED BY <1>6, <2>1, <4>1
    <3>2. CASE m # Len(symbol_stack)
      <4> DEFINE n == m - 1
      <4>1. /\ KeptTo(n) /\ n \in Nat /\ n \in 0 .. Len(status_stack)
            /\ Len(status_stack') = n + 2 /\ status_stack'[n + 1] = 2 /\ status_stack'[n + 2] = 7
        BY <1>3, <1>8, <2>1, <3>2, KeptPair
      <4>2. \A i \in m .. Len(status_stack) : status_stack[i] \in {2, 7}
        BY <1>3, <1>8, <2>1, HushedSuffix
      <4>3. n + 1 = m
        OBVIOUS
      <4> HIDE DEF n
      <4>4. Free(Statuses(t), n)
        BY <1>4, <4>2, <4>3 DEF Free, CondStatus
      <4>5. \A i \in n + 1 .. Len(status_stack') : i = n + 1 \/ i = n + 2
        BY <4>1
      <4>6. Free(status_stack', n)
        BY <4>1, <4>5 DEF Free, CondStatus
      <4>7. n <= Len(Statuses(t))
        BY <1>4, <4>1
      <4> QED BY <1>4, <2>1, <4>1, <4>4, <4>6, <4>7 DEF CondsLeft, CondsStay
    <3> QED BY <3>1, <3>2
  <2>2. \/ \E o : End(o)
        \/ \E m \in 2 .. Len(symbol_stack) :
             /\ StepStart(symbol_stack, last_priority, m)
             /\ symbol_stack' = Append(Reduced(symbol_stack, m, Value), Lexeme(t))
             /\ status_stack' = Append(Reduced(status_stack, m, 2), 7)
             /\ conds' = conds
    BY <1>8, Zenon DEF solve_then_push_operator
  <2> QED BY <1>2, <2>1, <2>2
<1> QED BY <1>7, <1>8

LEMMA LeftParenthesis ==
  ASSUME IInv, IInv', Flat(status_stack), NEW t \in Token, NEW q \in 2 .. Len(symbol_stack),
         reduce_group(t, q) \/ reduce_operatorbrace(t, q)
  PROVE  CondsLeft(t)
<1> DEFINE ss == status_stack
           n == Len(status_stack)
<1>1. CurrentStatus(t) = 2 /\ symbol_stack[q].key = "("
  <2>1. CurrentStatus(t) \in Status /\ t.key \in Key
    BY Dispatch, TokenIsSymbol
  <2>2. OnParenthesis(t, q)
    BY DEF reduce_group, reduce_operatorbrace
  <2> QED BY <2>1, <2>2, Registered DEF OnParenthesis, On, NoEntry
<1>2. /\ WellStacked(Len(conds), ss, symbol_stack)
      /\ Len(symbol_stack) = n /\ n \in Nat /\ DOMAIN ss = 1 .. n /\ ss[n] = 2
  BY <1>1, InExpression
<1>3. q < n /\ Below(ss, q - 1) \in {2, 7}
  BY <1>1, <1>2, OpenParenthesis
<1>4. q - 1 \in 1 .. n /\ ss[q - 1] \in {2, 7}
  BY <1>2, <1>3 DEF Below
<1>5. \A i \in q - 1 .. n : ss[i] \in {2, 7}
  BY <1>2, <1>4 DEF Flat
<1>6. ASSUME NEW k \in {q - 1, q - 2}, status_stack' = Append(SubSeq(ss, 1, k), 2),
             \E y : symbol_stack' = Append(SubSeq(symbol_stack, 1, k), y), conds' = conds
      PROVE  CondsLeft(t)
  <2>1. k \in 0 .. n /\ k \in k .. n /\ \A i \in k + 1 .. n : i \in q - 1 .. n
    BY <1>2, <1>4
  <2>2. \A i \in k + 1 .. n : ss[i] \in {2, 7, 16}
    BY <1>5, <2>1
  <2> QED BY <1>1, <1>6, <2>1, <2>2, LeftExpression
<1>7. \/ \E o : End(o)
      \/ /\ \E k \in {q - 1, q - 2} :
              /\ status_stack' = Append(SubSeq(ss, 1, k), 2)
              /\ \E y : symbol_stack' = Append(SubSeq(symbol_stack, 1, k), y)
         /\ conds' = conds
  <2>1. CASE reduce_group(t, q)
    BY <2>1 DEF reduce_group
  <2>2. CASE reduce_operatorbrace(t, q)
    BY <2>2 DEF reduce_operatorbrace
  <2> QED BY <2>1, <2>2
<1>8. (\E o : End(o)) => CondsLeft(t)
  BY DEF CondsLeft
<1> QED BY <1>6, <1>7, <1>8

LEMMA LeftStatement ==
  ASSUME IInv, IInv', Flat(status_stack), NEW t \in Token, NEW m \in 2 .. Len(symbol_stack),
         expression_statement(t, m) \/ return_statement(t, m)
  PROVE  CondsLeft(t)
<1> DEFINE ss == status_stack
           N == Len(status_stack)
<1>1. CurrentStatus(t) = 2 /\ LoopStart(symbol_stack, last_priority, m)
  BY OnStatement
<1>2. /\ \A i \in m .. N : ss[i] \in {2, 7}
      /\ N \in Nat /\ m \in 2 .. N
  BY <1>1, HushedSuffix
<1>3. WellStacked(Len(conds), ss, symbol_stack) /\ ss[N] = 2 /\ DOMAIN ss = 1 .. N
  BY <1>1, InExpression
<1>4. ASSUME NEW k \in 0 .. m - 1, m - 1 - 2 * k > 0,
             \A i \in 0 .. k - 1 : symbol_stack[m - 1 - 2 * i].key = "COMMA",
             status_stack' = SubSeq(status_stack, 1, m - 1 - 2 * k),
             symbol_stack' = SubSeq(symbol_stack, 1, m - 1 - 2 * k), conds' = conds
      PROVE  CondsLeft(t)
  <2> DEFINE c == m - 1 - 2 * k
  <2>1. c \in 0 .. N /\ c \in Nat
    BY <1>2, <1>4
  <2>2. \A i \in c + 1 .. N : ss[i] \in {2, 7, 16}
    BY <1>1, <1>4, DroppedPairs
  <2>3. c \in c .. N
    BY <2>1
  <2> QED BY <1>1, <1>4, <2>1, <2>2, <2>3, LeftExpression
<1>5. CASE expression_statement(t, m)
  <2>1. \/ \E o \in StepFaults(symbol_stack, m) : End(o)
        \/ /\ \E k \in 0 .. m - 1 :
                /\ m - 1 - 2 * k > 0
                /\ \A i \in 0 .. k - 1 : symbol_stack[m - 1 - 2 * i].key = "COMMA"
                /\ symbol_stack[m - 1 - 2 * k].key # "COMMA"
                /\ symbol_stack' = SubSeq(symbol_stack, 1, m - 1 - 2 * k)
                /\ status_stack' = SubSeq(status_stack, 1, m - 1 - 2 * k)
           /\ conds' = conds
    BY <1>5, Zenon DEF expression_statement
  <2>2. (\E o : End(o)) => CondsLeft(t)
    BY DEF CondsLeft
  <2> QED BY <1>4, <2>1, <2>2
<1>6. CASE return_statement(t, m)
  <2>1. ss[m - 1] = 16
    BY <1>6 DEF return_statement
  <2>2. \/ \E o : End(o)
        \/ /\ symbol_stack' = SubSeq(symbol_stack, 1, m - 2)
           /\ status_stack' = SubSeq(status_stack, 1, m - 2)
           /\ conds' = conds
    BY <1>6 DEF return_statement
  <2>3. /\ m - 2 \in 0 .. N /\ m - 2 \in m - 2 .. N
        /\ \A i \in m - 2 + 1 .. N : i = m - 1 \/ i \in m .. N
    BY <1>2
  <2>4. \A i \in m - 2 + 1 .. N : ss[i] \in {2, 7, 16}
    BY <1>2, <2>1, <2>3
  <2>5. (\E o : End(o)) => CondsLeft(t)
    BY DEF CondsLeft
  <2> QED BY <1>1, <2>2, <2>3, <2>4, <2>5, LeftExpression
<1> QED BY <1>5, <1>6

LEMMA FitDecided ==
  ASSUME IInv, IInv', CondInv, Flat(status_stack), NEW t \in Token,
         NEW m \in 2 .. Len(symbol_stack), reduce_condition_calculate(t, m),
         Len(terms) <= Len(terms')
  PROVE  CondInv'
<1> DEFINE ss == status_stack
           N == Len(status_stack)
<1>1. CurrentStatus(t) = 2 /\ LoopStart(symbol_stack, last_priority, m)
  BY OnStatement
<1>2. /\ \A i \in m .. N : ss[i] \in {2, 7}
      /\ N \in Nat /\ m \in 2 .. N /\ Len(symbol_stack) = N
  BY <1>1, HushedSuffix, Stacks
<1>3. CASE \E o : End(o)
  BY <1>3, EndFits
<1>4. CASE ss[m - 1] \notin {17, 23}
  <2>1. \/ \E o : End(o)
        \/ /\ status_stack' = SubSeq(status_stack, 1, m - 1)
           /\ symbol_stack' = SubSeq(symbol_stack, 1, m - 1)
           /\ conds' = conds
    BY <1>4 DEF reduce_condition_calculate
  <2>2. m - 1 \in 0 .. N /\ m - 1 \in m - 1 .. N /\ m - 1 + 1 = m
    BY <1>2
  <2>3. \A i \in m - 1 + 1 .. N : ss[i] \in {2, 7, 16}
    BY <1>2, <2>2
  <2>4. ~(\E o : End(o)) => CondsLeft(t)
    BY <1>1, <2>1, <2>2, <2>3, LeftExpression
  <2> QED BY <1>3, <2>4, LeftFits
<1>5. ASSUME NEW s \in {17, 23}, ss[m - 1] = s PROVE CondInv'
  <2> DEFINE p == m - 1
             n == m - 2
             c == symbol_stack[p].cond
  <2>1. n + 1 = p /\ p - 1 = n /\ n \in 0 .. N /\ p \in 1 .. N /\ p \in Nat
    BY <1>2
  <2>2. Decides(n, s) \/ \E o : End(o)
    BY <1>2, <1>5, ReducedDecides
  <2>3. CASE Decides(n, s)
    <3>1. /\ Len(terms) \in Nat /\ Len(terms') \in Nat
          /\ Len(terms') = Len(terms) + 2
      <4>1. Len(terms) \in Nat /\ Len(terms') \in Nat
        BY DEF IInv, TypeOfCode
      <4>2. /\ terms' = Terminate(terms, insert_block, {Len(terms) + 1, Len(terms) + 1 + 1}) \o <<<<>>, <<>>>>
        BY <2>3 DEF Decides
      <4>3. Len(terms) + 2 \in Nat /\ {Len(terms) + 1, Len(terms) + 1 + 1} \in SUBSET (0 .. Len(terms) + 2)
        BY <4>1
      <4>4. Len(Terminate(terms, insert_block, {Len(terms) + 1, Len(terms) + 1 + 1}) \o <<<<>>, <<>>>>) = Len(terms) + 2
        BY <4>3, EndedBlock
      <4> QED BY <4>1, <4>2, <4>4
    <3>2. p \in HeldConds(ss)
      BY <1>5, <2>1 DEF HeldConds, CondStatus
    <3>3. Free(ss, p)
      BY SMTT(30), <1>2, <2>1 DEF Free, CondStatus
    <3>4. /\ \A i \in HeldConds(ss) : symbol_stack[i].cond \in 1 .. Len(conds)
          /\ conds[c] \in CondOf(MaybeBlock) /\ Len(conds) \in Nat
      BY <3>2, OfCondition, Stacks DEF HeldConds, CondStatus
    <3>5. c \in 1 .. Len(conds) /\ conds \in Seq(CondOf(MaybeBlock))
      BY <3>2, <3>4 DEF IInv, TypeOfCode
    <3>6. PICK x : /\ conds' = [conds EXCEPT ![c] = x]
                   /\ x.entery_block = conds[c].entery_block
                   /\ (IF s = 17 THEN x.body2 ELSE x.exit_block) = Len(terms) + 2
                   /\ x.live = conds[c].live /\ (s = 17 => x.exit_block = conds[c].exit_block)
      BY <2>1, <2>3 DEF Decides
    <3>7. /\ Len(conds') = Len(conds) /\ conds'[c] = x
          /\ \A d \in 1 .. Len(conds) : conds'[d].live = conds[d].live /\ (d # c => conds'[d] = conds[d])
      BY <3>5, <3>6
    <3>8. /\ KeptTo(n) /\ Len(status_stack') = p
          /\ status_stack'[p] = IF s = 17 THEN 19 ELSE 24
          /\ symbol_stack' = SubSeq(symbol_stack, 1, p)
      <4> DEFINE new == IF s = 17 THEN 19 ELSE 24
      <4>1. Statuses(t) = status_stack /\ Symbols(t) = symbol_stack
        BY <1>1, Dispatch
      <4>2. p \in n .. Len(Symbols(t))
        BY <1>2, <2>1, <4>1
      <4> HIDE DEF n
      <4>3. /\ status_stack' = Append(SubSeq(status_stack, 1, n), new)
            /\ symbol_stack' = SubSeq(symbol_stack, 1, n + 1)
        BY <2>3 DEF Decides
      <4> HIDE DEF p, new
      <4>4. symbol_stack' = SubSeq(symbol_stack, 1, p)
        BY ONLY <2>1, <4>3
      <4>5. Cuts(t, n)
        <5>1. n \in 0 .. Len(Statuses(t))
          BY <2>1, <4>1
        <5> QED BY <4>1, <4>2, <4>4, <5>1 DEF Cuts
      <4>6. status_stack' = Append(SubSeq(Statuses(t), 1, n), new)
        BY <4>1, <4>3
      <4>7. KeptTo(n) /\ Len(status_stack') = n + 1 /\ status_stack'[n + 1] = new
        BY <4>5, <4>6, Keeping
      <4>8. Len(status_stack') = p /\ status_stack'[p] = new
        BY ONLY <2>1, <4>7
      <4> QED BY <4>4, <4>7, <4>8 DEF new
    <3>9. symbol_stack'[p] = symbol_stack[p]
      <4>1. symbol_stack \in Seq(Held(Len(conds))) /\ p \in 1 .. p /\ p <= Len(symbol_stack)
        BY <1>2, <2>1, Stacks
      <4> HIDE DEF p
      <4> QED BY <2>1, <3>8, <4>1
    <3>10. Common(ss, symbol_stack, status_stack', symbol_stack', p - 1)
      BY <2>1, <3>8 DEF Common, KeptTo
    <3>11. Known(status_stack'[p], conds'[c], Len(terms'))
      <4>1. Known(s, conds[c], Len(terms))
        BY <1>5, <2>1, <3>2 DEF CondInv, CondsFit
      <4>2. CASE s = 17
        <5>1. status_stack'[p] = 19 /\ conds'[c].body2 = Len(terms) + 2 /\ conds'[c].exit_block = 0
          BY <3>6, <3>7, <3>8, <4>1, <4>2 DEF Known
        <5> QED BY <3>1, <5>1 DEF Known
      <4>3. CASE s = 23
        <5>1. /\ status_stack'[p] = 24 /\ conds'[c].exit_block = Len(terms) + 2
              /\ conds'[c].entery_block \in 1 .. Len(terms)
          BY <3>6, <3>7, <3>8, <4>1, <4>3 DEF Known
        <5> QED BY <3>1, <5>1 DEF Known
      <4> QED BY <4>2, <4>3
    <3> HIDE DEF p
    <3>12. Changes(ss, symbol_stack, conds, p, status_stack', symbol_stack', conds', Len(terms'))
      <4>1. status_stack'[p] \in CondStatus
        BY <3>8 DEF CondStatus
      <4> QED BY <1>2, <3>2, <3>3, <3>4, <3>7, <3>8, <3>9, <3>10, <3>11, <4>1 DEF Changes
    <3> QED BY <3>1, <3>12, FitChanged DEF CondInv
  <2> QED BY <1>3, <2>2, <2>3
<1> QED BY <1>4, <1>5

LEMMA FitOpened ==
  ASSUME IInv, IInv', CondInv, NEW t \in Token, NEW s \in {17, 23}, NEW x,
         status_stack' = Append(Statuses(t), s),
         symbol_stack' = Append(Symbols(t), CondSymbol(Len(conds) + 1)),
         conds' = Append(Conds(t), x), x.live, Known(s, x, Len(terms')),
         Len(terms) <= Len(terms')
  PROVE  CondInv'
<1> DEFINE n == Len(Statuses(t))
           k == Len(conds)
<1>1. /\ Statuses(t) \in Seq(Status \ {0}) /\ Symbols(t) \in Seq(Held(Len(conds)))
      /\ Len(Symbols(t)) = n /\ n \in Nat
      /\ Conds(t) \in Seq(CondOf(MaybeBlock)) /\ Len(Conds(t)) = k /\ k \in Nat
      /\ Len(terms) \in Nat /\ Len(terms') \in Nat
  BY Handed, CondsNow, FitNow DEF IInv, TypeOfCode
<1>2. /\ Len(status_stack') = n + 1 /\ status_stack'[n + 1] = s
      /\ \A i \in 1 .. n : status_stack'[i] = Statuses(t)[i]
  BY <1>1
<1>3. /\ symbol_stack'[n + 1] = CondSymbol(k + 1)
      /\ \A i \in 1 .. n : symbol_stack'[i] = Symbols(t)[i]
  BY <1>1
<1>4. Len(conds') = k + 1 /\ conds'[k + 1] = x /\ \A c \in 1 .. k : conds'[c] = Conds(t)[c]
  BY <1>1
<1>5. Common(Statuses(t), Symbols(t), status_stack', symbol_stack', n)
  <2>1. n \in 0 .. n /\ n <= n + 1
    BY <1>1
  <2>2. Len(Statuses(t)) = n
    OBVIOUS
  <2> HIDE DEF n
  <2>3. \A i \in 1 .. n : status_stack'[i] = Statuses(t)[i] /\ symbol_stack'[i] = Symbols(t)[i]
    BY ONLY <1>2, <1>3, Zenon
  <2> QED BY ONLY <1>2, <2>1, <2>2, <2>3 DEF Common
<1>6. symbol_stack'[n + 1].cond = k + 1 /\ s \in CondStatus
  <2>1. CondSymbol(k + 1).cond = k + 1
    BY DEF CondSymbol
  <2>2. symbol_stack'[n + 1].cond = CondSymbol(k + 1).cond
    BY ONLY <1>3
  <2> QED BY ONLY <2>1, <2>2, s \in {17, 23} DEF CondStatus
<1> HIDE DEF n, k
<1>7. Pushes(Statuses(t), Symbols(t), Conds(t), status_stack', symbol_stack', conds', Len(terms'))
  <2>1. \A i \in HeldConds(Statuses(t)) : Symbols(t)[i].cond \in 1 .. k
    BY <1>1, FitNow
  <2> QED BY <1>1, <1>2, <1>4, <1>5, <1>6, <2>1 DEF Pushes, n
<1>8. CondsFit(status_stack', symbol_stack', conds', Len(terms'))
  BY <1>1, <1>7, FitNow, FitPushed
<1> QED BY <1>8 DEF CondInv

LEMMA FitClosed ==
  ASSUME IInv, IInv', CondInv, NEW t \in Token, NEW k \in {1, 2},
         CurrentStatus(t) = IF k = 1 THEN 24 ELSE 22,
         status_stack' = Pop(Statuses(t), k), symbol_stack' = Pop(Symbols(t), k),
         conds' = [Conds(t) EXCEPT ![Symbols(t)[Len(Symbols(t)) - k + 1].cond].live = FALSE],
         terms' = terms \/ Len(terms') = Len(terms)
  PROVE  CondInv'
<1> DEFINE n == Len(Statuses(t))
           p == n - k + 1
           c == Symbols(t)[p].cond
<1>1. /\ Statuses(t) \in Seq(Status \ {0}) /\ Symbols(t) \in Seq(Held(Len(conds)))
      /\ Len(Symbols(t)) = n /\ n \in Nat
      /\ Conds(t) \in Seq(CondOf(MaybeBlock)) /\ Len(Conds(t)) = Len(conds) /\ Len(conds) \in Nat
      /\ Len(terms) \in Nat /\ Len(terms') = Len(terms)
  BY Handed, CondsNow, FitNow DEF IInv, TypeOfCode
<1>2. /\ p \in 1 .. n /\ p - 1 = n - k /\ n - k \in 0 .. n /\ Statuses(t)[p] \in {24, 21}
      /\ \A i \in p + 1 .. n : Statuses(t)[i] = 22
  <2>1. CASE k = 1
    <3>1. n - 1 \in 0 .. n /\ Statuses(t)[n] = 24
      BY <2>1, TopCut
    <3> QED BY <1>1, <2>1, <3>1
  <2>2. CASE k = 2
    <3>1. n - 2 \in 0 .. n /\ Statuses(t)[n - 1] = Under(22)
      BY <2>2, SecondCut
    <3>2. Statuses(t)[n] = 22 /\ Statuses(t)[n - 1] = 21
      BY <2>2, <3>1, TopCut DEF Under
    <3> QED BY <1>1, <2>2, <3>1, <3>2
  <2> QED BY <2>1, <2>2
<1>3. p \in HeldConds(Statuses(t)) /\ Free(Statuses(t), p)
  BY SMTT(30), <1>2 DEF HeldConds, Free, CondStatus
<1>4. c \in 1 .. Len(conds)
  BY <1>1, <1>3, FitNow
<1>5. /\ Len(status_stack') = p - 1
      /\ \A i \in 1 .. p - 1 : status_stack'[i] = Statuses(t)[i] /\ symbol_stack'[i] = Symbols(t)[i]
  <2>1. status_stack' = SubSeq(Statuses(t), 1, p - 1) /\ symbol_stack' = SubSeq(Symbols(t), 1, p - 1)
    BY <1>1, <1>2 DEF Pop
  <2> HIDE DEF p, n
  <2> QED BY <1>1, <1>2, <2>1
<1>6. Len(conds') = Len(conds) /\ \A d \in 1 .. Len(conds) :
        /\ d # c => conds'[d] = Conds(t)[d]
        /\ d = c => ~conds'[d].live
  <2> DEFINE cs == Conds(t)
             S == CondOf(MaybeBlock)
  <2>1. conds' = [cs EXCEPT ![c].live = FALSE]
    BY <1>1
  <2>2. cs \in Seq(S) /\ Len(cs) = Len(conds) /\ Len(conds) \in Nat
    BY <1>1
  <2> HIDE DEF c, cs
  <2>3. cs[c] \in S
    BY <1>4, <2>2
  <2> DEFINE x == [cs[c] EXCEPT !.live = FALSE]
  <2>4. ~x.live
    BY <2>3 DEF CondOf
  <2>5. conds' = [cs EXCEPT ![c] = x]
    BY ONLY <2>1
  <2> HIDE DEF S, x
  <2>6. Len(conds') = Len(conds) /\ \A d \in 1 .. Len(conds) :
          /\ d # c => conds'[d] = cs[d]
          /\ d = c => ~conds'[d].live
    BY ONLY <1>4, <2>2, <2>4, <2>5
  <2> QED BY <2>6 DEF cs
<1>7. Common(Statuses(t), Symbols(t), status_stack', symbol_stack', p - 1)
  BY <1>1, <1>2, <1>5 DEF Common
<1>8. Free(status_stack', p - 1)
  <2>1. p - 1 \in Nat
    BY <1>2
  <2> QED BY <1>5, <2>1 DEF Free
<1> HIDE DEF p, n
<1>9. Drops(Statuses(t), Symbols(t), Conds(t), p, status_stack', symbol_stack', conds')
  <2>1. \A i \in HeldConds(Statuses(t)) : Symbols(t)[i].cond \in 1 .. Len(conds)
    BY <1>1, FitNow
  <2>2. Len(Statuses(t)) \in Nat /\ Len(status_stack') \in Nat
    BY FitNow, StacksNext
  <2> QED BY <1>1, <1>3, <1>6, <1>7, <1>8, <2>1, <2>2 DEF Drops
<1>10. CondsFit(status_stack', symbol_stack', conds', Len(terms'))
  BY <1>1, <1>9, FitNow, FitDropped
<1> QED BY <1>10 DEF CondInv

\* An "if" goes on behind its then-branch.
LEMMA FitContinued ==
  ASSUME IInv, IInv', CondInv, NEW t \in Token,
         end_if_body1(t) \/ check_if_body2(t), Len(terms') = Len(terms)
  PROVE  CondInv'
<1> DEFINE n == Len(Statuses(t))
           s == CurrentStatus(t)
           next == IF s = 19 THEN 20 ELSE 21
<1>1. /\ s \in {19, 20}
      /\ status_stack' = Append(Pop(Statuses(t), 1), next)
      /\ symbol_stack' = Symbols(t) /\ conds' = Conds(t)
  <2>1. s \in Status /\ t.key \in Key
    BY Dispatch, TokenIsSymbol
  <2>2. CASE end_if_body1(t)
    <3>1. s = 19
      BY <2>1, <2>2, Registered DEF end_if_body1, On, NoEntry
    <3> QED BY <2>2, <3>1 DEF end_if_body1
  <2>3. CASE check_if_body2(t)
    <3>1. s = 20
      BY <2>1, <2>3, Registered DEF check_if_body2, On, NoEntry
    <3>2. Statuses(t) = status_stack /\ Symbols(t) = symbol_stack /\ Conds(t) = conds
      BY <3>1, Dispatch
    <3>3. status_stack' = Append(Pop(status_stack, 1), 21) /\ UNCHANGED <<symbol_stack, conds>>
      BY <2>3 DEF check_if_body2
    <3> QED BY <3>1, <3>2, <3>3
  <2> QED BY <2>2, <2>3
<1>2. /\ Statuses(t) \in Seq(Status \ {0}) /\ Symbols(t) \in Seq(Held(Len(conds)))
      /\ Len(Symbols(t)) = n /\ n \in Nat /\ n - 1 \in 0 .. n /\ n \in 1 .. n /\ Statuses(t)[n] = s
      /\ Len(Conds(t)) = Len(conds) /\ Len(conds) \in Nat
      /\ Len(terms) \in Nat /\ Len(terms') = Len(terms)
  <2>1. Statuses(t)[n] = s /\ n - 1 \in 0 .. n
    BY <1>1, TopCut
  <2> QED BY <2>1, Handed, CondsNow, FitNow DEF IInv, TypeOfCode
<1>3. n \in HeldConds(Statuses(t)) /\ Free(Statuses(t), n)
  BY <1>1, <1>2 DEF HeldConds, Free, CondStatus
<1>4. /\ Len(status_stack') = n /\ status_stack'[n] = next
      /\ \A i \in 1 .. n - 1 : status_stack'[i] = Statuses(t)[i]
  BY <1>1, <1>2 DEF Pop
<1>5. Common(Statuses(t), Symbols(t), status_stack', symbol_stack', n - 1)
  BY <1>1, <1>2, <1>4 DEF Common
<1>6. Known(next, Conds(t)[Symbols(t)[n].cond], Len(terms))
  <2>1. Known(s, Conds(t)[Symbols(t)[n].cond], Len(terms))
    BY <1>2, <1>3, FitNow DEF CondsFit
  <2>2. CASE s = 19
    BY <2>1, <2>2 DEF Known
  <2>3. CASE s = 20
    BY <2>1, <2>3 DEF Known
  <2> QED BY <1>1, <2>2, <2>3
<1>7. next \in CondStatus
  BY DEF CondStatus
<1> HIDE DEF n, s, next
<1>8. Changes(Statuses(t), Symbols(t), Conds(t), n, status_stack', symbol_stack', conds', Len(terms'))
  <2>1. \A i \in HeldConds(Statuses(t)) : Symbols(t)[i].cond \in 1 .. Len(conds)
    BY <1>2, FitNow
  <2> QED BY <1>1, <1>2, <1>3, <1>4, <1>5, <1>6, <1>7, <2>1, FitNow DEF Changes
<1>9. CondsFit(status_stack', symbol_stack', conds', Len(terms'))
  BY <1>2, <1>8, FitNow, FitChanged
<1> QED BY <1>9 DEF CondInv

LEMMA FitBranching ==
  ASSUME IInv, IInv', CondInv, NEW t \in Token, Branching(t), Len(terms) <= Len(terms')
  PROVE  CondInv'
<1>1. CurrentStatus(t) \in Status /\ t.key \in Key
  BY Dispatch, TokenIsSymbol
<1>2. Len(terms) \in Nat /\ Len(terms') \in Nat
  BY DEF IInv, TypeOfCode
<1>3. CASE start_while_condition(t)
  <2> DEFINE b == Len(terms) + 1
             x == [NoCond EXCEPT !.entery_block = b]
  <2>1. /\ status_stack' = Append(Statuses(t), 23)
        /\ symbol_stack' = Append(Symbols(t), CondSymbol(Len(conds) + 1))
        /\ conds' = Append(Conds(t), x)
        /\ terms' = Append(Terminate(terms, insert_block, {b}), <<>>)
    BY <1>3 DEF start_while_condition
  <2>2. b \in Nat /\ {b} \in SUBSET (0 .. b)
    BY <1>2
  <2>3. Len(Append(Terminate(terms, insert_block, {b}), <<>>)) = b
    BY <2>2, EndedBlock
  <2>4. Len(terms') = b
    BY <2>1, <2>3
  <2>5. x.live /\ x.entery_block = b /\ x.exit_block = 0
    BY DEF NoCond
  <2>6. b \in 1 .. Len(terms')
    BY <1>2, <2>4
  <2> HIDE DEF x
  <2>7. Known(23, x, Len(terms'))
    BY <2>5, <2>6 DEF Known
  <2> QED BY <2>1, <2>5, <2>7, FitOpened
<1>4. CASE start_if_condition(t)
  <2>1. /\ status_stack' = Append(Statuses(t), 17)
        /\ symbol_stack' = Append(Symbols(t), CondSymbol(Len(conds) + 1))
        /\ conds' = Append(Conds(t), NoCond)
    BY <1>4 DEF start_if_condition
  <2>2. NoCond.live /\ Known(17, NoCond, Len(terms'))
    BY DEF NoCond, Known
  <2> HIDE DEF NoCond
  <2> QED BY <2>1, <2>2, FitOpened
<1>5. CASE end_while_body(t)
  <2>1. CurrentStatus(t) = 24
    BY <1>1, <1>5, Registered DEF end_while_body, On, NoEntry
  <2>2. Len(Symbols(t)) \in Nat /\ Len(Symbols(t)) - 1 + 1 = Len(Symbols(t))
    BY WholeStacks
  <2>3. /\ status_stack' = Pop(Statuses(t), 1) /\ symbol_stack' = Pop(Symbols(t), 1)
        /\ conds' = [Conds(t) EXCEPT ![Symbols(t)[Len(Symbols(t)) - 1 + 1].cond].live = FALSE]
        /\ Len(terms') = Len(terms)
    BY <1>5, <2>2 DEF end_while_body, Terminate, Last
  <2> QED BY <2>1, <2>3, FitClosed
<1>6. CASE end_if_body2(t)
  <2>1. CurrentStatus(t) = 22
    BY <1>1, <1>6, Registered DEF end_if_body2, On, NoEntry
  <2>2. Len(Symbols(t)) \in Nat /\ Len(Symbols(t)) - 2 + 1 = Len(Symbols(t)) - 1
    BY WholeStacks
  <2>3. \/ End("undefined")
        \/ /\ status_stack' = Pop(Statuses(t), 2) /\ symbol_stack' = Pop(Symbols(t), 2)
           /\ conds' = [Conds(t) EXCEPT ![Symbols(t)[Len(Symbols(t)) - 2 + 1].cond].live = FALSE]
           /\ terms' = terms
    BY <1>6, <2>2 DEF end_if_body2, code
  <2>4. CASE End("undefined")
    BY <2>4, EndFits
  <2> QED BY <2>1, <2>3, <2>4, FitClosed
<1>7. CASE end_if_body1(t) \/ check_if_body2(t)
  <2>1. Len(terms') = Len(terms)
    BY <1>7 DEF end_if_body1, check_if_body2, Terminate, code
  <2> QED BY <1>7, <2>1, FitContinued
<1> QED BY <1>3, <1>4, <1>5, <1>6, <1>7 DEF Branching

LEMMA FitExpression ==
  ASSUME IInv, IInv', CondInv, Flat(status_stack), NEW t \in Token, Expression(t),
         Len(terms) <= Len(terms')
  PROVE  CondInv'
<1>1. CASE enter_parentheses(t) \/ push_operator(t) \/ solve_then_push_operator(t)
  BY <1>1, LeftOperator, LeftFits
<1>2. CASE expression_fails(t) \/ parenthesis_fails(t)
  <2>1. \E o : End(o)
    BY <1>2 DEF expression_fails, parenthesis_fails, LoopFails
  <2> QED BY <2>1, EndFits
<1>3. ASSUME NEW m \in 2 .. Len(symbol_stack),
             \/ expression_statement(t, m) \/ return_statement(t, m)
             \/ reduce_condition_calculate(t, m)
             \/ reduce_group(t, m) \/ reduce_operatorbrace(t, m)
      PROVE  CondInv'
  <2>1. CASE expression_statement(t, m) \/ return_statement(t, m)
    BY <2>1, LeftStatement, LeftFits
  <2>2. CASE reduce_group(t, m) \/ reduce_operatorbrace(t, m)
    BY <2>2, LeftParenthesis, LeftFits
  <2>3. CASE reduce_condition_calculate(t, m)
    BY <2>3, FitDecided
  <2> QED BY <1>3, <2>1, <2>2, <2>3
<1> QED BY <1>1, <1>2, <1>3 DEF Expression

LEMMA CondInductive ==
  ASSUME TreeInv, TreeInv', CondInv, [Next]_vars, Len(terms) <= Len(terms')
  PROVE  CondInv'
<1> USE DEF TreeInv
<1>1. CASE UNCHANGED vars
  BY <1>1, NothingFits DEF vars, stacks, code
<1>2. CASE \E o : End(o)
  BY <1>2, EndFits
<1>3. ASSUME NEW t \in Token, process_token(t) PROVE CondInv'
  <2>1. CASE Shift(t)
    BY <2>1, LeftShift, LeftFits
  <2>2. CASE NoRow(t) \/ Ignore(t) \/ skip(t)
    BY <1>1, <1>2, <2>2, NothingFits DEF NoRow, Ignore, skip, code
  <2>3. CASE Header(t) \/ Variable(t) \/ Body(t)
    BY <2>3, LeftHeader, LeftVariable, LeftBody, LeftFits
  <2>4. CASE Branching(t)
    BY <2>4, FitBranching
  <2>5. CASE Expression(t)
    BY <2>5, FitExpression
  <2> QED BY <1>3, <2>1, <2>2, <2>3, <2>4, <2>5 DEF process_token, Reduce
<1> QED BY <1>1, <1>2, <1>3 DEF Next, EndOfInput

\* No block is lost, and the one that is written has at most one terminator.
OnceInv == Proofs!AtOnce

LEMMA OnceInductive ==
  ASSUME TreeInv, TreeInv', RefInv, OnceInv, [Next]_vars
  PROVE  OnceInv' /\ Len(terms) <= Len(terms')
<1>1. [Proofs!Next]_(Proofs!vars) /\ Proofs!CodeInv
  BY RefInductive DEF RefInv
<1>2. CASE Proofs!Next
  BY <1>1, <1>2, Proofs!StepEnds DEF OnceInv
<1>3. CASE UNCHANGED Proofs!vars
  <2>1. terms' = terms /\ insert_block' = insert_block /\ Len(terms) \in Nat
    BY <1>3 DEF Proofs!vars, TreeInv, IInv, TypeOfCode
  <2> QED BY <2>1 DEF OnceInv, Proofs!AtOnce
<1> QED BY <1>1, <1>2, <1>3

LEMMA CondInitially == Init => CondInv /\ OnceInv
<1> SUFFICES ASSUME Init PROVE CondInv /\ OnceInv
  OBVIOUS
<1>1. status_stack = <<>> /\ conds = <<>> /\ insert_block = 0
  BY DEF Init
<1>2. HeldConds(status_stack) = {} /\ 1 .. Len(conds) = {}
  BY <1>1 DEF HeldConds
<1> QED BY <1>1, <1>2 DEF CondInv, CondsFit, OnceInv, Proofs!AtOnce

LEMMA CondInvariance == Spec => [](TreeInv /\ RefInv /\ CondInv /\ OnceInv)
<1>1. TreeInv /\ TreeInv' /\ RefInv /\ CondInv /\ OnceInv /\ [Next]_vars => (CondInv /\ OnceInv)'
  BY CondInductive, OnceInductive
<1> QED BY <1>1, CondInitially, TreeInvariance, RefInvariance, PTL DEF Spec

\* A symbol is a condition just where the status says so.
LEMMA HeldAre ==
  ASSUME IInv
  PROVE  /\ {i \in DOMAIN symbol_stack : symbol_stack[i].key = "cond"} = HeldConds(status_stack)
         /\ \A i \in HeldConds(status_stack) : symbol_stack[i].cond \in 1 .. Len(conds)
<1>1. /\ DOMAIN symbol_stack = 1 .. Len(status_stack)
      /\ WellStacked(Len(conds), status_stack, symbol_stack)
  BY Stacks
<1>2. ASSUME NEW i \in 1 .. Len(status_stack)
      PROVE  symbol_stack[i].key = "cond" <=> status_stack[i] \in CondStatus
  <2>1. StandsBeside(status_stack[i], symbol_stack[i].key)
    BY <1>1, <1>2, Entry DEF Fits
  <2>2. "cond" \notin OperandKey \cup Punchation
    BY Keys DEF OperandKey
  <2> DEFINE s == status_stack[i]
             k == symbol_stack[i].key
  <2> HIDE DEF s, k
  <2>3. StandsBeside(s, k)
    BY <2>1 DEF s, k
  <2>4. k = "cond" => s \in CondStatus
    BY ONLY <2>2, <2>3 DEF StandsBeside, CondStatus
  <2>5. s \in CondStatus => k = "cond"
    BY ONLY <2>2, <2>3 DEF StandsBeside, CondStatus
  <2> QED BY <2>4, <2>5 DEF s, k
<1>3. \A i \in HeldConds(status_stack) : symbol_stack[i].cond \in 1 .. Len(conds)
  BY OfCondition DEF HeldConds, CondStatus
<1> QED BY <1>1, <1>2, <1>3 DEF HeldConds

LEMMA FittingConditions == ASSUME IInv, CondInv PROVE CondsMatchStack
<1> DEFINE H == HeldConds(status_stack)
<1>1. /\ DOMAIN conds = 1 .. Len(conds) /\ Block = 1 .. Len(terms)
      /\ \A i, j \in H : i < j \/ j < i \/ i = j
  BY DEF IInv, TypeOfCode, Block, HeldConds
<1>2. {symbol_stack[i].cond : i \in H} = {c \in DOMAIN conds : conds[c].live}
  BY <1>1, HeldAre DEF CondInv, CondsFit
<1>3. \A i, j \in H : symbol_stack[i].cond = symbol_stack[j].cond => i = j
  <2>1. \A i, j \in H : i < j => symbol_stack[i].cond # symbol_stack[j].cond
    <3>1. \A i \in H : symbol_stack[i].cond \in Nat
      BY HeldAre
    <3> QED BY <3>1 DEF CondInv, CondsFit
  <2> QED BY <1>1, <2>1
<1>4. \A i \in H :
        LET c == conds[symbol_stack[i].cond] IN
        CASE status_stack[i] = 17 -> c.body1 = 0
          [] status_stack[i] \in {19, 20, 21} -> c.body2 \in Block /\ c.exit_block = 0
          [] status_stack[i] = 23 -> c.entery_block \in Block /\ c.exit_block = 0
          [] OTHER -> {c.entery_block, c.exit_block} \subseteq Block
  <2>1. \A i \in H : /\ status_stack[i] \in CondStatus
                     /\ Known(status_stack[i], conds[symbol_stack[i].cond], Len(terms))
    BY DEF CondInv, CondsFit, HeldConds
  <2> QED BY <1>1, <2>1 DEF Known, CondStatus
<1> HIDE DEF H
<1> QED BY <1>2, <1>3, <1>4, HeldAre DEF CondsMatchStack, H

\* No CondParam is leaked, deleted twice or used after it was deleted: those that
\* live are just those on the stack, and each has the blocks its status promises.
THEOREM ConditionsMatchTheStack == Spec => []CondsMatchStack
<1>1. TreeInv /\ CondInv => CondsMatchStack
  BY FittingConditions DEF TreeInv
<1> QED BY <1>1, CondInvariance, PTL

-----------------------------------------------------------------------------
(* The terminators of the blocks. *)

\* A condition that was deleted stays so, and what it knows of its loop stays.
DeadStay ==
  \A c \in 1 .. Len(conds) :
    /\ c \in 1 .. Len(conds') /\ conds'[c].entery_block = conds[c].entery_block
    /\ ~conds[c].live => ~conds'[c].live

\* A step that goes on in the same block, makes blocks or ends one that is open.
Plain ==
  \/ terms' = terms \/ insert_block' = insert_block
  \/ Len(terms') # Len(terms) \/ terms[insert_block] = <<>>

LEMMA KeptDead ==
  ASSUME IInv, NEW t \in Token,
         \/ conds' \in {conds, Conds(t)} \/ \E x : conds' = Append(Conds(t), x)
         \/ \E c : conds' = [Conds(t) EXCEPT ![c].live = FALSE]
  PROVE  DeadStay
<1>1. CondsKept /\ \A c \in 1 .. Len(conds) : ~conds[c].live => ~conds'[c].live
  BY KeptConds
<1>2. Len(conds) \in Nat /\ Len(conds') \in Nat
  <2>1. Len(conds) \in Nat /\ Conds(t) \in Seq(CondOf(MaybeBlock))
    BY CondsNow
  <2>2. \A x : Len(Append(Conds(t), x)) \in Nat
    BY <2>1
  <2>3. \A c : Len([Conds(t) EXCEPT ![c].live = FALSE]) \in Nat
    <3>1. \A c : Len([Conds(t) EXCEPT ![c].live = FALSE]) = Len(Conds(t))
      BY <2>1, DeadType
    <3> QED BY <2>1, <3>1
  <2> QED BY <2>1, <2>2, <2>3
<1>3. \A c \in 1 .. Len(conds) : c \in 1 .. Len(conds')
  BY <1>1, <1>2 DEF CondsKept
<1> QED BY <1>1, <1>3 DEF DeadStay, CondsKept

LEMMA DecidedPlain ==
  ASSUME IInv, NEW t \in Token, NEW m \in 2 .. Len(symbol_stack), reduce_condition_calculate(t, m)
  PROVE  DeadStay /\ Plain
<1>1. CASE conds' = conds /\ terms' = terms
  BY <1>1, KeptDead DEF Plain
<1>2. ASSUME NEW s \in {17, 23}, status_stack[m - 1] = s, Decides(m - 2, s)
      PROVE  DeadStay /\ Plain
  <2> DEFINE n == m - 2
             c == symbol_stack[n + 1].cond
  <2>1. Len(terms) \in Nat
    BY DEF IInv, TypeOfCode
  <2>2. Plain
    <3>1. terms' = Terminate(terms, insert_block, {Len(terms) + 1, Len(terms) + 1 + 1}) \o <<<<>>, <<>>>>
      BY <1>2 DEF Decides
    <3>2. Len(terms) + 2 \in Nat /\ {Len(terms) + 1, Len(terms) + 1 + 1} \in SUBSET (0 .. Len(terms) + 2)
      BY <2>1
    <3>3. Len(Terminate(terms, insert_block, {Len(terms) + 1, Len(terms) + 1 + 1}) \o <<<<>>, <<>>>>) = Len(terms) + 2
      BY <3>2, EndedBlock
    <3>4. Len(terms) + 2 # Len(terms)
      BY <2>1
    <3>5. Len(terms') # Len(terms)
      BY ONLY <3>1, <3>3, <3>4
    <3> QED BY <3>5 DEF Plain
  <2>3. PICK x : /\ conds' = [conds EXCEPT ![c] = x]
                 /\ x.entery_block = conds[c].entery_block /\ x.live = conds[c].live
    BY <1>2 DEF Decides
  <2>4. conds \in Seq(CondOf(MaybeBlock))
    BY DEF IInv, TypeOfCode
  <2> HIDE DEF c
  <2>5. Len(conds') = Len(conds) /\ \A d \in 1 .. Len(conds) : conds'[d] = IF d = c THEN x ELSE conds[d]
    BY <2>3, <2>4
  <2> QED BY <2>2, <2>3, <2>5 DEF DeadStay
<1>3. (\E o : End(o)) => conds' = conds /\ terms' = terms
  BY DEF End, code
<1>4. ASSUME NEW s \in {17, 23}, status_stack[m - 1] = s PROVE (\E o : End(o)) \/ Decides(m - 2, s)
  BY <1>4, Stacks, ReducedDecides
<1>5. status_stack[m - 1] \notin {17, 23} => (\E o : End(o)) \/ (conds' = conds /\ terms' = terms)
  BY DEF reduce_condition_calculate
<1> QED BY <1>1, <1>2, <1>3, <1>4, <1>5

\* An if-branch that has not returned ends the block it is in.
LEMMA FallsOpen ==
  ASSUME TreeInv, RefInv, NEW t \in Token, end_if_body1(t)
  PROVE  Plain
<1>1. CurrentStatus(t) = 19
  <2>1. CurrentStatus(t) \in Status /\ t.key \in Key
    BY Dispatch, TokenIsSymbol DEF TreeInv
  <2> QED BY <2>1, Registered DEF end_if_body1, On, NoEntry
<1>2. Inside
  BY <1>1, BodyNow DEF InBody
<1>3. scopes[current_node].has_return => terms' = terms
  BY DEF end_if_body1
<1>4. ~scopes[current_node].has_return => terms[insert_block] = <<>>
  BY <1>2, OpenBlock
<1> QED BY <1>3, <1>4 DEF Plain

LEMMA BranchingPlain ==
  ASSUME TreeInv, RefInv, NEW t \in Token, Branching(t)
  PROVE  DeadStay /\ (Plain \/ end_while_body(t))
<1>1. DeadStay
  <2>1. \/ conds' \in {conds, Conds(t)} \/ \E x : conds' = Append(Conds(t), x)
        \/ \E c : conds' = [Conds(t) EXCEPT ![c].live = FALSE]
    <3>1. CASE start_while_condition(t) \/ start_if_condition(t)
      BY <3>1 DEF start_while_condition, start_if_condition
    <3>2. CASE end_while_body(t)
      BY <3>2 DEF end_while_body
    <3>3. CASE end_if_body1(t) \/ check_if_body2(t)
      BY <3>3 DEF end_if_body1, check_if_body2
    <3>4. CASE end_if_body2(t)
      BY <3>4 DEF end_if_body2, End
    <3> QED BY <3>1, <3>2, <3>3, <3>4 DEF Branching
  <2> QED BY <2>1, KeptDead DEF TreeInv
<1>2. Plain \/ end_while_body(t)
  <2>1. CASE start_while_condition(t)
    <3> DEFINE b == Len(terms) + 1
    <3>1. Len(terms) \in Nat /\ terms' = Append(Terminate(terms, insert_block, {b}), <<>>)
      BY <2>1 DEF start_while_condition, TreeInv, IInv, TypeOfCode
    <3>2. b \in Nat /\ {b} \in SUBSET (0 .. b) /\ b # Len(terms)
      BY <3>1
    <3>3. Len(Append(Terminate(terms, insert_block, {b}), <<>>)) = b
      BY <3>2, EndedBlock DEF TreeInv
    <3> QED BY ONLY <3>1, <3>2, <3>3 DEF Plain
  <2>2. CASE start_if_condition(t) \/ check_if_body2(t) \/ end_if_body2(t)
    BY <2>2 DEF start_if_condition, check_if_body2, end_if_body2, End, Plain, code
  <2>3. CASE end_if_body1(t)
    BY <2>3, FallsOpen
  <2> QED BY <2>1, <2>2, <2>3 DEF Branching
<1> QED BY <1>1, <1>2

LEMMA ExpressionPlain ==
  ASSUME IInv, NEW t \in Token, Expression(t)
  PROVE  DeadStay /\ Plain
<1>1. CASE conds' = conds /\ (terms' = terms \/ insert_block' = insert_block)
  BY <1>1, KeptDead DEF Plain
<1>2. ASSUME NEW o, End(o) PROVE conds' = conds /\ terms' = terms
  BY <1>2 DEF End, code
<1>3. CASE enter_parentheses(t) \/ push_operator(t) \/ solve_then_push_operator(t)
  <2>1. CASE enter_parentheses(t) \/ push_operator(t)
    BY <1>1, <1>2, <2>1 DEF enter_parentheses, push_operator, code
  <2>2. CASE solve_then_push_operator(t)
    <3>1. (\E o : End(o)) \/ UNCHANGED <<conds, terms>>
      BY <2>2, Zenon DEF solve_then_push_operator
    <3> QED BY <1>1, <1>2, <3>1
  <2> QED BY <1>3, <2>1, <2>2
<1>4. CASE expression_fails(t) \/ parenthesis_fails(t)
  <2>1. \E o : End(o)
    BY <1>4 DEF expression_fails, parenthesis_fails, LoopFails
  <2> QED BY <1>1, <1>2, <2>1
<1>5. ASSUME NEW m \in 2 .. Len(symbol_stack), expression_statement(t, m) \/ return_statement(t, m)
      PROVE  DeadStay /\ Plain
  <2>1. \/ \E o : End(o)
        \/ conds' = conds /\ (terms' = terms \/ insert_block' = insert_block)
    <3>1. CASE expression_statement(t, m)
      BY <3>1, Zenon DEF expression_statement
    <3>2. CASE return_statement(t, m)
      BY <3>2, Zenon DEF return_statement
    <3> QED BY <1>5, <3>1, <3>2
  <2> QED BY <1>1, <1>2, <2>1
<1>6. ASSUME NEW m \in 2 .. Len(symbol_stack), reduce_group(t, m) \/ reduce_operatorbrace(t, m)
      PROVE  DeadStay /\ Plain
  <2>1. (\E o : End(o)) \/ UNCHANGED <<conds, terms>>
    <3>1. CASE reduce_group(t, m)
      BY <3>1, Zenon DEF reduce_group
    <3>2. CASE reduce_operatorbrace(t, m)
      BY <3>2, Zenon DEF reduce_operatorbrace
    <3> QED BY <1>6, <3>1, <3>2
  <2> QED BY <1>1, <1>2, <2>1
<1> QED BY <1>3, <1>4, <1>5, <1>6, DecidedPlain DEF Expression

LEMMA StepPlain ==
  ASSUME TreeInv, RefInv, NEW t \in Token, process_token(t)
  PROVE  DeadStay /\ (Plain \/ end_while_body(t))
<1> USE DEF TreeInv
<1>1. CASE \E o : End(o)
  <2>1. conds' = conds /\ terms' = terms
    BY <1>1 DEF End, code
  <2> QED BY <2>1, KeptDead DEF Plain
<1>2. CASE conds' \in {conds, Conds(t)} /\ (UNCHANGED terms \/ UNCHANGED insert_block)
  BY <1>2, KeptDead DEF Plain
<1>3. CASE Shift(t) \/ NoRow(t) \/ Ignore(t) \/ skip(t)
  BY <1>1, <1>2, <1>3 DEF Shift, NoRow, Ignore, skip, vars, code
<1>4. CASE Header(t)
  BY <1>1, <1>2, <1>4 DEF Header, get_function_name, get_argument, wait_function_return_type,
                          get_function_return_type, function_declear, code
<1>5. CASE Variable(t)
  BY <1>1, <1>2, <1>5 DEF Variable, define_pointer, define_variable, define_again,
                          define_finished, Define, code
<1>6. CASE Body(t)
  <2>1. CASE function_body_define_finished(t)
    BY <1>2, <2>1 DEF function_body_define_finished
  <2>2. ASSUME conds' = conds, terms' = Append(terms, <<>>) PROVE DeadStay /\ Plain
    <3>1. Len(Append(terms, <<>>)) # Len(terms)
      BY DEF IInv, TypeOfCode
    <3> QED BY <2>2, <3>1, KeptDead DEF Plain
  <2>3. CASE function_body_define_strart(t) \/ has_return_type_function_define(t)
    BY <1>1, <2>2, <2>3 DEF function_body_define_strart, has_return_type_function_define, StartBody
  <2> QED BY <1>6, <2>1, <2>3 DEF Body
<1>7. CASE Branching(t)
  BY <1>7, BranchingPlain
<1>8. CASE Expression(t)
  BY <1>8, ExpressionPlain
<1> QED BY <1>3, <1>4, <1>5, <1>6, <1>7, <1>8 DEF process_token, Reduce

\* What the property says of one block.
EndsOnce(b) ==
  \/ Len(terms[b]) <= 1
  \/ /\ Len(terms[b]) = 2
     /\ \E c \in 1 .. Len(conds) :
          /\ conds[c].entery_block # 0 /\ ~conds[c].live
          /\ terms[b][2] = {conds[c].entery_block}

LEMMA StaysEnded ==
  ASSUME NEW b, EndsOnce(b), terms'[b] = terms[b], DeadStay
  PROVE  EndsOnce(b)'
  BY DEF EndsOnce, DeadStay

\* A loop that has returned branches back as well; its condition is deleted.
LEMMA LoopEnds ==
  ASSUME TreeInv, RefInv, CondInv, NEW t \in Token, end_while_body(t), DeadStay,
         NEW b, b = insert_block, Len(terms'[b]) = 2
  PROVE  EndsOnce(b)'
<1> USE DEF TreeInv
<1> DEFINE n == Len(Statuses(t))
           c == Last(Symbols(t)).cond
           e == conds[c].entery_block
<1>1. CurrentStatus(t) = 24
  <2>1. CurrentStatus(t) \in Status /\ t.key \in Key
    BY Dispatch, TokenIsSymbol
  <2> QED BY <2>1, Registered DEF end_while_body, On, NoEntry
<1>2. /\ n \in 1 .. Len(status_stack) /\ status_stack[n] = 24
      /\ Len(Symbols(t)) = n /\ Symbols(t)[n] = symbol_stack[n] /\ Inside
  BY <1>1, BodyNow DEF InBody
<1>3. c = symbol_stack[n].cond
  BY <1>2 DEF Last
<1>4. n \in HeldConds(status_stack)
  BY <1>2 DEF HeldConds, CondStatus
<1>5. c \in 1 .. Len(conds) /\ e \in 1 .. Len(terms)
  <2>1. Known(24, conds[c], Len(terms))
    BY <1>2, <1>3, <1>4 DEF CondInv, CondsFit
  <2>2. c \in 1 .. Len(conds)
    BY <1>3, <1>4, HeldAre
  <2> QED BY <2>1, <2>2 DEF Known
<1>6. /\ terms' = Terminate(terms, b, {e})
      /\ conds' = [Conds(t) EXCEPT ![c].live = FALSE]
  BY DEF end_while_body
<1>7. ~conds'[c].live
  <2> DEFINE cs == Conds(t)
             S == CondOf(MaybeBlock)
  <2>1. cs \in Seq(S) /\ Len(cs) = Len(conds)
    BY CondsNow
  <2>2. cs[c] \in S /\ c \in DOMAIN cs
    <3> HIDE DEF cs, S, c
    <3> QED BY <1>5, <2>1
  <2>3. ~[cs[c] EXCEPT !.live = FALSE].live
    BY <2>2 DEF CondOf
  <2>4. conds' = [cs EXCEPT ![c].live = FALSE]
    BY <1>6
  <2> DEFINE x == [cs[c] EXCEPT !.live = FALSE]
  <2>5. conds' = [cs EXCEPT ![c] = x] /\ cs = [i \in DOMAIN cs |-> cs[i]]
    <3>1. cs = [i \in DOMAIN cs |-> cs[i]]
      <4> HIDE DEF cs, S
      <4> QED BY <2>1
    <3> QED BY <2>4, <3>1
  <2> HIDE DEF cs, x, c
  <2>6. conds'[c] = x
    BY <2>2, <2>5
  <2> QED BY <2>3, <2>6 DEF x
<1>8. terms'[b][2] = {e}
  <2>1. b \in 1 .. Len(terms) /\ terms \in Seq(Seq(SUBSET Nat))
    <3>1. Proofs!CodeInv /\ Proofs!Open
      BY <1>2 DEF RefInv, ParserInv, FunctionIsParsed, Proofs!Open
    <3> QED BY <3>1, Proofs!Now DEF Proofs!Block, Proofs!CodeInv, Proofs!TypeOfBlocks
  <2>2. terms'[b] = Append(terms[b], {e}) /\ terms[b] \in Seq(SUBSET Nat)
    <3> HIDE DEF e
    <3> QED BY <1>6, <2>1 DEF Terminate
  <2> HIDE DEF e
  <2> DEFINE x == terms[b]
             S == SUBSET Nat
  <2>3. x \in Seq(S) /\ Len(Append(x, {e})) = 2 /\ terms'[b] = Append(x, {e})
    BY <2>2
  <2> HIDE DEF x, S
  <2>4. Len(x) \in Nat /\ Len(Append(x, {e})) = Len(x) + 1 /\ Append(x, {e})[Len(x) + 1] = {e}
    BY ONLY <2>3
  <2>5. Len(x) = 1
    <3>1. \A k \in Nat : k + 1 = 2 => k = 1
      OBVIOUS
    <3> QED BY ONLY <2>3, <2>4, <3>1, Zenon
  <2>6. Append(x, {e})[2] = {e}
    BY ONLY <2>4, <2>5
  <2> QED BY ONLY <2>3, <2>6
<1>9. conds'[c].entery_block = e /\ c \in 1 .. Len(conds') /\ e # 0
  BY <1>5 DEF DeadStay
<1> HIDE DEF c, e
<1>10. \E d \in 1 .. Len(conds') :
         /\ conds'[d].entery_block # 0 /\ ~conds'[d].live
         /\ terms'[b][2] = {conds'[d].entery_block}
  BY <1>7, <1>8, <1>9
<1> QED BY <1>10 DEF EndsOnce

LEMMA EndsInductive ==
  ASSUME TreeInv, TreeInv', RefInv, CondInv, OnceInv, [Next]_vars, \A b \in 1 .. Len(terms) : EndsOnce(b)
  PROVE  \A b \in 1 .. Len(terms') : EndsOnce(b)'
<1>1. CASE UNCHANGED vars \/ EndOfInput
  <2>1. UNCHANGED <<conds, terms>>
    BY <1>1 DEF vars, EndOfInput, End, code
  <2> QED BY <2>1 DEF EndsOnce
<1>2. ASSUME NEW t \in Token, process_token(t), NEW b \in 1 .. Len(terms')
      PROVE  EndsOnce(b)'
  <2>1. DeadStay /\ (Plain \/ end_while_body(t))
    BY <1>2, StepPlain
  <2>2. [Proofs!Next]_(Proofs!vars) /\ Proofs!CodeInv /\ Proofs!AtOnce
    BY RefInductive DEF RefInv, OnceInv
  <2>3. CASE b \in 1 .. Len(terms) /\ terms'[b] = terms[b]
    BY <2>1, <2>3, StaysEnded
  <2>4. CASE Len(terms'[b]) <= 1
    BY <2>4 DEF EndsOnce
  <2>5. CASE UNCHANGED Proofs!vars
    BY <1>2, <2>3, <2>5 DEF Proofs!vars
  <2>6. CASE /\ b = insert_block /\ Proofs!Ended /\ insert_block' # insert_block
             /\ Len(terms') = Len(terms) /\ Len(terms'[b]) = 2
    <3>1. CASE Plain
      <4>1. terms' = terms
        BY <2>6, <3>1 DEF Plain, Proofs!Ended
      <4> QED BY <1>2, <2>3, <4>1
    <3>2. CASE end_while_body(t)
      BY <1>2, <2>1, <2>6, <3>2, LoopEnds
    <3> QED BY <2>1, <3>1, <3>2
  <2>7. CASE Proofs!Next
    BY <1>2, <2>2, <2>3, <2>4, <2>6, <2>7, Proofs!StepCounts DEF Proofs!Block
  <2> QED BY <2>2, <2>5, <2>7
<1> QED BY <1>1, <1>2 DEF Next

\* No basic block is ended twice, but for one that loops back after a return: the
\* second terminator is then the branch to the block its loop starts at.
THEOREM BlocksEndOnce == Spec => []OneTerminatorButLoops
<1> DEFINE Ends == \A b \in 1 .. Len(terms) : EndsOnce(b)
<1>1. Init => Ends
  BY DEF Init
<1>2. TreeInv /\ TreeInv' /\ RefInv /\ CondInv /\ OnceInv /\ Ends /\ [Next]_vars => Ends'
  BY EndsInductive
<1>3. TreeInv /\ Ends => OneTerminatorButLoops
  <2>1. TreeInv => DOMAIN conds = 1 .. Len(conds)
    BY DEF TreeInv, IInv, TypeOfCode
  <2> QED BY <2>1 DEF OneTerminatorButLoops, EndsOnce, Block
<1> HIDE DEF Ends
<1> QED BY <1>1, <1>2, <1>3, CondInvariance, PTL DEF Spec
-----------------------------------------------------------------------------
(* Where storage is allocated. *)

LEMMA FreshIsUnset == Fresh.address = 0
  BY DEF Fresh, NoStorage

LEMMA StoresSame ==
  ASSUME NEW old, NEW new, NEW b, NEW h, DOMAIN old \subseteq DOMAIN new,
         \A p \in DOMAIN new :
           \/ new[p].address = 0
           \/ p \in DOMAIN old /\ new[p].address = old[p].address /\ new[p].home = old[p].home
  PROVE  Stores(old, new, b, h)
  BY DEF Stores

LEMMA StoresTwice ==
  ASSUME NEW old, NEW mid, NEW new, NEW b, NEW h, Stores(old, mid, b, h), DOMAIN mid = DOMAIN new,
         \A p \in DOMAIN new : new[p].address = mid[p].address /\ new[p].home = mid[p].home
  PROVE  Stores(old, new, b, h)
  BY DEF Stores

LEMMA StoresNoted ==
  ASSUME NEW old, NEW mid, NEW b, NEW h, Stores(old, mid, b, h), \A p \in DOMAIN mid : mid[p] \in Node,
         NEW q
  PROVE  /\ \A fn : Stores(old, [mid EXCEPT ![q].function_ptr = fn], b, h)
         /\ Stores(old, [mid EXCEPT ![q].has_return = TRUE], b, h)
<1>1. ASSUME NEW fn PROVE Stores(old, [mid EXCEPT ![q].function_ptr = fn], b, h)
  <2> DEFINE new == [mid EXCEPT ![q].function_ptr = fn]
  <2>1. /\ DOMAIN new = DOMAIN mid
        /\ \A p \in DOMAIN new : new[p].address = mid[p].address /\ new[p].home = mid[p].home
    BY DEF Node
  <2> HIDE DEF new
  <2>2. Stores(old, new, b, h)
    BY <2>1, StoresTwice
  <2> QED BY <2>2 DEF new
<1>2. Stores(old, [mid EXCEPT ![q].has_return = TRUE], b, h)
  <2> DEFINE new == [mid EXCEPT ![q].has_return = TRUE]
  <2>1. /\ DOMAIN new = DOMAIN mid
        /\ \A p \in DOMAIN new : new[p].address = mid[p].address /\ new[p].home = mid[p].home
    BY DEF Node
  <2> HIDE DEF new
  <2>2. Stores(old, new, b, h)
    BY <2>1, StoresTwice
  <2> QED BY <2>2 DEF new
<1> QED BY <1>1, <1>2

LEMMA StoresNothing == \A old, b, h : Stores(old, old, b, h)
  BY DEF Stores

\* A new scope has no storage.
LEMMA StoresGrown ==
  ASSUME NEW nodes, \A p \in DOMAIN nodes : nodes[p] \in Node, NEW p, NEW b, NEW h
  PROVE  /\ Stores(nodes, With(nodes, p), b, h)
         /\ \A q, n : Stores(nodes, With([nodes EXCEPT ![q].name_no = n], p), b, h)
<1>1. Stores(nodes, With(nodes, p), b, h)
  <2>1. /\ DOMAIN nodes \subseteq DOMAIN With(nodes, p)
        /\ \A r \in DOMAIN With(nodes, p) :
             \/ With(nodes, p)[r].address = 0
             \/ r \in DOMAIN nodes /\ With(nodes, p)[r] = nodes[r]
    BY FreshIsUnset DEF With
  <2> QED BY <2>1, StoresSame
<1>2. ASSUME NEW q, NEW n PROVE Stores(nodes, With([nodes EXCEPT ![q].name_no = n], p), b, h)
  <2> DEFINE mid == [nodes EXCEPT ![q].name_no = n]
  <2>1. /\ DOMAIN mid = DOMAIN nodes
        /\ \A r \in DOMAIN mid : mid[r].address = nodes[r].address /\ mid[r].home = nodes[r].home
    BY DEF Node
  <2> HIDE DEF mid
  <2>2. /\ DOMAIN mid \subseteq DOMAIN With(mid, p)
        /\ \A r \in DOMAIN With(mid, p) :
             \/ With(mid, p)[r].address = 0
             \/ r \in DOMAIN mid /\ With(mid, p)[r] = mid[r]
    BY FreshIsUnset DEF With
  <2>3. \A r \in DOMAIN With(mid, p) :
          \/ With(mid, p)[r].address = 0
          \/ /\ r \in DOMAIN nodes /\ With(mid, p)[r].address = nodes[r].address
             /\ With(mid, p)[r].home = nodes[r].home
    BY <2>1, <2>2
  <2>4. DOMAIN nodes \subseteq DOMAIN With(mid, p)
    BY <2>1, <2>2
  <2>5. Stores(nodes, With(mid, p), b, h)
    BY <2>3, <2>4, StoresSame
  <2> QED BY <2>5 DEF mid
<1> QED BY <1>1, <1>2

\* The arguments of a function are allocated in its first block.
LEMMA StoresOpened ==
  ASSUME TreeInv, NEW entry \in Nat
  PROVE  Stores(scopes, Opened(FunctionScope, func_param.arg, entry), entry, FunctionScope)
<1> DEFINE path == FunctionScope
           args == Arguments(path, func_param.arg)
           new == Opened(path, func_param.arg, entry)
<1>1. path # Root
  <2>1. current_node \in Seq(NodeName)
    BY DEF TreeInv, InTree, TreeOf, Path
  <2>2. Append(current_node, Mangled(func_param.name, Len(func_param.arg))) # <<>>
    BY <2>1, Appended
  <2> QED BY <2>2 DEF FunctionScope, Root
<1>2. DOMAIN scopes \subseteq DOMAIN new
  BY DEF Opened
<1>3. ASSUME NEW r \in DOMAIN new
      PROVE  \/ new[r].address = 0
             \/ r \in DOMAIN scopes /\ new[r].address = scopes[r].address /\ new[r].home = scopes[r].home
             \/ new[r].address = entry /\ new[r].home = path
  <2> DEFINE node == IF r \in DOMAIN scopes THEN scopes[r] ELSE Fresh
  <2>1. node \in Node /\ (r \notin DOMAIN scopes => node.address = 0)
    BY FreshNode, FreshIsUnset DEF TreeInv, InTree, TreeOf
  <2>2. new[r] = IF r = path THEN [node EXCEPT !.is_func_root = TRUE]
                 ELSE IF r \in args THEN [node EXCEPT !.address = entry, !.home = path]
                 ELSE node
    BY <1>3 DEF Opened
  <2>3. r \in DOMAIN scopes => node = scopes[r]
    OBVIOUS
  <2> HIDE DEF node, new, path, args
  <2>4. \/ new[r].address = node.address /\ new[r].home = node.home
        \/ new[r].address = entry /\ new[r].home = path
    BY <2>1, <2>2 DEF Node
  <2> QED BY <2>1, <2>3, <2>4
<1> HIDE DEF new, path
<1>4. Stores(scopes, new, entry, path)
  BY <1>1, <1>2, <1>3 DEF Stores
<1> QED BY <1>4 DEF new, path

LEMMA StoresNodes == ASSUME TreeInv PROVE \A p \in DOMAIN scopes : scopes[p] \in Node
  BY DEF TreeInv, InTree, TreeOf

\* The step allocates in the block being written, for the current scope.
StoresHere == Stores(scopes, scopes', insert_block, current_node)

LEMMA ExpressionStores ==
  ASSUME TreeInv, NEW t \in Token, Expression(t)
  PROVE  StoresHere
<1>1. CASE scopes' = scopes \/ \E o : End(o)
  <2>1. scopes' = scopes
    BY <1>1 DEF End, tree
  <2> QED BY <2>1, StoresNothing DEF StoresHere
<1>2. CASE \E m : scopes' = TouchedBy(symbol_stack, m)
  BY <1>2, StoresTouched DEF StoresHere
<1>3. CASE enter_parentheses(t) \/ push_operator(t)
  BY <1>1, <1>3 DEF enter_parentheses, push_operator, tree
<1>4. CASE solve_then_push_operator(t)
  <2>1. (\E o : End(o)) \/ \E m : Evaluate(symbol_stack, m)
    BY <1>4, Zenon DEF solve_then_push_operator
  <2> QED BY <1>1, <1>2, <2>1 DEF Evaluate
<1>5. CASE expression_fails(t) \/ parenthesis_fails(t)
  BY <1>1, <1>5, Zenon DEF expression_fails, LoopFails, parenthesis_fails
<1>6. ASSUME NEW m,
             \/ expression_statement(t, m) \/ return_statement(t, m)
             \/ reduce_condition_calculate(t, m)
             \/ reduce_group(t, m) \/ reduce_operatorbrace(t, m)
      PROVE  StoresHere
  <2>1. CASE expression_statement(t, m)
    <3>1. (\E o : End(o)) \/ Evaluate(symbol_stack, m)
      BY <2>1, Zenon DEF expression_statement
    <3> QED BY <1>1, <1>2, <3>1 DEF Evaluate
  <2>2. CASE return_statement(t, m)
    <3> DEFINE touched == TouchedBy(symbol_stack, m)
    <3>1. \/ \E o : End(o)
          \/ scopes' = [touched EXCEPT ![current_node].has_return = TRUE]
      BY <2>2, Zenon DEF return_statement
    <3>2. /\ \A p \in DOMAIN touched : touched[p] \in Node
          /\ Stores(scopes, touched, insert_block, current_node)
      BY TouchTree, StoresTouched DEF TreeInv
    <3> HIDE DEF touched
    <3>3. Stores(scopes, [touched EXCEPT ![current_node].has_return = TRUE], insert_block, current_node)
      BY <3>2, StoresNoted
    <3> QED BY <1>1, <3>1, <3>3 DEF StoresHere
  <2>3. CASE reduce_condition_calculate(t, m)
    <3>1. (\E o : End(o)) \/ scopes' = TouchedBy(symbol_stack, m)
      BY <2>3, Zenon DEF reduce_condition_calculate
    <3> QED BY <1>1, <1>2, <3>1
  <2>4. CASE reduce_group(t, m)
    <3>1. (\E o : End(o)) \/ Evaluate(symbol_stack, m + 1)
      BY <2>4, Zenon DEF reduce_group
    <3> QED BY <1>1, <1>2, <3>1 DEF Evaluate
  <2>5. CASE reduce_operatorbrace(t, m)
    <3>1. (\E o : End(o)) \/ scopes' = scopes
      BY <2>5, Zenon DEF reduce_operatorbrace, tree
    <3> QED BY <1>1, <3>1
  <2> QED BY <1>6, <2>1, <2>2, <2>3, <2>4, <2>5
<1> QED BY <1>3, <1>4, <1>5, <1>6 DEF Expression

\* The step begins a function, and allocates its arguments.
StoresThere ==
  /\ Stores(scopes, scopes', insert_block', current_node')
  /\ current_node' = FunctionScope /\ insert_block' = Len(terms) + 1
  /\ ~Inside /\ func_param'.basic_blocks # <<>>

LEMMA BodyStores ==
  ASSUME TreeInv, NEW t \in Token,
         function_body_define_strart(t) \/ has_return_type_function_define(t)
  PROVE  StoresHere \/ StoresThere
<1> DEFINE entry == Len(terms) + 1
           opened == Opened(FunctionScope, func_param.arg, entry)
<1>1. CASE \E o : End(o)
  <2>1. scopes' = scopes
    BY <1>1 DEF End, tree
  <2> QED BY <2>1, StoresNothing DEF StoresHere
<1>2. CurrentStatus(t) \in {14, 25}
  <2>1. CurrentStatus(t) \in Status /\ t.key \in Key
    BY Dispatch, TokenIsSymbol DEF TreeInv
  <2> QED BY <2>1, Registered DEF function_body_define_strart, has_return_type_function_define, On, NoEntry
<1>3. ~Inside
  BY <1>2, HeaderOutside
<1>4. entry \in Nat
  BY DEF IInv, TypeOfCode, TreeInv
<1>5. /\ Stores(scopes, opened, entry, FunctionScope)
      /\ \A p \in DOMAIN opened : opened[p] \in Node
  BY <1>4, StoresOpened, OpenTree DEF TreeInv, TreeOf
<1>6. \/ \E o : End(o)
      \/ /\ func_param' = [func_param EXCEPT !.basic_blocks = Append(@, entry)]
         /\ insert_block' = entry /\ current_node' = FunctionScope
         /\ \/ scopes' = opened
            \/ scopes' = [opened EXCEPT ![FunctionScope].function_ptr = Len(functions) + 1]
  BY DEF function_body_define_strart, has_return_type_function_define, StartBody
<1> HIDE DEF opened
<1>7. \A fn : Stores(scopes, [opened EXCEPT ![FunctionScope].function_ptr = fn], entry, FunctionScope)
  BY <1>5, StoresNoted
<1>8. CASE ~ \E o : End(o)
  <2>1. /\ insert_block' = entry /\ current_node' = FunctionScope
        /\ Stores(scopes, scopes', entry, FunctionScope)
    BY <1>5, <1>6, <1>7, <1>8
  <2>2. func_param'.basic_blocks # <<>>
    <3>1. func_param' = [func_param EXCEPT !.basic_blocks = Append(@, entry)]
      BY <1>6, <1>8
    <3> QED BY <3>1, ParamGrows DEF TreeInv
  <2> QED BY <1>3, <2>1, <2>2 DEF StoresThere
<1> QED BY <1>1, <1>8

LEMMA StepStores ==
  ASSUME TreeInv, NEW t \in Token, process_token(t)
  PROVE  StoresHere \/ StoresThere
<1>1. CASE scopes' = scopes \/ \E o : End(o)
  <2>1. scopes' = scopes
    BY <1>1 DEF End, tree
  <2> QED BY <2>1, StoresNothing DEF StoresHere
<1>2. \A p \in DOMAIN scopes : scopes[p] \in Node
  BY StoresNodes
<1>9. ASSUME NEW q
      PROVE  /\ \A fn : Stores(scopes, [scopes EXCEPT ![q].function_ptr = fn], insert_block, current_node)
             /\ Stores(scopes, [scopes EXCEPT ![q].has_return = TRUE], insert_block, current_node)
  <2>1. Stores(scopes, scopes, insert_block, current_node)
    BY StoresNothing
  <2> QED BY <1>2, <2>1, StoresNoted, Zenon
<1>3. CASE Shift(t) \/ NoRow(t) \/ Ignore(t) \/ skip(t)
  BY <1>1, <1>3 DEF Shift, NoRow, Ignore, skip, vars, tree
<1>4. CASE Header(t)
  BY <1>1, <1>4 DEF Header, get_function_name, get_argument, wait_function_return_type,
                    get_function_return_type, function_declear, tree
<1>5. CASE function_body_define_finished(t)
  <2>1. \E fn : scopes' = [scopes EXCEPT ![current_node].function_ptr = fn]
    BY <1>5 DEF function_body_define_finished
  <2>2. PICK fn : scopes' = [scopes EXCEPT ![current_node].function_ptr = fn]
    BY <2>1
  <2>3. Stores(scopes, [scopes EXCEPT ![current_node].function_ptr = fn], insert_block, current_node)
    BY <1>9
  <2> QED BY <2>2, <2>3 DEF StoresHere
<1>6. CASE Variable(t)
  <2>1. (\E o : End(o)) \/ scopes' = scopes \/ \E p : scopes' = With(scopes, p)
    BY <1>6 DEF Variable, define_pointer, define_variable, define_again,
                define_finished, Define, tree
  <2>2. \A p : Stores(scopes, With(scopes, p), insert_block, current_node)
    BY <1>2, StoresGrown, Zenon
  <2> QED BY <1>1, <2>1, <2>2 DEF StoresHere
<1>7. CASE Branching(t)
  <2>1. \/ \E o : End(o)
        \/ scopes' = scopes
        \/ EnterAnonymous
        \/ \E q : scopes' = [scopes EXCEPT ![q].has_return = TRUE]
    BY <1>7 DEF Branching, start_while_condition, end_while_body, start_if_condition,
                end_if_body1, check_if_body2, end_if_body2, tree
  <2>2. CASE EnterAnonymous
    <3>1. PICK p : scopes' = With([scopes EXCEPT ![current_node].name_no =
                                     scopes[current_node].name_no + 1], p)
      BY <2>2 DEF EnterAnonymous
    <3>2. \A q, n : Stores(scopes, With([scopes EXCEPT ![q].name_no = n], p), insert_block, current_node)
      BY <1>2, StoresGrown, Zenon
    <3> QED BY <3>1, <3>2 DEF StoresHere
  <2>3. CASE \E q : scopes' = [scopes EXCEPT ![q].has_return = TRUE]
    <3>1. PICK q : scopes' = [scopes EXCEPT ![q].has_return = TRUE]
      BY <2>3
    <3>2. Stores(scopes, [scopes EXCEPT ![q].has_return = TRUE], insert_block, current_node)
      BY <1>9
    <3> QED BY <3>1, <3>2 DEF StoresHere
  <2> QED BY <1>1, <2>1, <2>2, <2>3
<1>8. CASE Reduce(t)
  <2>1. \/ skip(t) \/ Header(t) \/ Body(t) \/ Variable(t) \/ Branching(t) \/ Expression(t)
    BY <1>8 DEF Reduce
  <2> QED BY <1>3, <1>4, <1>5, <1>6, <1>7, <2>1, ExpressionStores, BodyStores DEF Body
<1> QED BY <1>3, <1>8 DEF process_token

-----------------------------------------------------------------------------
(* Where a step goes in the tree. *)

Stays == current_node' = current_node /\ definitions' = definitions
Enters ==
  /\ \E x \in NodeName : current_node' = Append(current_node, x)
  /\ current_node' \notin DOMAIN scopes /\ definitions' = definitions
GoesBack ==
  current_node' = Pop(current_node, 1) /\ definitions' = definitions /\ func_param' = func_param
Begins == ~Inside /\ current_node' = FunctionScope /\ definitions' = definitions
Finishes ==
  /\ Len(current_node) = 1 /\ current_node' = Root
  /\ \E d : definitions' = Append(definitions, d) /\ d.scope = current_node

Goes == Stays \/ Enters \/ GoesBack \/ Begins \/ Finishes

\* An anonymous scope is entered only once.
LEMMA EnterGoes ==
  ASSUME TreeInv, EnterAnonymous, definitions' = definitions
  PROVE  Enters
<1> DEFINE n == scopes[current_node].name_no
<1>1. current_node \in DOMAIN scopes /\ n \in Nat /\ Anon(n) \in NodeName
  BY ChildNames DEF TreeInv, InTree
<1>2. current_node' = Append(current_node, Anon(n))
  BY DEF EnterAnonymous
<1>3. \A k \in Nat : Append(current_node, Anon(k)) \in DOMAIN scopes => k < n
  BY <1>1 DEF TreeInv, InTree, TreeOf
<1>4. Append(current_node, Anon(n)) \notin DOMAIN scopes
  BY <1>1, <1>3
<1> QED BY <1>1, <1>2, <1>4 DEF Enters

\* The function that ends is in the scope of its body.
LEMMA FinishGoes ==
  ASSUME TreeInv, RefInv, NEW t \in Token, function_body_define_finished(t)
  PROVE  Finishes
<1> DEFINE N == Len(Statuses(t))
<1>1. CurrentStatus(t) = 15
  <2>1. CurrentStatus(t) \in Status /\ t.key \in Key
    BY Dispatch, TokenIsSymbol DEF TreeInv
  <2> QED BY <2>1, Registered DEF function_body_define_finished, On, NoEntry
<1>2. /\ N \in 1 .. Len(status_stack) /\ status_stack[N] = 15 /\ Inside
      /\ \A i \in N + 1 .. Len(status_stack) : status_stack[i] = 20
  BY <1>1, BodyNow DEF InBody
<1>3. /\ WellStacked(Len(conds), status_stack, symbol_stack)
      /\ Len(status_stack) \in Nat /\ DOMAIN status_stack = 1 .. Len(status_stack)
  BY Stacks DEF TreeInv
<1> HIDE DEF N
<1>4. N = 2
  BY <1>2, <1>3, BodyIsSecond
<1>5. ScopedIn(status_stack) = {2}
  <2>1. ASSUME NEW i \in DOMAIN status_stack, status_stack[i] \in Scoped PROVE i = 2
    <3>1. i >= 2
      BY <2>1 DEF RefInv, ParserInv, StackInv, BodiesInside, InsideStatus, Scoped
    <3>2. i = 2 \/ i \in N + 1 .. Len(status_stack)
      BY <1>3, <1>4, <3>1
    <3> QED BY <1>2, <2>1, <3>2 DEF Scoped
  <2>2. 2 \in DOMAIN status_stack /\ status_stack[2] \in Scoped
    BY <1>2, <1>3, <1>4 DEF Scoped
  <2> QED BY <2>1, <2>2 DEF ScopedIn
<1>6. Len(current_node) = 1
  <2>1. Len(current_node) = Cardinality(ScopedIn(status_stack))
    BY DEF TreeInv, ScopesMatchStatuses, ScopedIn, Scoped
  <2> QED BY <1>5, <2>1, FS_Singleton
<1>7. current_node' = Root
  <2>1. current_node \in Seq(NodeName)
    BY DEF TreeInv, InTree, TreeOf, Path
  <2>2. current_node' = SubSeq(current_node, 1, Len(current_node) - 1)
    BY DEF function_body_define_finished, leave_scope, Pop
  <2>3. current_node' = SubSeq(current_node, 1, 0)
    BY <1>6, <2>2
  <2> QED BY <2>1, <2>3 DEF Root
<1>8. \E d : definitions' = Append(definitions, d) /\ d.scope = current_node
  <2> DEFINE fn == IF scopes[current_node].function_ptr # 0
                   THEN scopes[current_node].function_ptr ELSE Len(functions) + 1
             ret == IF func_param.return_block = 0 THEN <<>> ELSE <<func_param.return_block>>
             d == [scope |-> current_node, fn |-> fn, blocks |-> func_param.basic_blocks \o ret]
  <2>1. definitions' = Append(definitions, d)
    BY DEF function_body_define_finished
  <2>2. d.scope = current_node
    OBVIOUS
  <2> HIDE DEF d
  <2> QED BY <2>1, <2>2
<1> QED BY <1>6, <1>7, <1>8 DEF Finishes

LEMMA BranchingGoes ==
  ASSUME TreeInv, NEW t \in Token, Branching(t)
  PROVE  Goes
<1>1. definitions' = definitions
  BY DEF Branching, start_while_condition, end_while_body, start_if_condition,
         end_if_body1, check_if_body2, end_if_body2, End, module
<1>2. \/ EnterAnonymous
      \/ current_node' = Pop(current_node, 1) /\ func_param' = func_param
      \/ current_node' = current_node
  BY DEF Branching, start_while_condition, end_while_body, start_if_condition,
         end_if_body1, check_if_body2, end_if_body2, leave_scope, End, tree
<1> QED BY <1>1, <1>2, EnterGoes DEF Goes, Stays, GoesBack

LEMMA ExpressionGoes ==
  ASSUME NEW t \in Token, Expression(t)
  PROVE  Stays
<1>1. CASE \E o : End(o)
  BY <1>1 DEF End, tree, module, Stays
<1>2. CASE enter_parentheses(t) \/ push_operator(t)
  <2>1. (\E o : End(o)) \/ UNCHANGED <<current_node, definitions>>
    BY <1>2 DEF enter_parentheses, push_operator, tree, module
  <2> QED BY <1>1, <2>1 DEF Stays
<1>3. CASE solve_then_push_operator(t)
  <2>1. (\E o : End(o)) \/ UNCHANGED <<current_node, module>>
    BY <1>3, Zenon DEF solve_then_push_operator
  <2> QED BY <1>1, <2>1 DEF Stays, module
<1>4. CASE expression_fails(t) \/ parenthesis_fails(t)
  BY <1>1, <1>4, Zenon DEF expression_fails, LoopFails, parenthesis_fails
<1>5. ASSUME NEW m,
             \/ expression_statement(t, m) \/ return_statement(t, m)
             \/ reduce_condition_calculate(t, m)
             \/ reduce_group(t, m) \/ reduce_operatorbrace(t, m)
      PROVE  Stays
  <2>1. (\E o : End(o)) \/ UNCHANGED <<current_node, module>>
    <3>1. CASE expression_statement(t, m)
      BY <3>1, Zenon DEF expression_statement
    <3>2. CASE return_statement(t, m)
      BY <3>2, Zenon DEF return_statement
    <3>3. CASE reduce_condition_calculate(t, m)
      BY <3>3, Zenon DEF reduce_condition_calculate
    <3>4. CASE reduce_group(t, m)
      BY <3>4, Zenon DEF reduce_group
    <3>5. CASE reduce_operatorbrace(t, m)
      BY <3>5, Zenon DEF reduce_operatorbrace, tree
    <3> QED BY <1>5, <3>1, <3>2, <3>3, <3>4, <3>5
  <2> QED BY <1>1, <2>1 DEF Stays, module
<1> QED BY <1>2, <1>3, <1>4, <1>5 DEF Expression

LEMMA StepGoes ==
  ASSUME TreeInv, RefInv, NEW t \in Token, process_token(t)
  PROVE  Goes
<1>1. CASE \E o : End(o)
  BY <1>1 DEF End, tree, module, Stays, Goes
<1>2. CASE Shift(t) \/ NoRow(t) \/ Ignore(t) \/ skip(t)
  BY <1>1, <1>2 DEF Shift, NoRow, Ignore, skip, vars, tree, module, Stays, Goes
<1>3. CASE Header(t)
  BY <1>1, <1>3 DEF Header, get_function_name, get_argument, wait_function_return_type,
                    get_function_return_type, function_declear, tree, module, Stays, Goes
<1>4. CASE function_body_define_strart(t) \/ has_return_type_function_define(t)
  <2>1. CurrentStatus(t) \in {14, 25}
    <3>1. CurrentStatus(t) \in Status /\ t.key \in Key
      BY Dispatch, TokenIsSymbol DEF TreeInv
    <3> QED BY <1>4, <3>1, Registered
          DEF function_body_define_strart, has_return_type_function_define, On, NoEntry
  <2>2. ~Inside
    BY <2>1, HeaderOutside
  <2>3. (\E o : End(o)) \/ (current_node' = FunctionScope /\ definitions' = definitions)
    BY <1>4 DEF function_body_define_strart, has_return_type_function_define, StartBody
  <2> QED BY <1>1, <2>2, <2>3 DEF Goes, Begins
<1>5. CASE function_body_define_finished(t)
  BY <1>5, FinishGoes DEF Goes
<1>6. CASE Variable(t)
  BY <1>1, <1>6 DEF Variable, define_pointer, define_variable, define_again,
                define_finished, Define, tree, module, Stays, Goes
<1>7. CASE Reduce(t)
  <2>1. \/ skip(t) \/ Header(t) \/ Body(t) \/ Variable(t) \/ Branching(t) \/ Expression(t)
    BY <1>7 DEF Reduce
  <2> QED BY <1>2, <1>3, <1>4, <1>5, <1>6, <2>1, ExpressionGoes, BranchingGoes DEF Body, Goes
<1> QED BY <1>2, <1>7 DEF process_token

-----------------------------------------------------------------------------
(* The statements around a scope. *)

\* How many scopes were open when the entry i was on top.
DepthAt(i) == Depth(SubSeq(status_stack, 1, i))

\* The decided statements whose bodies are in one of k scopes.
LowAt(k) == {i \in DOMAIN status_stack : status_stack[i] \in {19, 24} /\ DepthAt(i) <= k}
Low(k) == {Frame(i) : i \in LowAt(k)}

LowKept(k) == Low(k) \subseteq Low(k)'

\* They stay if the entries above n that are dropped are deeper.
LEMMA LowCut ==
  ASSUME IInv, IInv', NEW n, KeptTo(n), NEW k,
         \A i \in 1 .. n : status_stack[i] \in {19, 24} => Frame(i)' = Frame(i),
         \A i \in n + 1 .. Len(status_stack) : status_stack[i] \in {19, 24} => ~(DepthAt(i) <= k)
  PROVE  LowKept(k)
<1>1. /\ Len(status_stack) \in Nat /\ DOMAIN status_stack = 1 .. Len(status_stack)
      /\ status_stack \in Seq(Status \ {0})
      /\ Len(status_stack') \in Nat /\ DOMAIN status_stack' = 1 .. Len(status_stack')
      /\ status_stack' \in Seq(Status \ {0})
  BY Stacks, StacksNext
<1>2. n \in Nat /\ n <= Len(status_stack) /\ n <= Len(status_stack')
  BY <1>1 DEF KeptTo
<1>3. ASSUME NEW i \in LowAt(k) PROVE i \in LowAt(k)' /\ Frame(i)' = Frame(i)
  <2>1. i \in 1 .. Len(status_stack) /\ status_stack[i] \in {19, 24} /\ DepthAt(i) <= k
    BY <1>1 DEF LowAt
  <2>2. i \in 1 .. n
    BY <1>1, <1>2, <2>1
  <2>3. i \in DOMAIN status_stack' /\ status_stack'[i] = status_stack[i]
    BY <1>1, <1>2, <2>2 DEF KeptTo
  <2>4. SubSeq(status_stack', 1, i) = SubSeq(status_stack, 1, i)
    <3>1. \A j \in 1 .. i : status_stack'[j] = status_stack[j]
      BY <1>2, <2>2 DEF KeptTo
    <3> QED BY <1>1, <1>2, <2>2, <3>1
  <2>5. DepthAt(i)' = DepthAt(i)
    BY <2>4 DEF DepthAt, Depth, ScopedIn
  <2> QED BY <2>1, <2>2, <2>3, <2>5 DEF LowAt
<1> QED BY <1>3 DEF LowKept, Low

\* Nothing happens to what is open.
LEMMA LowCalm ==
  ASSUME IInv, IInv', Calm, CondsKept, NEW k
  PROVE  LowKept(k)
<1>1. PICK n \in Nat : Quiet(n)
  BY DEF Calm
<1>2. KeptTo(n) /\ \A i \in n + 1 .. Len(status_stack) : status_stack[i] \notin {19, 24}
  BY <1>1 DEF Quiet, Loud
<1>3. ASSUME NEW i \in 1 .. n, status_stack[i] \in {19, 24} PROVE Frame(i)' = Frame(i)
  <2>1. i \in 1 .. Len(status_stack)
    BY <1>2, Stacks DEF KeptTo
  <2>2. symbol_stack[i].cond \in 1 .. Len(conds)
    BY <1>3, <2>1, OfCondition
  <2>3. status_stack'[i] = status_stack[i] /\ symbol_stack'[i] = symbol_stack[i]
    BY <1>2 DEF KeptTo
  <2> QED BY <1>3, <2>1, <2>2, <2>3, FrameStays DEF CondsKept
<1> QED BY <1>2, <1>3, LowCut

LEMMA LowStill ==
  ASSUME IInv, IInv', Still, NEW k
  PROVE  LowKept(k)
  BY LowCalm DEF Still

\* Where no statement is open none is lost.
LEMMA LowNone ==
  ASSUME Frames = {}, NEW k
  PROVE  LowKept(k)
  BY DEF LowKept, Low, LowAt, Frames, Waiting

\* The conditions below n stay when others are made or deleted.
LEMMA FramesBelow ==
  ASSUME IInv, NEW n, KeptTo(n), CondsKept
  PROVE  \A i \in 1 .. n : status_stack[i] \in {19, 24} => Frame(i)' = Frame(i)
<1> SUFFICES ASSUME NEW i \in 1 .. n, status_stack[i] \in {19, 24} PROVE Frame(i)' = Frame(i)
  OBVIOUS
<1>1. i \in 1 .. Len(status_stack)
  BY Stacks DEF KeptTo
<1>2. symbol_stack[i].cond \in 1 .. Len(conds)
  BY <1>1, OfCondition
<1>3. status_stack'[i] = status_stack[i] /\ symbol_stack'[i] = symbol_stack[i]
  BY DEF KeptTo
<1> QED BY <1>1, <1>2, <1>3, FrameStays DEF CondsKept

\* The statements that are decided are in open scopes.
LEMMA DecidedAreLow ==
  ASSUME TreeInv
  PROVE  {f \in Frames : f.rest # 0} \subseteq Low(Len(current_node))
<1>1. /\ Len(status_stack) \in Nat /\ DOMAIN status_stack = 1 .. Len(status_stack)
      /\ status_stack \in Seq(Status \ {0})
  BY Stacks DEF TreeInv
<1>2. Len(current_node) = Depth(status_stack)
  BY DEF TreeInv, ScopesMatchStatuses, Depth, ScopedIn, Scoped
<1>3. IsFiniteSet(ScopedIn(status_stack)) /\ Depth(status_stack) \in Nat
  BY <1>1, DepthIsFinite
<1>4. ASSUME NEW i \in 1 .. Len(status_stack) PROVE DepthAt(i) <= Len(current_node)
  <2>1. DOMAIN SubSeq(status_stack, 1, i) \subseteq DOMAIN status_stack
        /\ \A j \in DOMAIN SubSeq(status_stack, 1, i) : SubSeq(status_stack, 1, i)[j] = status_stack[j]
    BY <1>1
  <2>2. ScopedIn(SubSeq(status_stack, 1, i)) \subseteq ScopedIn(status_stack)
    BY <2>1 DEF ScopedIn
  <2> QED BY <1>2, <1>3, <2>2, FS_Subset DEF Depth, DepthAt
<1>5. ASSUME NEW i \in Waiting, Frame(i).rest # 0 PROVE i \in LowAt(Len(current_node))
  <2>1. status_stack[i] # 23
    BY <1>5 DEF Frame
  <2>2. i \in DOMAIN status_stack /\ status_stack[i] \in {19, 24}
    BY <1>5, <2>1 DEF Waiting
  <2> QED BY <1>1, <1>4, <2>2 DEF LowAt
<1> QED BY <1>5 DEF Low, Frames

\* A condition is pushed.
LEMMA LowStart ==
  ASSUME TreeInv, TreeInv', NEW t \in Token, start_while_condition(t) \/ start_if_condition(t), NEW k
  PROVE  LowKept(k)
<1> DEFINE n == Len(Statuses(t))
<1>1. /\ n \in 0 .. n /\ Len(Symbols(t)) = n /\ n \in Nat
      /\ SubSeq(Statuses(t), 1, n) = Statuses(t)
      /\ SubSeq(Symbols(t), 1, Len(Symbols(t))) = Symbols(t)
  BY WholeStacks DEF TreeInv
<1>2. /\ \E s : status_stack' = Append(SubSeq(Statuses(t), 1, n), s)
      /\ \E y : symbol_stack' = Append(Symbols(t), y)
      /\ \E x : conds' = Append(Conds(t), x)
  BY <1>1 DEF start_while_condition, start_if_condition
<1>3. Cuts(t, n)
  <2>1. n \in n .. Len(Symbols(t)) /\ SubSeq(Symbols(t), 1, n) = Symbols(t)
    BY <1>1
  <2> QED BY <1>1, <1>2, <2>1 DEF Cuts
<1>4. KeptTo(n)
  BY <1>2, <1>3, Keeping DEF TreeInv
<1>5. CondsKept
  BY <1>2, KeptConds DEF TreeInv
<1>6. \A i \in 1 .. n : status_stack[i] \in {19, 24} => Frame(i)' = Frame(i)
  BY <1>4, <1>5, FramesBelow DEF TreeInv
<1>7. \A i \in n + 1 .. Len(status_stack) : status_stack[i] = 20
  BY Handed DEF TreeInv
<1> HIDE DEF n
<1> QED BY <1>4, <1>6, <1>7, LowCut DEF TreeInv

LEMMA LowReturn ==
  ASSUME TreeInv, TreeInv', NEW t \in Token, NEW m \in 2 .. Len(symbol_stack), return_statement(t, m),
         NEW k
  PROVE  LowKept(k)
<1> DEFINE ss == status_stack
<1>1. CurrentStatus(t) = 2 /\ LoopStart(symbol_stack, last_priority, m) /\ ss[m - 1] = 16
  <2>1. CurrentStatus(t) = 2 /\ LoopStart(symbol_stack, last_priority, m)
    BY OnStatement DEF TreeInv
  <2>2. ss[m - 1] = 16
    BY DEF return_statement
  <2> QED BY <2>1, <2>2
<1>2. /\ \A i \in m .. Len(ss) : ss[i] \in {2, 7}
      /\ m \in 2 .. Len(ss) /\ Len(ss) \in Nat
      /\ Len(symbol_stack) = Len(ss)
  <2>1. IInv /\ Flat(status_stack)
    BY DEF TreeInv
  <2> QED BY <1>1, <2>1, HushedSuffix, Stacks
<1>3. /\ m - 2 \in 0 .. Len(ss) /\ m - 2 \in m - 2 .. Len(ss)
      /\ \A i \in m - 2 + 1 .. Len(ss) : i = m - 1 \/ i \in m .. Len(ss)
  BY <1>2
<1>4. Hushed(ss, m - 2)
  BY <1>1, <1>2, <1>3 DEF Hushed, Loud
<1>5. CASE \E o : End(o)
  BY <1>5, Ended, LowStill DEF TreeInv
<1>6. CASE ~ \E o : End(o)
  <2>1. /\ symbol_stack' = SubSeq(symbol_stack, 1, m - 2)
        /\ status_stack' = SubSeq(status_stack, 1, m - 2)
        /\ conds' = conds
    BY <1>6 DEF return_statement
  <2>2. Calm
    BY <1>1, <1>3, <1>4, <2>1, CalmExpression DEF TreeInv
  <2>3. CondsKept
    BY <2>1, KeptConds DEF TreeInv
  <2> QED BY <2>2, <2>3, LowCalm DEF TreeInv
<1> QED BY <1>5, <1>6

\* What is decided is told of its block, and no other condition is.
LEMMA LowDecide ==
  ASSUME TreeInv, TreeInv', RefInv, NEW t \in Token, NEW m \in 2 .. Len(symbol_stack),
         reduce_condition_calculate(t, m), NEW s \in {17, 23}, status_stack[m - 1] = s, NEW k
  PROVE  LowKept(k)
<1> SUFFICES ASSUME NEW n, n = m - 2 PROVE LowKept(k)
  OBVIOUS
<1> DEFINE ss == status_stack
<1>1. CurrentStatus(t) = 2 /\ LoopStart(symbol_stack, last_priority, m)
  BY OnStatement DEF TreeInv
<1>2. /\ \A i \in m .. Len(ss) : ss[i] \in {2, 7}
      /\ m \in 2 .. Len(ss) /\ Len(ss) \in Nat /\ DOMAIN ss = 1 .. Len(ss)
      /\ Len(symbol_stack) = Len(ss)
  <2>1. IInv /\ Flat(status_stack)
    BY DEF TreeInv
  <2> QED BY <1>1, <2>1, HushedSuffix, Stacks
<1>3. /\ n \in Nat /\ n + 1 \in 1 .. Len(ss) /\ n + 1 = m - 1 /\ n + 2 = m /\ n \in 0 .. Len(ss)
      /\ n + 1 \in n .. Len(ss)
      /\ \A i \in n + 1 .. Len(ss) : i = n + 1 \/ i \in m .. Len(ss)
      /\ \A i \in 1 .. n : i \in 1 .. Len(ss) /\ i < n + 1 /\ n + 1 \in i + 1 .. Len(ss)
  BY <1>2
<1>4. (\E o : End(o)) \/ Decides(n, s)
  BY <1>2, ReducedDecides DEF TreeInv
<1>5. CASE \E o : End(o)
  BY <1>5, Ended, LowStill DEF TreeInv
<1>6. CASE Decides(n, s)
  <2>1. PICK c : c = symbol_stack[n + 1].cond
    OBVIOUS
  <2>8. \E x : conds' = [conds EXCEPT ![c] = x]
    BY <1>6, <2>1, Zenon DEF Decides
  <2>2. /\ status_stack' = Append(SubSeq(ss, 1, n), IF s = 17 THEN 19 ELSE 24)
        /\ symbol_stack' = SubSeq(symbol_stack, 1, n + 1)
    BY <1>6 DEF Decides
  <2>3. Statuses(t) = ss /\ Symbols(t) = symbol_stack
    <3>1. IInv /\ CurrentStatus(t) \notin {15, 19, 22, 24}
      BY <1>1 DEF TreeInv
    <3> QED BY <3>1, Dispatch, Zenon
  <2>4. KeptTo(n)
    <3>1. Cuts(t, n)
      BY <1>2, <1>3, <2>2, <2>3 DEF Cuts
    <3>2. \E r : status_stack' = Append(SubSeq(Statuses(t), 1, n), r)
      BY <2>2, <2>3
    <3> QED BY <3>1, <3>2, Keeping DEF TreeInv
  <2>5. /\ c \in 1 .. Len(conds)
        /\ \A d \in 1 .. Len(conds) : d # c => conds'[d] = conds[d]
    <3>1. c \in 1 .. Len(conds)
      BY <1>3, <2>1, OfCondition DEF TreeInv
    <3>2. DOMAIN conds = 1 .. Len(conds)
      BY DEF TreeInv, IInv, TypeOfCode
    <3> QED BY <2>8, <3>1, <3>2
  <2>6. ASSUME NEW i \in 1 .. n, ss[i] \in {19, 24} PROVE Frame(i)' = Frame(i)
    <3>1. symbol_stack[i].cond < c
      BY <1>2, <1>3, <2>1, <2>6 DEF RefInv, ParserInv, StackInv, CondsInOrder, Tracked
    <3>2. symbol_stack[i].cond \in 1 .. Len(conds)
      BY <1>3, <2>6, OfCondition DEF TreeInv
    <3>3. symbol_stack[i].cond # c
      BY <2>5, <3>1, <3>2, SmallerIsOther, Zenon
    <3>4. status_stack'[i] = status_stack[i] /\ symbol_stack'[i] = symbol_stack[i]
      BY <2>4 DEF KeptTo
    <3> QED BY <1>3, <2>5, <2>6, <3>2, <3>3, <3>4, FrameStays DEF TreeInv
  <2>7. \A i \in n + 1 .. Len(ss) : ss[i] \notin {19, 24}
    BY <1>2, <1>3
  <2> QED BY <2>4, <2>6, <2>7, LowCut DEF TreeInv
<1> QED BY <1>4, <1>5, <1>6

\* The body that ends is the deepest.
LEMMA LowLeave ==
  ASSUME TreeInv, TreeInv', RefInv, NEW t \in Token, end_while_body(t) \/ end_if_body1(t),
         NEW k \in Nat, k <= Len(current_node')
  PROVE  LowKept(k)
<1> DEFINE ss == status_stack
           N == Len(Statuses(t))
<1>1. CurrentStatus(t) \in {19, 24}
  <2>1. CurrentStatus(t) \in Status /\ t.key \in Key
    BY Dispatch, TokenIsSymbol DEF TreeInv
  <2> QED BY <2>1, Registered DEF end_while_body, end_if_body1, On, NoEntry
<1>2. /\ N \in Nat /\ N >= 2 /\ N \in 1 .. Len(ss) /\ Len(ss) \in Nat
      /\ Len(Symbols(t)) = N
      /\ \A i \in N + 1 .. Len(ss) : ss[i] = 20
  <2>1. CurrentStatus(t) \in InBody
    BY <1>1 DEF InBody
  <2> QED BY <2>1, BodyNow
<1>3. /\ N - 1 \in Nat /\ N - 1 \in 0 .. N /\ N - 1 \in N - 1 .. N /\ N \in N - 1 .. N
      /\ \A i \in N - 1 + 1 .. Len(ss) : i = N \/ i \in N + 1 .. Len(ss)
  BY <1>2
<1>4. SubSeq(Symbols(t), 1, N) = Symbols(t) /\ SubSeq(Statuses(t), 1, N) = Statuses(t)
  BY <1>2, WholeStacks DEF TreeInv
<1>5. Leaves(t)
  BY <1>2, <1>4 DEF end_while_body, end_if_body1, Leaves, Pop
<1>6. CondsKept
  BY KeptConds DEF end_while_body, end_if_body1, TreeInv
<1>7. KeptTo(N - 1)
  <2>1. Cuts(t, N - 1)
    BY <1>2, <1>3, <1>5 DEF Cuts, Leaves
  <2>2. \/ status_stack' = SubSeq(Statuses(t), 1, N - 1)
        \/ \E s : status_stack' = Append(SubSeq(Statuses(t), 1, N - 1), s)
    BY <1>5 DEF Leaves
  <2> QED BY <2>1, <2>2, Keeping DEF TreeInv
<1>8. DepthAt(N) = Len(current_node)
  <2>1. SubSeq(ss, 1, N) = Statuses(t)
    <3>1. /\ Statuses(t) \in Seq(Status \ {0}) /\ \A i \in 1 .. N : Statuses(t)[i] = ss[i]
      BY Handed DEF TreeInv
    <3>2. ss \in Seq(Status \ {0})
      BY Stacks DEF TreeInv
    <3> QED BY <1>2, <3>1, <3>2
  <2>2. Depth(Statuses(t)) = Depth(ss)
    BY Start DEF TreeInv
  <2>3. Len(current_node) = Depth(ss)
    BY DEF TreeInv, ScopesMatchStatuses, Depth, ScopedIn, Scoped
  <2> QED BY <2>1, <2>2, <2>3 DEF DepthAt
<1>9. ~(Len(current_node) <= k)
  <2>1. current_node' = Pop(current_node, 1)
    BY DEF end_while_body, end_if_body1, leave_scope
  <2>2. current_node \in Path /\ Len(current_node) >= 2
    <3>1. status_stack[N] \in Tracked \cup {21}
      BY <1>1, <1>2, BodyNow DEF InBody, Tracked
    <3>2. Len(current_node) >= 2
      BY <1>2, <3>1, DeepInside
    <3> QED BY <3>2 DEF TreeInv, InTree, TreeOf
  <2>3. Len(current_node') = Len(current_node) - 1 /\ Len(current_node) \in Nat
    BY <2>1, <2>2, PathPrefixes
  <2> QED BY <2>3
<1>10. \A i \in 1 .. N - 1 : ss[i] \in {19, 24} => Frame(i)' = Frame(i)
  BY <1>6, <1>7, FramesBelow DEF TreeInv
<1>11. \A i \in N - 1 + 1 .. Len(ss) : ss[i] \in {19, 24} => ~(DepthAt(i) <= k)
  BY <1>2, <1>3, <1>8, <1>9
<1> HIDE DEF N
<1> QED BY <1>7, <1>10, <1>11, LowCut DEF TreeInv

\* No statement is open where a function ends.
LEMMA FinishNone ==
  ASSUME TreeInv, RefInv, NEW t \in Token, function_body_define_finished(t)
  PROVE  Frames = {}
<1>1. CurrentStatus(t) = 15
  <2>1. CurrentStatus(t) \in Status /\ t.key \in Key
    BY Dispatch, TokenIsSymbol DEF TreeInv
  <2> QED BY <2>1, Registered DEF function_body_define_finished, On, NoEntry
<1>2. PICK N : N = Len(Statuses(t))
  OBVIOUS
<1>3. /\ N \in 1 .. Len(status_stack) /\ status_stack[N] = 15
      /\ \A i \in N + 1 .. Len(status_stack) : status_stack[i] = 20
  BY <1>1, <1>2, BodyNow DEF InBody
<1>4. /\ WellStacked(Len(conds), status_stack, symbol_stack)
      /\ Len(status_stack) \in Nat /\ DOMAIN status_stack = 1 .. Len(status_stack)
  BY Stacks DEF TreeInv
<1>5. N = 2
  BY <1>3, <1>4, BodyIsSecond
<1>6. ASSUME NEW i \in DOMAIN status_stack, status_stack[i] \in {19, 23, 24} PROVE FALSE
  <2>1. i >= 2
    BY <1>6 DEF RefInv, ParserInv, StackInv, BodiesInside, InsideStatus
  <2>2. i = 2 \/ i \in N + 1 .. Len(status_stack)
    BY <1>4, <1>5, <2>1
  <2> QED BY <1>3, <1>5, <1>6, <2>2
<1> QED BY <1>6 DEF Frames, Waiting

\* What is open around a scope stays open while the scope does.
LEMMA LowStep ==
  ASSUME TreeInv, TreeInv', RefInv, NEW t \in Token, process_token(t),
         NEW k \in Nat, k <= Len(current_node')
  PROVE  LowKept(k)
<1>1. IInv /\ IInv' /\ Flat(status_stack)
  BY DEF TreeInv
<1>2. CASE \E o : End(o)
  BY <1>1, <1>2, Ended, LowStill
<1>3. CASE Shift(t) \/ NoRow(t) \/ Ignore(t) \/ skip(t)
  <2>1. CASE Shift(t)
    BY <1>1, <2>1, StillShift, LowStill
  <2>2. CASE NoRow(t)
    BY <1>2, <2>2 DEF NoRow
  <2>3. CASE Ignore(t) \/ skip(t)
    <3>1. UNCHANGED <<status_stack, symbol_stack, conds, terms, insert_block, func_param, definitions>>
      BY <2>3 DEF Ignore, skip, vars, stacks, module, code
    <3> QED BY <1>1, <3>1, Nothing, LowStill
  <2> QED BY <1>3, <2>1, <2>2, <2>3
<1>4. CASE Header(t)
  BY <1>1, <1>4, StillHeader, LowStill
<1>5. CASE Variable(t)
  BY <1>1, <1>5, StillVariable, LowStill
<1>6. CASE function_body_define_strart(t) \/ has_return_type_function_define(t)
  <2>1. CurrentStatus(t) \in {14, 25}
    <3>1. CurrentStatus(t) \in Status /\ t.key \in Key
      BY Dispatch, TokenIsSymbol DEF TreeInv
    <3> QED BY <1>6, <3>1, Registered
          DEF function_body_define_strart, has_return_type_function_define, On, NoEntry
  <2>2. Frames = {}
    BY <2>1, HeaderOutside, BlocksNow
  <2> QED BY <2>2, LowNone
<1>7. CASE function_body_define_finished(t)
  <2>1. Frames = {}
    BY <1>7, FinishNone
  <2> QED BY <2>1, LowNone
<1>8. CASE Branching(t)
  <2>1. CASE start_while_condition(t) \/ start_if_condition(t)
    BY <2>1, LowStart
  <2>2. CASE end_while_body(t) \/ end_if_body1(t)
    BY <2>2, LowLeave
  <2>3. CASE check_if_body2(t) \/ end_if_body2(t)
    BY <1>1, <2>3, StillElse, LowStill
  <2> QED BY <1>8, <2>1, <2>2, <2>3 DEF Branching
<1>9. CASE Expression(t)
  <2>1. CASE enter_parentheses(t) \/ push_operator(t) \/ solve_then_push_operator(t)
    BY <1>1, <2>1, StillOperator, LowStill
  <2>2. CASE expression_fails(t) \/ parenthesis_fails(t)
    BY <1>2, <2>2, Zenon DEF expression_fails, LoopFails, parenthesis_fails
  <2>3. ASSUME NEW m \in 2 .. Len(symbol_stack),
               \/ expression_statement(t, m) \/ return_statement(t, m)
               \/ reduce_condition_calculate(t, m)
               \/ reduce_group(t, m) \/ reduce_operatorbrace(t, m)
        PROVE  LowKept(k)
    <3>1. CASE expression_statement(t, m)
      BY <1>1, <3>1, StillStatement, LowStill
    <3>2. CASE return_statement(t, m)
      BY <3>2, LowReturn
    <3>3. CASE reduce_condition_calculate(t, m)
      <4>1. CASE status_stack[m - 1] \in {17, 23}
        BY <3>3, <4>1, LowDecide
      <4>2. CASE status_stack[m - 1] \notin {17, 23}
        BY <1>1, <3>3, <4>2, StillCondition, LowStill
      <4> QED BY <4>1, <4>2
    <3>4. CASE reduce_group(t, m) \/ reduce_operatorbrace(t, m)
      BY <1>1, <3>4, StillParenthesis, LowStill
    <3> QED BY <2>3, <3>1, <3>2, <3>3, <3>4
  <2> QED BY <1>9, <2>1, <2>2, <2>3 DEF Expression
<1> QED BY <1>3, <1>4, <1>5, <1>6, <1>7, <1>8, <1>9 DEF process_token, Reduce, Body

-----------------------------------------------------------------------------
(* The scope in which storage was allocated. *)

\* In a body a scope is open.
LEMMA InsideAny ==
  ASSUME TreeInv, Inside
  PROVE  Len(current_node) >= 1 /\ Len(current_node) \in Nat /\ current_node # Root
<1> DEFINE S == ScopedIn(status_stack)
<1>1. status_stack \in Seq(Status \ {0}) /\ DOMAIN status_stack = 1 .. Len(status_stack)
  BY Stacks DEF TreeInv
<1>2. IsFiniteSet(S) /\ Cardinality(S) \in Nat /\ Len(current_node) = Cardinality(S)
  BY <1>1, DepthIsFinite DEF Depth, TreeInv, ScopesMatchStatuses, ScopedIn, Scoped
<1>3. {2} \subseteq S
  BY <1>1 DEF Inside, ScopedIn, Scoped
<1>4. IsFiniteSet({2}) /\ Cardinality({2}) = 1
  BY FS_Singleton
<1>5. Cardinality({2}) <= Cardinality(S)
  BY <1>2, <1>3, FS_Subset
<1> HIDE DEF S
<1>6. Len(current_node) >= 1
  BY <1>2, <1>4, <1>5
<1> QED BY <1>2, <1>6 DEF Root

\* The prefixes of a path.
LEMMA PathPrefix ==
  ASSUME NEW h \in Path, h # Root, NEW p \in Path
  PROVE  /\ Len(h) >= 1 /\ Len(h) \in Nat /\ Len(p) \in Nat
         /\ Len(SubSeq(h, 1, 1)) = 1 /\ SubSeq(Root, 1, 1) = Root
         /\ Len(h) = 1 => SubSeq(h, 1, 1) = h
         /\ IsPrefix(h, p) => /\ p # Root /\ Len(h) <= Len(p) /\ Len(p) >= 1
                              /\ SubSeq(h, 1, 1) = SubSeq(p, 1, 1)
                              /\ Len(p) = Len(h) => p = h
         /\ p # Root => Len(p) >= 1
<1>1. Len(h) >= 1 /\ Len(h) \in Nat /\ Len(p) \in Nat
  BY DEF Path, Root
<1>2. Len(SubSeq(h, 1, 1)) = 1 /\ (Len(h) = 1 => SubSeq(h, 1, 1) = h)
  BY <1>1 DEF Path
<1>3. SubSeq(Root, 1, 1) = Root
  BY DEF Root
<1>4. p # Root => Len(p) >= 1
  BY DEF Path, Root
<1>5. ASSUME IsPrefix(h, p)
      PROVE  /\ p # Root /\ Len(h) <= Len(p) /\ Len(p) >= 1
             /\ SubSeq(h, 1, 1) = SubSeq(p, 1, 1)
             /\ Len(p) = Len(h) => p = h
  <2>1. Len(h) <= Len(p) /\ SubSeq(h, 1, Len(h)) = SubSeq(p, 1, Len(h))
    BY <1>5 DEF IsPrefix
  <2>2. SubSeq(h, 1, Len(h)) = h /\ SubSeq(p, 1, Len(p)) = p
    BY DEF Path
  <2>3. p # Root
    BY <1>1, <2>1 DEF Root
  <2>4. h[1] = p[1]
    BY <1>1, <2>1, <2>2 DEF Path
  <2>5. SubSeq(h, 1, 1) = SubSeq(p, 1, 1)
    BY <1>1, <2>1, <2>4 DEF Path
  <2>6. Len(p) >= 1
    BY <2>3, <1>4
  <2>7. ASSUME Len(p) = Len(h) PROVE p = h
    <3>1. SubSeq(p, 1, Len(h)) = SubSeq(p, 1, Len(p))
      BY Zenon, <2>7
    <3> QED BY ONLY <2>1, <2>2, <3>1
  <2> QED BY ONLY <2>1, <2>3, <2>5, <2>6, <2>7
<1> QED BY <1>1, <1>2, <1>3, <1>4, <1>5

\* Storage was allocated when h was the current scope, in the function with the entry e and
\* the statements F: they are open while h is, in the first body of its function.
Linked(h, F, e) ==
  /\ h # Root
  /\ IsPrefix(h, current_node) /\ ~Redefining =>
       func_param.basic_blocks[1] = e /\ F \subseteq Low(Len(h))
  /\ \/ SubSeq(h, 1, 1) = SubSeq(current_node, 1, 1)
     \/ \E i \in DOMAIN definitions : definitions[i].scope = SubSeq(h, 1, 1)

\* The current scope is left for its parent or for a new child.
LEMMA PrefixStays ==
  ASSUME TreeInv, TreeInv', Stays \/ Enters \/ GoesBack,
         NEW h \in DOMAIN scopes, h # Root, IsPrefix(h, current_node')
  PROVE  /\ IsPrefix(h, current_node) /\ current_node # Root
         /\ SubSeq(current_node', 1, 1) = SubSeq(current_node, 1, 1)
<1>1. h \in Path /\ current_node \in Path /\ current_node' \in Path
  BY DEF TreeInv, InTree, TreeOf
<1>2. /\ Len(h) >= 1 /\ Len(h) \in Nat /\ Len(current_node) \in Nat /\ Len(current_node') \in Nat
      /\ current_node' # Root /\ Len(h) <= Len(current_node') /\ Len(current_node') >= 1
      /\ SubSeq(h, 1, 1) = SubSeq(current_node', 1, 1)
      /\ Len(current_node') = Len(h) => current_node' = h
  BY <1>1, PathPrefix
<1> SUFFICES IsPrefix(h, current_node)
  BY <1>1, <1>2, PathPrefix
<1>3. CASE Stays
  BY <1>3 DEF Stays
<1>4. CASE Enters
  <2>1. PICK x \in NodeName : current_node' = Append(current_node, x)
    BY <1>4 DEF Enters
  <2>2. /\ Len(current_node') = Len(current_node) + 1
        /\ \A n \in 0 .. Len(current_node) : SubSeq(current_node', 1, n) = SubSeq(current_node, 1, n)
    BY <1>1, <2>1, PathPrefixes
  <2>3. h # current_node'
    BY <1>4 DEF Enters
  <2>4. Len(h) \in 0 .. Len(current_node)
    BY <1>2, <2>2, <2>3
  <2> QED BY <2>2, <2>4 DEF IsPrefix
<1>5. CASE GoesBack
  <2>1. Len(current_node) >= 1
    <3>1. Len(current_node) = 0 => current_node' = Root
      <4>1. current_node' = SubSeq(current_node, 1, Len(current_node) - 1)
        BY <1>5 DEF GoesBack, Pop
      <4> QED BY <1>1, <4>1 DEF Path, Root
    <3> QED BY <1>2, <3>1
  <2>2. /\ Len(current_node') = Len(current_node) - 1
        /\ \A n \in 0 .. Len(current_node) - 1 : SubSeq(current_node', 1, n) = SubSeq(current_node, 1, n)
    BY <1>1, <1>5, <2>1, PathPrefixes DEF GoesBack
  <2>3. Len(h) \in 0 .. Len(current_node) - 1 /\ Len(h) <= Len(current_node)
    BY <1>2, <2>2
  <2> QED BY <2>2, <2>3 DEF IsPrefix
<1> QED BY <1>3, <1>4, <1>5

\* What a step does to the scopes that are open and to the statements around them.
LEMMA NextGoes ==
  ASSUME TreeInv, TreeInv', RefInv, [Next]_vars
  PROVE  Goes /\ \A k \in Nat : k <= Len(current_node') => LowKept(k)
<1>1. CASE UNCHANGED vars
  <2>1. Stays /\ Goes
    BY <1>1 DEF vars, tree, module, Stays, Goes
  <2>2. Still
    BY <1>1, Nothing DEF vars, stacks, tree, module, code, TreeInv
  <2> QED BY <2>1, <2>2, LowStill DEF TreeInv
<1>2. CASE EndOfInput
  <2>1. Stays /\ Goes
    BY <1>2 DEF EndOfInput, End, tree, module, Stays, Goes
  <2>2. Still
    BY <1>2, Nothing DEF EndOfInput, End, stacks, tree, module, code, TreeInv
  <2> QED BY <2>1, <2>2, LowStill DEF TreeInv
<1>3. ASSUME NEW t \in Token, process_token(t)
      PROVE  Goes /\ \A k \in Nat : k <= Len(current_node') => LowKept(k)
  BY <1>3, StepGoes, LowStep
<1> QED BY <1>1, <1>2, <1>3 DEF Next

\* In a function, and in the module, the scopes say which.
OpenIsScoped == (Inside <=> current_node # Root) /\ (Proofs!Open <=> current_node # Root)

LEMMA OpenScope == TreeInv /\ RefInv => OpenIsScoped
  BY InsideAny, Outside, BlocksNow DEF OpenIsScoped

LEMMA OpenScopeNext == TreeInv' /\ RefInv' => OpenIsScoped'
  BY OpenScope, PTL

\* What is defined stays defined.
LEMMA DefinitionsStay ==
  ASSUME TreeInv, RefInv, Goes
  PROVE  \A i \in DOMAIN definitions : i \in DOMAIN definitions' /\ definitions'[i] = definitions[i]
<1>1. CASE definitions' = definitions
  BY <1>1
<1>2. ASSUME NEW d, definitions' = Append(definitions, d)
      PROVE  \A i \in DOMAIN definitions : i \in DOMAIN definitions' /\ definitions'[i] = definitions[i]
  <2>1. definitions \in Seq([scope : Path, fn : Nat, blocks : Seq(Nat)])
    BY DEF RefInv, ParserInv, DefinitionsTyped
  <2> QED BY <1>2, <2>1
<1> QED BY <1>1, <1>2 DEF Goes, Stays, Enters, GoesBack, Begins, Finishes

\* The function an allocation belongs to stays the same while it is open, and is
\* defined when it is not any more.
LEMMA RootStays ==
  ASSUME TreeInv, TreeInv', RefInv, RefInv', Goes, current_node # Root
  PROVE  \/ SubSeq(current_node', 1, 1) = SubSeq(current_node, 1, 1)
         \/ /\ Finishes
            /\ \E i \in DOMAIN definitions' : definitions'[i].scope = SubSeq(current_node, 1, 1)
<1>1. current_node \in Path /\ current_node' \in Path
  BY DEF TreeInv, InTree, TreeOf
<1>2. Inside /\ Len(current_node) >= 1 /\ Len(current_node) \in Nat
  BY OpenScope, InsideAny DEF OpenIsScoped
<1>3. CASE Stays
  BY <1>3 DEF Stays
<1>4. CASE Enters
  <2>1. PICK x \in NodeName : current_node' = Append(current_node, x)
    BY <1>4 DEF Enters
  <2>2. 1 \in 0 .. Len(current_node)
    BY <1>2
  <2> QED BY <1>1, <2>1, <2>2, PathPrefixes
<1>5. CASE GoesBack
  <2>1. func_param' = func_param
    BY <1>5 DEF GoesBack
  <2>2. Proofs!Open'
    BY <1>2, <2>1, BlocksNow DEF Proofs!Open
  <2>3. current_node' # Root
    BY <2>2, OpenScopeNext DEF OpenIsScoped
  <2>4. /\ Len(current_node') = Len(current_node) - 1
        /\ \A n \in 0 .. Len(current_node) - 1 : SubSeq(current_node', 1, n) = SubSeq(current_node, 1, n)
    BY <1>1, <1>2, <1>5, PathPrefixes DEF GoesBack
  <2>5. Len(current_node') >= 1
    BY <1>1, <2>3 DEF Path, Root
  <2>6. 1 \in 0 .. Len(current_node) - 1
    BY <1>2, <2>4, <2>5
  <2> QED BY <2>4, <2>6
<1>6. CASE Begins
  BY <1>2, <1>6 DEF Begins
<1>7. CASE Finishes
  <2>1. PICK d : definitions' = Append(definitions, d) /\ d.scope = current_node
    BY <1>7 DEF Finishes
  <2>2. SubSeq(current_node, 1, 1) = current_node
    BY <1>1, <1>7 DEF Finishes, Path
  <2>3. definitions \in Seq([scope : Path, fn : Nat, blocks : Seq(Nat)])
    BY DEF RefInv, ParserInv, DefinitionsTyped
  <2>4. \E i \in DOMAIN definitions' : definitions'[i] = d
    BY <2>1, <2>3, BlocksOfAppend
  <2> QED BY <1>7, <2>1, <2>2, <2>4
<1> QED BY <1>3, <1>4, <1>5, <1>6, <1>7 DEF Goes

\* While a function stays open its entry is the same.
LEMMA EntryStays ==
  ASSUME RefInv, [Proofs!Next]_(Proofs!vars), Proofs!Open, Proofs!Open'
  PROVE  /\ func_param'.basic_blocks[1] = func_param.basic_blocks[1]
         /\ Proofs!Members(func_param.basic_blocks) \subseteq Proofs!Members(func_param'.basic_blocks)
         /\ Defined' = Defined
<1>1. Proofs!CodeInv
  BY DEF RefInv
<1>2. ~Proofs!Finish
  <2>1. Proofs!Finish => func_param'.basic_blocks = <<>>
    BY <1>1, Proofs!OwnDefined
  <2> QED BY <2>1 DEF Proofs!Open
<1> QED BY <1>1, <1>2, Proofs!OwnKept

LEMMA LinkedStep ==
  ASSUME TreeInv, TreeInv', RefInv, RefInv', [Next]_vars,
         NEW h \in DOMAIN scopes, NEW F, NEW e, Linked(h, F, e)
  PROVE  Linked(h, F, e)'
<1>1. Goes /\ \A k \in Nat : k <= Len(current_node') => LowKept(k)
  BY NextGoes
<1>2. h \in Path /\ current_node \in Path /\ current_node' \in Path /\ h # Root
  BY DEF TreeInv, InTree, TreeOf, Linked
<1>3. Len(h) >= 1 /\ Len(h) \in Nat /\ SubSeq(h, 1, 1) # SubSeq(Root, 1, 1)
  <2>1. /\ Len(h) >= 1 /\ Len(h) \in Nat /\ Len(SubSeq(h, 1, 1)) = 1 /\ SubSeq(Root, 1, 1) = Root
    BY <1>2, PathPrefix
  <2>2. Len(Root) = 0
    BY DEF Root
  <2>3. SubSeq(h, 1, 1) # Root
    BY ONLY <2>1, <2>2
  <2> QED BY <2>1, <2>3
<1>4. [Proofs!Next]_(Proofs!vars)
  BY RefInductive
<1>5. \A i \in DOMAIN definitions : i \in DOMAIN definitions' /\ definitions'[i] = definitions[i]
  BY <1>1, DefinitionsStay
<1>6. \/ SubSeq(h, 1, 1) = SubSeq(current_node', 1, 1)
      \/ \E i \in DOMAIN definitions' : definitions'[i].scope = SubSeq(h, 1, 1)
  <2>1. CASE SubSeq(h, 1, 1) = SubSeq(current_node, 1, 1)
    <3>1. current_node # Root
      BY <1>3, <2>1
    <3> QED BY <1>1, <2>1, <3>1, RootStays
  <2>2. CASE \E i \in DOMAIN definitions : definitions[i].scope = SubSeq(h, 1, 1)
    BY <1>5, <2>2
  <2> QED BY <2>1, <2>2 DEF Linked
<1>7. ASSUME IsPrefix(h, current_node'), ~Redefining'
      PROVE  func_param'.basic_blocks[1] = e /\ F \subseteq Low(Len(h))'
  <2>1. /\ current_node' # Root /\ Len(h) <= Len(current_node') /\ Len(current_node') >= 1
        /\ SubSeq(h, 1, 1) = SubSeq(current_node', 1, 1)
    BY <1>2, <1>7, PathPrefix
  <2>2. \A i \in DOMAIN definitions : definitions[i].scope # SubSeq(h, 1, 1)
    BY <1>5, <1>7, <2>1 DEF Redefining
  <2>3. CASE Stays \/ Enters \/ GoesBack
    <3>1. /\ IsPrefix(h, current_node) /\ current_node # Root
          /\ SubSeq(current_node', 1, 1) = SubSeq(current_node, 1, 1)
      BY <1>2, <1>7, <2>3, PrefixStays
    <3>2. ~Redefining
      BY <2>1, <2>2, <3>1 DEF Redefining
    <3>3. func_param.basic_blocks[1] = e /\ F \subseteq Low(Len(h))
      BY <3>1, <3>2 DEF Linked
    <3>4. Proofs!Open /\ (Proofs!Open)'
      BY <2>1, <3>1, OpenScope, OpenScopeNext DEF OpenIsScoped
    <3>5. func_param'.basic_blocks[1] = e
      BY <1>4, <3>3, <3>4, EntryStays
    <3>6. LowKept(Len(h))
      BY <1>1, <1>3, <2>1
    <3> QED BY <3>3, <3>5, <3>6 DEF LowKept
  <2>4. CASE Begins
    <3>1. current_node = Root
      BY <2>4, OpenScope DEF Begins, OpenIsScoped
    <3> QED BY <1>3, <2>2, <3>1 DEF Linked
  <2>5. CASE Finishes
    BY <2>1, <2>5 DEF Finishes
  <2> QED BY <1>1, <2>3, <2>4, <2>5 DEF Goes
<1> QED BY <1>2, <1>6, <1>7 DEF Linked

-----------------------------------------------------------------------------
(* Storage and its uses. *)

\* Storage that was allocated in block v when h was the current scope.
Kept(v, h) == \E W, F, e : Proofs!Reserves(W, v, F, e) /\ Linked(h, F, e)

\* Block b comes after block v on every path.
Covered(v, b) == \E W, F, e : Proofs!Reserves(W, v, F, e) /\ b \in W

\* Block b is in a second body for a name and arity.
InSecond(b) ==
  \/ \E i \in DOMAIN definitions \ FirstDefinitions : b \in SeqRange(definitions[i].blocks)
  \/ Redefining /\ b \in Proofs!Members(func_param.basic_blocks)

StorageKept ==
  \A p \in DOMAIN scopes : scopes[p].address > 0 =>
    scopes[p].home \in DOMAIN scopes /\ Kept(scopes[p].address, scopes[p].home)
UsesCovered == \A u \in Local : u.within => Covered(u.of, u.at) \/ InSecond(u.at)

DomInv == Proofs!BranchesLead /\ StorageKept /\ UsesCovered

LEMMA KeptStep ==
  ASSUME TreeInv, TreeInv', RefInv, RefInv', [Next]_vars, Proofs!BranchesLead,
         NEW v, NEW h \in DOMAIN scopes, Kept(v, h)
  PROVE  Kept(v, h)'
<1>1. PICK W, F, e : Proofs!Reserves(W, v, F, e) /\ Linked(h, F, e)
  BY DEF Kept
<1>2. Linked(h, F, e)'
  BY <1>1, LinkedStep
<1>3. [Proofs!Next]_(Proofs!vars) /\ Proofs!CodeInv
  BY RefInductive DEF RefInv
<1>4. Proofs!Reserved(W, v, F, e)
  BY <1>1, <1>3, Proofs!StepReserves
<1>5. PICK V : Proofs!Reserves(V, v, F, e)'
  BY <1>4 DEF Proofs!Reserved
<1> QED BY <1>2, <1>5 DEF Kept

LEMMA CoveredStep ==
  ASSUME TreeInv, TreeInv', RefInv, RefInv', [Next]_vars, Proofs!BranchesLead,
         NEW v, NEW b, Covered(v, b)
  PROVE  Covered(v, b)'
<1>1. PICK W, F, e : Proofs!Reserves(W, v, F, e) /\ b \in W
  BY DEF Covered
<1>2. [Proofs!Next]_(Proofs!vars) /\ Proofs!CodeInv
  BY RefInductive DEF RefInv
<1>3. Proofs!Reserved(W, v, F, e)
  BY <1>1, <1>2, Proofs!StepReserves
<1>4. PICK V : W \subseteq V /\ Proofs!Reserves(V, v, F, e)'
  BY <1>3 DEF Proofs!Reserved
<1> QED BY <1>1, <1>4 DEF Covered

\* Storage that is allocated now.
LEMMA NewKept ==
  ASSUME TreeInv, RefInv, current_node # Root
  PROVE  Kept(insert_block, current_node)
<1>1. Proofs!Open /\ Proofs!CodeInv
  BY OpenScope DEF OpenIsScoped, RefInv
<1>2. PICK W, F, e : /\ Proofs!Reserves(W, insert_block, F, e)
                     /\ F = {f \in Frames : f.rest # 0} /\ e = func_param.basic_blocks[1]
  BY <1>1, Proofs!NewStorage
<1>3. F \subseteq Low(Len(current_node))
  BY <1>2, DecidedAreLow
<1>4. Linked(current_node, F, e)
  BY <1>2, <1>3 DEF Linked
<1> QED BY <1>2, <1>4 DEF Kept

\* The storage of the arguments.
LEMMA FirstKept ==
  ASSUME TreeInv, TreeInv', RefInv, RefInv', [Next]_vars, ~Inside, func_param'.basic_blocks # <<>>
  PROVE  Kept(insert_block, current_node)'
<1>1. ~Proofs!Open /\ (Proofs!Open)' /\ Proofs!CodeInv
  BY OpenScope DEF OpenIsScoped, RefInv, Proofs!Open
<1>2. [Proofs!Next]_(Proofs!vars)
  BY RefInductive
<1>3. Proofs!Begin
  BY <1>1, <1>2, Proofs!OnlyBegin
<1>4. PICK W, v : /\ Proofs!Reserves(W, v, {}, v)'
                  /\ v = insert_block' /\ v = func_param'.basic_blocks[1]
  BY <1>1, <1>3, Proofs!FirstStorage
<1>5. current_node' # Root
  BY <1>1, OpenScopeNext DEF OpenIsScoped
<1>6. Linked(current_node, {}, v)'
  BY <1>4, <1>5 DEF Linked
<1>7. Proofs!Reserves(W, insert_block, {}, v)'
  BY <1>4
<1> QED BY <1>6, <1>7 DEF Kept

LEMMA AnyStepStores ==
  ASSUME TreeInv, [Next]_vars
  PROVE  StoresHere \/ StoresThere
<1>1. CASE EndOfInput
  BY <1>1, StoresNothing DEF EndOfInput, End, tree, StoresHere
<1>2. CASE UNCHANGED vars
  BY <1>2, StoresNothing DEF vars, tree, StoresHere
<1> QED BY <1>1, <1>2, StepStores DEF Next

LEMMA StorageStep ==
  ASSUME TreeInv, TreeInv', RefInv, RefInv', [Next]_vars, Proofs!BranchesLead, StorageKept
  PROVE  StorageKept'
<1> SUFFICES ASSUME NEW p \in DOMAIN scopes', scopes'[p].address > 0
             PROVE  scopes'[p].home \in DOMAIN scopes' /\ Kept(scopes[p].address, scopes[p].home)'
  BY DEF StorageKept
<1> PICK v : v = scopes'[p].address
  OBVIOUS
<1> PICK h : h = scopes'[p].home
  OBVIOUS
<1>1. DOMAIN scopes \subseteq DOMAIN scopes' /\ (StoresHere \/ StoresThere)
  BY AnyStepStores DEF StoresHere, StoresThere, Stores
<1>2. CASE p \in DOMAIN scopes /\ v = scopes[p].address /\ h = scopes[p].home
  <2>1. h \in DOMAIN scopes /\ Kept(v, h)
    BY <1>2 DEF StorageKept
  <2>2. Kept(v, h)'
    BY <2>1, KeptStep
  <2> QED BY <1>1, <2>1, <2>2
<1>3. CASE StoresHere /\ v = insert_block /\ h = current_node /\ h # Root
  <2>1. h \in DOMAIN scopes
    BY <1>3 DEF TreeInv, InTree
  <2>2. Kept(v, h)
    BY <1>3, NewKept
  <2>3. Kept(v, h)'
    BY <2>1, <2>2, KeptStep
  <2> QED BY <1>1, <2>1, <2>3
<1>4. CASE StoresThere /\ v = insert_block' /\ h = current_node'
  <2>1. Kept(insert_block, current_node)'
    BY <1>4, FirstKept DEF StoresThere
  <2>2. current_node' \in DOMAIN scopes'
    BY DEF TreeInv, InTree
  <2> QED BY <1>4, <2>1, <2>2
<1> QED BY <1>1, <1>2, <1>3, <1>4 DEF StoresHere, StoresThere, Stores

\* A second body goes on, or has ended as the second.
LEMMA InSecondStep ==
  ASSUME TreeInv, TreeInv', RefInv, RefInv', [Next]_vars, NEW b, InSecond(b)
  PROVE  InSecond(b)'
<1>1. Goes /\ [Proofs!Next]_(Proofs!vars) /\ Proofs!CodeInv
  BY NextGoes, RefInductive DEF RefInv
<1>2. \A i \in DOMAIN definitions : i \in DOMAIN definitions' /\ definitions'[i] = definitions[i]
  BY <1>1, DefinitionsStay
<1>3. /\ definitions \in Seq([scope : Path, fn : Nat, blocks : Seq(Nat)])
      /\ definitions' \in Seq([scope : Path, fn : Nat, blocks : Seq(Nat)])
  BY DEF RefInv, ParserInv, DefinitionsTyped
<1>4. CASE \E i \in DOMAIN definitions \ FirstDefinitions : b \in SeqRange(definitions[i].blocks)
  <2>1. PICK i \in DOMAIN definitions \ FirstDefinitions : b \in SeqRange(definitions[i].blocks)
    BY <1>4
  <2>2. PICK j \in 1 .. i - 1 : definitions[j].scope = definitions[i].scope
    BY <2>1 DEF FirstDefinitions
  <2>3. j \in DOMAIN definitions
    BY <1>3, <2>1, <2>2
  <2>4. /\ i \in DOMAIN definitions' /\ definitions'[i] = definitions[i]
        /\ definitions'[j] = definitions[j]
    BY <1>2, <2>1, <2>3
  <2>5. i \notin FirstDefinitions'
    BY <2>2, <2>4 DEF FirstDefinitions
  <2> QED BY <2>1, <2>4, <2>5 DEF InSecond, SeqRange
<1>5. CASE Redefining /\ b \in Proofs!Members(func_param.basic_blocks)
  <2>1. current_node # Root /\ Proofs!Open
    BY <1>5, OpenScope DEF Redefining, OpenIsScoped
  <2>2. PICK j \in DOMAIN definitions : definitions[j].scope = SubSeq(current_node, 1, 1)
    BY <1>5 DEF Redefining
  <2>3. j \in DOMAIN definitions' /\ definitions'[j] = definitions[j]
    BY <1>2
  <2>4. CASE SubSeq(current_node', 1, 1) = SubSeq(current_node, 1, 1)
    <3>1. current_node' # Root
      <4>1. /\ current_node \in Path /\ current_node' \in Path
            /\ Len(SubSeq(current_node, 1, 1)) = 1 /\ SubSeq(Root, 1, 1) = Root
        BY <2>1, PathPrefix DEF TreeInv, InTree, TreeOf
      <4>2. Len(Root) = 0
        BY DEF Root
      <4>3. SubSeq(current_node, 1, 1) # Root
        BY ONLY <4>1, <4>2
      <4> QED BY <2>4, <4>1, <4>3
    <3>2. Redefining'
      BY <2>2, <2>3, <2>4, <3>1 DEF Redefining
    <3>3. b \in Proofs!Members(func_param'.basic_blocks)
      BY <1>1, <1>5, <2>1, <3>1, EntryStays, OpenScopeNext DEF OpenIsScoped
    <3> QED BY <3>2, <3>3 DEF InSecond, Proofs!Members
  <2>5. CASE Finishes
    <3> DEFINE n == Len(definitions) + 1
    <3>1. PICK d : definitions' = Append(definitions, d) /\ d.scope = current_node
      BY <2>5 DEF Finishes
    <3>2. /\ n \in DOMAIN definitions' /\ definitions'[n] = d /\ j \in 1 .. n - 1
          /\ Len(definitions) \in Nat
      BY <1>3, <2>2, <3>1
    <3>3. SubSeq(current_node, 1, 1) = current_node
      BY <2>5 DEF Finishes, TreeInv, InTree, TreeOf, Path
    <3>4. n \notin FirstDefinitions'
      BY <2>2, <2>3, <3>1, <3>2, <3>3 DEF FirstDefinitions
    <3>5. Proofs!Finish
      <4>1. current_node' = Root
        BY <2>5 DEF Finishes
      <4>2. ~(Proofs!Open)'
        BY <4>1, OpenScopeNext DEF OpenIsScoped
      <4>3. func_param'.basic_blocks = <<>>
        BY <4>2 DEF Proofs!Open
      <4> QED BY <1>1, <2>1, <4>3, Proofs!OwnKept
    <3>6. b \in Proofs!Members(Defined'[Len(Defined) + 1])
      BY <1>1, <1>5, <3>5, Proofs!OwnDefined
    <3>7. Len(Defined) = Len(definitions)
      BY <1>3 DEF Defined
    <3>8. Defined'[n] = definitions'[n].blocks
      BY <3>2 DEF Defined
    <3>9. b \in SeqRange(definitions'[n].blocks)
      BY <3>6, <3>7, <3>8 DEF Proofs!Members, SeqRange
    <3> QED BY <3>2, <3>4, <3>9 DEF InSecond, SeqRange
  <2> QED BY <1>1, <2>1, <2>4, <2>5, RootStays
<1> QED BY <1>4, <1>5 DEF InSecond

\* What is used now is used after its allocation.
LEMMA NewCovered ==
  ASSUME TreeInv, RefInv, StorageKept, NEW u, NewUse(u), u.of > 0, u.within
  PROVE  Covered(u.of, u.at) \/ InSecond(u.at)
<1>1. u.at = insert_block
  BY DEF NewUse
<1>2. CASE u.of = insert_block /\ current_node # Root
  <2>1. Proofs!Open /\ Proofs!CodeInv
    BY <1>2, OpenScope DEF OpenIsScoped, RefInv
  <2>2. PICK W, F, e : Proofs!Reserves(W, insert_block, F, e)
    BY <2>1, Proofs!NewStorage
  <2>3. insert_block \in W
    BY <2>2 DEF Proofs!Reserves, Proofs!Guards
  <2> QED BY <1>1, <1>2, <2>2, <2>3 DEF Covered
<1>3. ASSUME NEW x, Found(x).address = u.of, u.within = IsPrefix(Found(x).home, current_node)
      PROVE  Covered(u.of, u.at) \/ InSecond(u.at)
  <2>1. Lookup(x) \in DOMAIN scopes
    BY LookupFinds
  <2> PICK h : h = Found(x).home
    OBVIOUS
  <2>2. IsPrefix(h, current_node)
    BY <1>3
  <2>3. h \in DOMAIN scopes /\ Kept(u.of, h)
    BY <1>3, <2>1 DEF StorageKept, Found
  <2>4. PICK W, F, e : Proofs!Reserves(W, u.of, F, e) /\ Linked(h, F, e)
    BY <2>3 DEF Kept
  <2>5. current_node # Root
    <3>1. h \in Path /\ current_node \in Path /\ h # Root
      BY <2>3, <2>4 DEF TreeInv, InTree, TreeOf, Linked
    <3> QED BY <2>2, <3>1, PathPrefix
  <2>6. Proofs!Open /\ Proofs!CodeInv
    BY <2>5, OpenScope DEF OpenIsScoped, RefInv
  <2>7. CASE Redefining
    <3>1. insert_block \in Proofs!Members(func_param.basic_blocks)
      BY <2>6 DEF Proofs!CodeInv, Proofs!FunctionIsOpen
    <3> QED BY <1>1, <2>7, <3>1 DEF InSecond
  <2>8. CASE ~Redefining
    <3>1. func_param.basic_blocks[1] = e /\ F \subseteq Low(Len(h))
      BY <2>2, <2>4, <2>8 DEF Linked
    <3>2. Low(Len(h)) \subseteq Frames
      BY DEF Low, LowAt, Frames, Waiting
    <3>3. Proofs!Within(F, e)
      BY <2>6, <3>1, <3>2 DEF Proofs!Within
    <3>4. insert_block \in W
      BY <2>4, <3>3 DEF Proofs!Reserves
    <3> QED BY <1>1, <2>4, <3>4 DEF Covered
  <2> QED BY <2>7, <2>8
<1> QED BY <1>2, <1>3 DEF NewUse

LEMMA UsesStepCovered ==
  ASSUME TreeInv, TreeInv', RefInv, RefInv', [Next]_vars, DomInv
  PROVE  UsesCovered'
<1> SUFFICES ASSUME NEW u \in uses', u.of > 0, u.within PROVE Covered(u.of, u.at)' \/ InSecond(u.at)'
  BY DEF UsesCovered, Local
<1>1. Covered(u.of, u.at) \/ InSecond(u.at)
  <2>1. CASE u \in uses
    BY <2>1 DEF DomInv, UsesCovered, Local
  <2>2. CASE u \notin uses
    BY <2>2, AnyStepUses, NewCovered DEF UsesStep, DomInv
  <2> QED BY <2>1, <2>2
<1>2. Covered(u.of, u.at) => Covered(u.of, u.at)'
  BY CoveredStep DEF DomInv
<1>3. InSecond(u.at) => InSecond(u.at)'
  BY InSecondStep
<1> QED BY <1>1, <1>2, <1>3

LEMMA DomInductive ==
  TreeInv /\ TreeInv' /\ RefInv /\ RefInv' /\ DomInv /\ [Next]_vars => DomInv'
<1> SUFFICES ASSUME TreeInv, TreeInv', RefInv, RefInv', DomInv, [Next]_vars PROVE DomInv'
  OBVIOUS
<1>1. (Proofs!BranchesLead)'
  <2>1. Proofs!CodeInv /\ [Proofs!Next]_(Proofs!vars)
    BY RefInductive DEF RefInv
  <2> QED BY <2>1, Proofs!LeadStep DEF DomInv
<1>2. StorageKept'
  BY StorageStep DEF DomInv
<1>3. UsesCovered'
  BY UsesStepCovered
<1> QED BY <1>1, <1>2, <1>3 DEF DomInv

LEMMA DomInitially == Init => DomInv
<1> SUFFICES ASSUME Init PROVE DomInv
  OBVIOUS
<1>1. Proofs!BranchesLead
  BY RefInitially, Proofs!LeadInitially
<1>2. StorageKept
  <2>1. \A p \in DOMAIN scopes : scopes[p] = [Fresh EXCEPT !.is_type = (p # Root)]
    BY DEF Init
  <2>2. \A b : [Fresh EXCEPT !.is_type = b].address = NoStorage
    BY DEF Fresh
  <2>3. \A p \in DOMAIN scopes : scopes[p].address = 0
    BY <2>1, <2>2 DEF NoStorage
  <2> QED BY <2>3 DEF StorageKept
<1>3. UsesCovered
  BY DEF Init, UsesCovered, Local
<1> QED BY <1>1, <1>2, <1>3 DEF DomInv

\* The blocks that come next, other than v.
Onward(B, v) == B \cup ((UNION {UNION SeqRange(terms[b]) : b \in B}) \ {v})
Steps(f, m, d, v) ==
  f = [n \in 0 .. m |-> IF n = 0 THEN {d.blocks[1]} \ {v} ELSE Onward(f[n - 1], v)]

LEMMA AvoidingInSteps ==
  \A d, v : Avoiding(d, v) = (CHOOSE f : Steps(f, Len(d.blocks), d, v))[Len(d.blocks)]
  BY DEF Avoiding, Steps, Onward

LEMMA StepsExist ==
  ASSUME NEW d, NEW v, NEW m \in Nat
  PROVE  \E f : Steps(f, m, d, v)
<1> DEFINE T == {n \in Nat : ~ \E f : Steps(f, n, d, v)}
<1> SUFFICES ASSUME T # {} PROVE FALSE
  OBVIOUS
<1>1. T \in SUBSET Nat
  OBVIOUS
<1>2. PICK x \in T : \A y \in T : x <= y
  BY <1>1, Lowest
<1>3. CASE x = 0
  <2> DEFINE g == [n \in 0 .. 0 |-> {d.blocks[1]} \ {v}]
  <2>1. \A n \in 0 .. 0 : n = 0
    OBVIOUS
  <2>2. Steps(g, 0, d, v)
    BY <2>1 DEF Steps
  <2> QED BY <1>2, <1>3, <2>2
<1>4. CASE x # 0
  <2>1. x - 1 \in Nat /\ x - 1 \notin T /\ x \in Nat
    BY <1>2, <1>4
  <2>2. PICK f : Steps(f, x - 1, d, v)
    BY <2>1
  <2> DEFINE g == [n \in 0 .. x |-> IF n = 0 THEN {d.blocks[1]} \ {v} ELSE Onward(f[n - 1], v)]
  <2>3. ASSUME NEW n \in 0 .. x - 1 PROVE g[n] = f[n]
    <3>1. f[n] = IF n = 0 THEN {d.blocks[1]} \ {v} ELSE Onward(f[n - 1], v)
      BY <2>2 DEF Steps
    <3>2. n \in 0 .. x
      BY <2>1
    <3> QED BY <3>1, <3>2
  <2>4. \A n \in 0 .. x : n # 0 => n - 1 \in 0 .. x - 1
    BY <2>1
  <2>5. \A n \in 0 .. x : n # 0 => Onward(f[n - 1], v) = Onward(g[n - 1], v)
    <3> HIDE DEF g
    <3> QED BY <2>3, <2>4
  <2>6. Steps(g, x, d, v)
    BY <2>5 DEF Steps
  <2> QED BY <1>2, <2>6
<1> QED BY <1>3, <1>4

\* Without passing through v nothing is reached that comes after v on every path.
LEMMA CoveredIsNotReached ==
  ASSUME RefInv, Proofs!BranchesLead, NEW v, NEW b, Covered(v, b), NEW i \in DOMAIN definitions,
         definitions[i].blocks # <<>>
  PROVE  b \notin Avoiding(definitions[i], v)
<1> PICK d : d = definitions[i]
  OBVIOUS
<1> DEFINE N == Len(d.blocks)
<1>1. PICK W, F, e : Proofs!Reserves(W, v, F, e) /\ b \in W
  BY DEF Covered
<1>2. /\ \A a \in Proofs!Block \ W : \A c \in Proofs!Targets(terms, a) :
           c \in Proofs!Block /\ (c = v \/ c \notin W)
      /\ \A j \in DOMAIN Defined : Defined[j] # <<>> => Defined[j][1] = v \/ Defined[j][1] \notin W
  BY <1>1, Proofs!NoDetour
<1>3. i \in DOMAIN Defined /\ Defined[i] = d.blocks
  BY DEF Defined
<1>4. d.blocks \in Seq(Proofs!Block) /\ d.blocks # <<>>
  <2>1. Defined \in Seq(Seq(Proofs!Block))
    BY DEF RefInv, Proofs!CodeInv, Proofs!TypeOfBlocks, Proofs!Block
  <2> QED BY <1>3, <2>1
<1>5. N \in Nat /\ d.blocks[1] \in Proofs!Block
  BY <1>4
<1>6. PICK g : Steps(g, N, d, v)
  BY <1>5, StepsExist
<1> DEFINE f == CHOOSE h : Steps(h, N, d, v)
<1>7. Steps(f, N, d, v)
  BY <1>6
<1>8. Avoiding(d, v) = f[N]
  BY AvoidingInSteps
<1> HIDE DEF f, N
<1> DEFINE Clear(B) == B \subseteq Proofs!Block \ W
           T == {n \in 0 .. N : ~Clear(f[n])}
<1>9. ASSUME NEW B, Clear(B) PROVE Clear(Onward(B, v))
  <2> SUFFICES ASSUME NEW c \in Onward(B, v) PROVE c \in Proofs!Block \ W
    OBVIOUS
  <2>1. CASE c \in B
    BY <1>9, <2>1
  <2>2. CASE c \notin B
    <3>1. c # v /\ \E a \in B : c \in UNION SeqRange(terms[a])
      BY <2>2 DEF Onward
    <3>2. PICK a \in B : c \in UNION SeqRange(terms[a])
      BY <3>1
    <3>3. c \in Proofs!Targets(terms, a) /\ a \in Proofs!Block \ W
      BY <1>9, <3>2 DEF Proofs!Targets, Proofs!Members, SeqRange
    <3> QED BY <1>2, <3>1, <3>3
  <2> QED BY <2>1, <2>2
<1>10. T = {}
  <2> SUFFICES ASSUME T # {} PROVE FALSE
    OBVIOUS
  <2>1. T \in SUBSET Nat
    BY <1>5
  <2>2. PICK x \in T : \A y \in T : x <= y
    BY <2>1, Lowest
  <2>3. x \in 0 .. N /\ x \in Nat
    BY <1>5, <2>2
  <2>4. f[x] = IF x = 0 THEN {d.blocks[1]} \ {v} ELSE Onward(f[x - 1], v)
    BY <1>7, <2>3 DEF Steps
  <2>5. CASE x = 0
    <3>1. f[x] = {d.blocks[1]} \ {v}
      BY <2>4, <2>5
    <3>2. Clear(f[x])
      BY <1>2, <1>3, <1>4, <1>5, <3>1
    <3> QED BY <2>2, <3>2
  <2>6. CASE x # 0
    <3>1. x - 1 \in 0 .. N /\ x - 1 \notin T
      BY <1>5, <2>2, <2>3, <2>6
    <3>2. Clear(f[x - 1])
      BY <3>1
    <3>3. Clear(Onward(f[x - 1], v))
      BY <1>9, <3>2
    <3>4. f[x] = Onward(f[x - 1], v)
      BY <2>4, <2>6
    <3> QED BY <2>2, <3>3, <3>4
  <2> QED BY <2>5, <2>6
<1>11. N \in 0 .. N
  BY <1>5
<1>12. Clear(f[N])
  BY <1>10, <1>11
<1> QED BY <1>1, <1>8, <1>12

LEMMA DomInvMeans ==
  ASSUME RefInv, DomInv
  PROVE  StorageOfOpenScopeDominates
<1> SUFFICES ASSUME NEW u \in Local, u.within, NEW i \in FirstDefinitions,
                    u.at \in SeqRange(definitions[i].blocks)
             PROVE  u.at \notin Avoiding(definitions[i], u.of)
  BY DEF StorageOfOpenScopeDominates, Dominated
<1>1. i \in DOMAIN definitions /\ definitions[i].blocks # <<>>
  BY DEF FirstDefinitions, SeqRange
<1>2. ~InSecond(u.at)
  <2> SUFFICES ASSUME InSecond(u.at) PROVE FALSE
    OBVIOUS
  <2>1. /\ DOMAIN Defined = DOMAIN definitions
        /\ \A j \in DOMAIN definitions : Proofs!Members(Defined[j]) = SeqRange(definitions[j].blocks)
        /\ Proofs!FunctionsAreDisjoint
    BY WholeFunctions
  <2>2. CASE \E j \in DOMAIN definitions \ FirstDefinitions : u.at \in SeqRange(definitions[j].blocks)
    <3>1. PICK j \in DOMAIN definitions \ FirstDefinitions : u.at \in SeqRange(definitions[j].blocks)
      BY <2>2
    <3>2. Proofs!Members(Defined[i]) \cap Proofs!Members(Defined[j]) = {}
      BY <1>1, <2>1, <3>1 DEF Proofs!FunctionsAreDisjoint
    <3> QED BY <1>1, <2>1, <3>1, <3>2
  <2>3. CASE u.at \in Proofs!Members(func_param.basic_blocks)
    <3>1. Proofs!Members(Defined[i]) \cap Proofs!Members(func_param.basic_blocks) = {}
      BY <1>1, <2>1 DEF Proofs!FunctionsAreDisjoint, Proofs!Mine
    <3> QED BY <1>1, <2>1, <2>3, <3>1
  <2> QED BY <2>2, <2>3 DEF InSecond
<1>3. Covered(u.of, u.at)
  BY <1>2 DEF DomInv, UsesCovered
<1> QED BY <1>1, <1>3, CoveredIsNotReached DEF DomInv

\* A use inside the scope in which its storage was allocated comes after the allocation
\* on every path of its function, in every first definition.
THEOREM OpenStorageDominates == Spec => []StorageOfOpenScopeDominates
<1>1. Init => DomInv
  BY DomInitially
<1>2. TreeInv /\ RefInv /\ (TreeInv /\ RefInv)' /\ DomInv /\ [Next]_vars => DomInv'
  BY DomInductive
<1>3. RefInv /\ DomInv => StorageOfOpenScopeDominates
  BY DomInvMeans
<1> QED BY <1>1, <1>2, <1>3, RefInvariance, PTL DEF Spec
=============================================================================
