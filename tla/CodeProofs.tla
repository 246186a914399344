----------------------------- MODULE CodeProofs -----------------------------
(***************************************************************************)
(* Proofs about structured code: what holds of every program that is built *)
(* by its steps.                                                           *)
(***************************************************************************)
EXTENDS StructuredCode, TLAPS

-----------------------------------------------------------------------------
(* The invariant. *)

Members(s) == {s[i] : i \in DOMAIN s}
Targets(blocks, b) == UNION Members(blocks[b])

\* The blocks of the open function.
Mine == Members(own) \cup (IF ret = 0 THEN {} ELSE {ret})

TypeOfBlocks ==
  /\ terms \in Seq(Seq(SUBSET Nat))
  /\ at \in 0 .. Len(terms) /\ ret \in 0 .. Len(terms)
  /\ own \in Seq(1 .. Len(terms))
  /\ defined \in Seq(Seq(1 .. Len(terms)))

\* Between functions nothing is open; inside one the builder is in one of its
\* blocks, and the return block is none of those that are written.
FunctionIsOpen ==
  /\ ~Open => frames = {} /\ ret = 0
  /\ Open => at \in Members(own)
  /\ ret # 0 => ret \notin Members(own)

\* A block that waits belongs to the function, is empty, is not being written,
\* and waits for one statement only.  A loop knows where it starts, and only a
\* loop can be undecided, one at a time.
FramesWait ==
  /\ \A f \in frames :
       /\ f = Frame(f.head, f.rest)
       /\ f.head \in {0} \cup Members(own) /\ f.rest \in {0} \cup Members(own)
       /\ f.rest = 0 => f.head # 0
       /\ f.rest # 0 => terms[f.rest] = <<>> /\ f.rest # at
  /\ \A f, g \in frames : f.rest = g.rest => f = g

\* Branches stay among the blocks of the open function; only its return block
\* returns; what is empty waits or is being written.
OpenFunction ==
  /\ \A b \in Mine : Targets(terms, b) \subseteq Mine
  /\ \A b \in Mine : {} \in Members(terms[b]) <=> b = ret
  /\ \A b \in Members(own) : terms[b] = <<>> => b = at \/ \E f \in frames : f.rest = b

\* Of a finished function: branches stay in it, at most one block is empty, and none
\* if one returns.
FunctionsAreWhole ==
  \A i \in DOMAIN defined :
    LET B == Members(defined[i])
        unended == {b \in B : terms[b] = <<>>}
    IN  /\ \A b \in B : Targets(terms, b) \subseteq B
        /\ \A b, c \in unended : b = c
        /\ unended # {} => \A b \in B : {} \notin Members(terms[b])

\* No block is in two functions.
FunctionsAreDisjoint ==
  \A i \in DOMAIN defined :
    /\ Members(defined[i]) \cap Mine = {}
    /\ \A j \in DOMAIN defined \ {i} : Members(defined[i]) \cap Members(defined[j]) = {}

CodeInv ==
  /\ TypeOfBlocks /\ FunctionIsOpen /\ FramesWait /\ OpenFunction
  /\ FunctionsAreWhole /\ FunctionsAreDisjoint

-----------------------------------------------------------------------------
(* Sequences of blocks. *)

LEMMA MembersOfAppend ==
  ASSUME NEW S, NEW s \in Seq(S), NEW x
  PROVE  Members(Append(s, x)) = Members(s) \cup {x} /\ Members(s) \subseteq S
<1>1. /\ Len(s) \in Nat /\ DOMAIN s = 1 .. Len(s)
      /\ DOMAIN Append(s, x) = 1 .. Len(s) + 1
      /\ \A i \in 1 .. Len(s) : Append(s, x)[i] = s[i] /\ s[i] \in S
      /\ Append(s, x)[Len(s) + 1] = x
  OBVIOUS
<1>2. Members(s) \subseteq S
  BY <1>1 DEF Members
<1>3. \A y \in Members(Append(s, x)) : y \in Members(s) \cup {x}
  BY <1>1 DEF Members
<1>4. \A y \in Members(s) \cup {x} : y \in Members(Append(s, x))
  BY <1>1 DEF Members
<1> QED BY <1>2, <1>3, <1>4

LEMMA MembersOfPair ==
  ASSUME NEW S, NEW s \in Seq(S), NEW x, NEW y
  PROVE  Members(s \o <<x, y>>) = Members(s) \cup {x, y}
<1>1. s \o <<x, y>> = Append(Append(s, x), y) /\ Append(s, x) \in Seq(S \cup {x})
  OBVIOUS
<1>2. Members(Append(s, x)) = Members(s) \cup {x}
  BY MembersOfAppend
<1>3. Members(Append(Append(s, x), y)) = Members(Append(s, x)) \cup {y}
  BY <1>1, MembersOfAppend
<1> QED BY <1>1, <1>2, <1>3

\* New blocks are put behind the ones there are.
LEMMA OneMore ==
  ASSUME NEW S, NEW s \in Seq(S), NEW x \in S
  PROVE  /\ Append(s, x) \in Seq(S) /\ Len(Append(s, x)) = Len(s) + 1
         /\ Append(s, x) # <<>>
         /\ \A b \in 1 .. Len(s) : Append(s, x)[b] = s[b]
         /\ Append(s, x)[Len(s) + 1] = x
  OBVIOUS

LEMMA TwoMore ==
  ASSUME NEW S, NEW s \in Seq(S), NEW x \in S, NEW y \in S
  PROVE  /\ s \o <<x, y>> \in Seq(S) /\ Len(s \o <<x, y>>) = Len(s) + 2
         /\ \A b \in 1 .. Len(s) : (s \o <<x, y>>)[b] = s[b]
         /\ (s \o <<x, y>>)[Len(s) + 1] = x /\ (s \o <<x, y>>)[Len(s) + 2] = y
  OBVIOUS

\* The block that is written ends with one more terminator.
LEMMA EndingBlocks ==
  ASSUME NEW S, terms \in Seq(Seq(S)), at \in Block, NEW T \in S
  PROVE  /\ Ending(T) \in Seq(Seq(S)) /\ Len(Ending(T)) = Len(terms)
         /\ \A b \in Block : b # at => Ending(T)[b] = terms[b]
         /\ Ending(T)[at] # <<>>
         /\ Members(Ending(T)[at]) = Members(terms[at]) \cup {T}
<1>1. terms[at] \in Seq(S)
  BY DEF Block
<1>2. Append(terms[at], T) \in Seq(S) /\ Append(terms[at], T) # <<>>
  BY <1>1, OneMore
<1>3. /\ Ending(T) \in Seq(Seq(S)) /\ Len(Ending(T)) = Len(terms)
      /\ \A b \in Block : b # at => Ending(T)[b] = terms[b]
      /\ Ending(T)[at] = Append(terms[at], T)
  BY <1>1, <1>2 DEF Ending, Block
<1> QED BY <1>1, <1>2, <1>3, MembersOfAppend

LEMMA WiderSeq ==
  ASSUME NEW S, NEW T, S \subseteq T
  PROVE  Seq(S) \subseteq Seq(T) /\ Seq(Seq(S)) \subseteq Seq(Seq(T))
  OBVIOUS

-----------------------------------------------------------------------------
(* Every step keeps the invariant. *)

\* What is defined stays as it is while the open function is written.
LEMMA DefinedStays ==
  ASSUME CodeInv, defined' = defined, Len(terms) \in Nat,
         \A b \in Block : b \in Members(own) \/ terms'[b] = terms[b],
         \A b \in Mine' : b \in Mine \/ b \notin Block
  PROVE  FunctionsAreWhole' /\ FunctionsAreDisjoint'
<1>1. \A i \in DOMAIN defined : Members(defined[i]) \subseteq Block
  BY SMTT(40) DEF CodeInv, TypeOfBlocks, Members, Block
<1>2. \A i \in DOMAIN defined : \A b \in Members(defined[i]) : terms'[b] = terms[b]
  BY <1>1 DEF CodeInv, FunctionsAreDisjoint, Mine
<1>3. FunctionsAreWhole'
  <2> SUFFICES ASSUME NEW i \in DOMAIN defined
      PROVE  LET B == Members(defined[i])
                 unended == {b \in B : terms'[b] = <<>>}
             IN  /\ \A b \in B : Targets(terms', b) \subseteq B
                 /\ \A b, c \in unended : b = c
                 /\ unended # {} => \A b \in B : {} \notin Members(terms'[b])
    BY DEF FunctionsAreWhole
  <2>1. \A b \in Members(defined[i]) : Targets(terms', b) = Targets(terms, b)
    BY <1>2 DEF Targets
  <2> QED BY <1>2, <2>1 DEF CodeInv, FunctionsAreWhole
<1>4. FunctionsAreDisjoint'
  BY <1>1 DEF CodeInv, FunctionsAreDisjoint
<1> QED BY <1>3, <1>4

\* What the types say of the state.
LEMMA Now ==
  ASSUME CodeInv
  PROVE  /\ Len(terms) \in Nat /\ Block = 1 .. Len(terms) /\ New = Len(terms) + 1
         /\ Members(own) \subseteq Block /\ 0 \notin Block /\ New \notin Block
         /\ Mine \subseteq Block
         /\ Open => at \in Members(own) /\ at \in Block
         /\ DOMAIN terms = Block /\ \A b \in Block : terms[b] \in Seq(SUBSET Nat)
<1>1. Len(terms) \in Nat /\ Block = 1 .. Len(terms) /\ New = Len(terms) + 1
  BY DEF CodeInv, TypeOfBlocks, Block, New
<1>2. Members(own) \subseteq Block
  BY DEF CodeInv, TypeOfBlocks, Members, Block
<1>3. Mine \subseteq Block
  BY <1>1, <1>2 DEF CodeInv, TypeOfBlocks, Mine
<1>4. DOMAIN terms = Block /\ \A b \in Block : terms[b] \in Seq(SUBSET Nat)
  BY <1>1 DEF CodeInv, TypeOfBlocks
<1> QED BY <1>1, <1>2, <1>3, <1>4 DEF CodeInv, FunctionIsOpen

LEMMA TypesWiden ==
  ASSUME CodeInv, Len(terms') \in Nat, Len(terms) <= Len(terms')
  PROVE  /\ defined \in Seq(Seq(1 .. Len(terms')))
         /\ own \in Seq(1 .. Len(terms'))
<1>1. 1 .. Len(terms) \subseteq 1 .. Len(terms')
  BY Now
<1> QED BY <1>1, WiderSeq DEF CodeInv, TypeOfBlocks

LEMMA BeginKeeps ==
  ASSUME CodeInv, Begin
  PROVE  CodeInv'
<1>1. /\ own = <<>> /\ frames = {} /\ ret = 0 /\ Members(own) = {} /\ Mine = {}
      /\ own' = <<New>> /\ frames' = {} /\ ret' = 0 /\ defined' = defined /\ at' = New
  BY DEF CodeInv, FunctionIsOpen, Begin, Open, Members, Mine
<1>2. /\ terms' \in Seq(Seq(SUBSET Nat)) /\ Len(terms') = Len(terms) + 1
      /\ \A b \in Block : terms'[b] = terms[b]
      /\ terms'[New] = <<>>
  <2>1. <<>> \in Seq(SUBSET Nat) /\ terms \in Seq(Seq(SUBSET Nat))
    BY DEF CodeInv, TypeOfBlocks
  <2>2. terms' = Append(terms, <<>>)
    BY DEF Begin
  <2> QED BY <2>1, <2>2, OneMore DEF Block, New
<1>3. Members(own') = {New} /\ own' \in Seq(1 .. Len(terms'))
  BY <1>1, <1>2, Now DEF Members
<1>4. Mine' = {New}
  BY <1>1, <1>3 DEF Mine
<1>5. TypeOfBlocks'
  BY <1>1, <1>2, <1>3, Now, TypesWiden DEF TypeOfBlocks
<1>6. FunctionIsOpen'
  BY <1>1, <1>3 DEF FunctionIsOpen, Open
<1>7. FramesWait'
  BY <1>1 DEF FramesWait
<1>8. OpenFunction'
  <2>1. Members(terms'[New]) = {} /\ New # 0
    BY <1>2, Now DEF Members
  <2> QED BY <1>1, <1>2, <1>3, <1>4, <2>1 DEF OpenFunction, Targets
<1>9. FunctionsAreWhole' /\ FunctionsAreDisjoint'
  BY <1>1, <1>2, <1>4, Now, DefinedStays
<1> QED BY <1>5, <1>6, <1>7, <1>8, <1>9 DEF CodeInv

\* The block that is written ends with a branch to the blocks W, which are new.
BranchesTo(W) ==
  /\ Open /\ ~Ended
  /\ W \in SUBSET Nat /\ New \in W /\ \A b \in W : b \notin Block
  /\ W \subseteq 1 .. Len(terms') /\ Len(terms') \in Nat /\ Len(terms) <= Len(terms')
  /\ terms' \in Seq(Seq(SUBSET Nat))
  /\ \A b \in Block : b # at => terms'[b] = terms[b]
  /\ terms'[at] # <<>> /\ Members(terms'[at]) = Members(terms[at]) \cup {W}
  /\ \A b \in W : terms'[b] = <<>>
  /\ own' \in Seq(1 .. Len(terms')) /\ Members(own') = Members(own) \cup W
  /\ ret' = ret /\ defined' = defined /\ at' = New
  /\ FramesWait'
  /\ \A f \in frames : f.rest # 0 => \E g \in frames' : g.rest = f.rest
  /\ \A b \in W : b = New \/ \E g \in frames' : g.rest = b

LEMMA Branched ==
  ASSUME CodeInv, NEW W, BranchesTo(W)
  PROVE  CodeInv'
<1> USE DEF BranchesTo
<1>1. Mine' = Mine \cup W /\ 0 \notin W /\ ret \notin W
  BY Now DEF Mine, CodeInv, TypeOfBlocks
<1>2. TypeOfBlocks'
  BY SMTT(40), Now, TypesWiden DEF TypeOfBlocks, CodeInv
<1>3. FunctionIsOpen'
  <2>1. own' # <<>>
    BY DEF Members
  <2> QED BY <1>1, <2>1 DEF CodeInv, FunctionIsOpen, Open
<1>4. OpenFunction'
  <2>1. at \in Members(own) /\ at \in Mine /\ at # ret
    BY Now DEF Mine, CodeInv, FunctionIsOpen
  <2>2. \A b \in Mine : b # at => terms'[b] = terms[b]
    BY Now
  <2>3. \A b \in W : Members(terms'[b]) = {}
    BY DEF Members
  <2>4. \A b \in Mine' : Targets(terms', b) \subseteq Mine'
    <3> SUFFICES ASSUME NEW b \in Mine'
        PROVE  Targets(terms', b) \subseteq Mine'
      OBVIOUS
    <3>1. CASE b \in W
      BY <2>3, <3>1 DEF Targets
    <3>2. CASE b \in Mine /\ b # at
      BY <1>1, <2>2, <3>2 DEF Targets, CodeInv, OpenFunction
    <3>3. CASE b = at
      BY <1>1, <2>1, <3>3 DEF Targets, CodeInv, OpenFunction
    <3> QED BY <1>1, <3>1, <3>2, <3>3
  <2>5. \A b \in Mine' : {} \in Members(terms'[b]) <=> b = ret'
    <3> SUFFICES ASSUME NEW b \in Mine'
        PROVE  {} \in Members(terms'[b]) <=> b = ret
      OBVIOUS
    <3>1. CASE b \in W
      BY <1>1, <2>3, <3>1
    <3>2. CASE b \in Mine /\ b # at
      BY <2>2, <3>2 DEF CodeInv, OpenFunction
    <3>3. CASE b = at
      <4>1. {} \notin Members(terms[at])
        BY <2>1 DEF CodeInv, OpenFunction
      <4>2. {} # W
        OBVIOUS
      <4> QED BY <2>1, <3>3, <4>1, <4>2
    <3> QED BY <1>1, <3>1, <3>2, <3>3
  <2>6. \A b \in Members(own') : terms'[b] = <<>> => b = at' \/ \E f \in frames' : f.rest = b
    <3> SUFFICES ASSUME NEW b \in Members(own), terms'[b] = <<>>
        PROVE  \E f \in frames' : f.rest = b
      OBVIOUS
    <3>1. b # at /\ b \in Block /\ terms[b] = <<>> /\ b # 0
      BY Now
    <3> QED BY SMTT(40), <3>1 DEF CodeInv, OpenFunction
  <2> QED BY <2>4, <2>5, <2>6 DEF OpenFunction
<1>5. FunctionsAreWhole' /\ FunctionsAreDisjoint'
  <2>1. \A b \in Mine' : b \in Mine \/ b \notin Block
    BY <1>1
  <2>2. \A b \in Block : b \in Members(own) \/ terms'[b] = terms[b]
    BY Now
  <2> QED BY <2>1, <2>2, Now, DefinedStays
<1> QED BY <1>2, <1>3, <1>4, <1>5 DEF CodeInv

\* A block that is written gets a terminator, and nothing else changes.
LEMMA EndingNow ==
  ASSUME CodeInv, Open, NEW T \in SUBSET Nat
  PROVE  /\ Ending(T) \in Seq(Seq(SUBSET Nat)) /\ Len(Ending(T)) = Len(terms)
         /\ \A b \in Block : b # at => Ending(T)[b] = terms[b]
         /\ Ending(T)[at] # <<>>
         /\ Members(Ending(T)[at]) = Members(terms[at]) \cup {T}
<1>1. terms \in Seq(Seq(SUBSET Nat)) /\ at \in Block
  BY Now DEF CodeInv, TypeOfBlocks
<1> QED BY <1>1, EndingBlocks

LEMMA EmptyBlock == <<>> \in Seq(SUBSET Nat)
  OBVIOUS

LEMMA StartLoopKeeps ==
  ASSUME CodeInv, StartLoop
  PROVE  CodeInv'
<1>1. /\ Open /\ ~Ended /\ ~Deciding
      /\ terms' = Append(Ending({New}), <<>>)
      /\ at' = New /\ own' = Append(own, New)
      /\ frames' = frames \cup {Frame(New, 0)}
      /\ ret' = ret /\ defined' = defined
  BY DEF StartLoop
<1>2. {New} \in SUBSET Nat
  BY Now
<1>3. /\ terms' \in Seq(Seq(SUBSET Nat)) /\ Len(terms') = Len(terms) + 1
      /\ \A b \in Block : terms'[b] = Ending({New})[b]
      /\ terms'[New] = <<>>
  BY <1>1, <1>2, Now, EndingNow, OneMore, EmptyBlock
<1>4. /\ \A b \in Block : b # at => terms'[b] = terms[b]
      /\ terms'[at] # <<>> /\ Members(terms'[at]) = Members(terms[at]) \cup {{New}}
  BY <1>1, <1>2, <1>3, Now, EndingNow
<1>5. own' \in Seq(1 .. Len(terms')) /\ Members(own') = Members(own) \cup {New}
  <2>1. own \in Seq(1 .. Len(terms')) /\ New \in 1 .. Len(terms')
    BY <1>3, Now, TypesWiden
  <2> QED BY <1>1, <2>1, OneMore, MembersOfAppend
<1>6. FramesWait'
  <2>1. \A f \in frames : f.rest # 0 /\ f.rest \in Members(own)
    BY <1>1 DEF Deciding, CodeInv, FramesWait
  <2>2. \A f \in frames : terms'[f.rest] = <<>> /\ f.rest # New
    BY <1>4, <2>1, Now DEF CodeInv, FramesWait
  <2>3. Frame(New, 0).head = New /\ Frame(New, 0).rest = 0 /\ New # 0
    BY Now DEF Frame
  <2> QED BY <1>1, <1>5, <2>1, <2>2, <2>3 DEF CodeInv, FramesWait
<1>7. \A f \in frames : f.rest # 0 => \E g \in frames' : g.rest = f.rest
  BY <1>1
<1>8. {New} \subseteq 1 .. Len(terms') /\ Len(terms') \in Nat /\ Len(terms) <= Len(terms')
  BY <1>3, Now
<1>9. BranchesTo({New})
  BY <1>1, <1>2, <1>3, <1>4, <1>5, <1>6, <1>7, <1>8, Now DEF BranchesTo
<1> QED BY <1>9, Branched

\* At most one loop is undecided.
LEMMA DecideKeeps ==
  ASSUME CodeInv, Decide
  PROVE  CodeInv'
<1> DEFINE waiting == New + 1
           W == {New, waiting}
           undecided == {f \in frames : f.rest = 0}
<1>1. /\ Open /\ ~Ended
      /\ terms' = Ending(W) \o <<<<>>, <<>>>>
      /\ at' = New /\ own' = own \o <<New, waiting>>
      /\ ret' = ret /\ defined' = defined
  BY DEF Decide
<1>2. W \in SUBSET Nat
  BY Now
<1>3. PICK h \in {0} \cup Members(own) :
        frames' = (frames \ undecided) \cup {Frame(h, waiting)}
  <2>1. CASE Deciding
    <3>1. PICK f \in frames : f.rest = 0
      BY <2>1 DEF Deciding
    <3>2. undecided = {f} /\ f.head \in {0} \cup Members(own)
      BY <3>1 DEF CodeInv, FramesWait
    <3>3. {g.head : g \in undecided} = {f.head}
      BY <3>2
    <3>4. frames' = (frames \ undecided) \cup {Frame(head, waiting) : head \in {g.head : g \in undecided}}
      BY <2>1 DEF Decide
    <3>5. {Frame(head, waiting) : head \in {f.head}} = {Frame(f.head, waiting)}
      OBVIOUS
    <3> QED BY <3>2, <3>3, <3>4, <3>5
  <2>2. CASE ~Deciding
    <3>1. frames' = (frames \ undecided) \cup {Frame(head, waiting) : head \in {0}}
      BY <2>2 DEF Decide
    <3>2. {Frame(head, waiting) : head \in {0}} = {Frame(0, waiting)}
      OBVIOUS
    <3> QED BY <3>1, <3>2
  <2> QED BY <2>1, <2>2
<1>4. /\ terms' \in Seq(Seq(SUBSET Nat)) /\ Len(terms') = Len(terms) + 2
      /\ \A b \in Block : terms'[b] = Ending(W)[b]
      /\ terms'[New] = <<>> /\ terms'[waiting] = <<>>
  <2>1. Ending(W) \in Seq(Seq(SUBSET Nat)) /\ Len(Ending(W)) = Len(terms)
    BY <1>1, <1>2, EndingNow
  <2>2. New = Len(terms) + 1 /\ waiting = Len(terms) + 2 /\ Block = 1 .. Len(terms)
    BY Now
  <2> HIDE DEF W, waiting
  <2> QED BY <1>1, <2>1, <2>2, TwoMore, EmptyBlock
<1>5. /\ \A b \in Block : b # at => terms'[b] = terms[b]
      /\ terms'[at] # <<>> /\ Members(terms'[at]) = Members(terms[at]) \cup {W}
  <2> HIDE DEF W
  <2> QED BY <1>1, <1>2, <1>4, Now, EndingNow
<1>6. own' \in Seq(1 .. Len(terms')) /\ Members(own') = Members(own) \cup W
  <2>1. own \in Seq(1 .. Len(terms')) /\ New \in 1 .. Len(terms') /\ waiting \in 1 .. Len(terms')
    BY <1>4, Now, TypesWiden
  <2>2. own' \in Seq(1 .. Len(terms'))
    BY <1>1, <2>1, TwoMore
  <2>3. Members(own') = Members(own) \cup {New, waiting}
    BY <1>1, <2>1, MembersOfPair
  <2> QED BY <2>2, <2>3
<1>7. FramesWait'
  <2>1. \A f \in frames \ undecided : f.rest # 0 /\ f.rest \in Members(own)
    BY DEF CodeInv, FramesWait
  <2>2. \A f \in frames \ undecided : terms'[f.rest] = <<>> /\ f.rest # New /\ f.rest # waiting
    BY <1>5, <2>1, Now DEF CodeInv, FramesWait
  <2>3. /\ Frame(h, waiting).head = h /\ Frame(h, waiting).rest = waiting
        /\ waiting # 0 /\ waiting # New
    BY Now DEF Frame
  <2> HIDE DEF waiting, undecided
  <2>4. waiting \in Members(own')
    BY <1>6
  <2>5. \A f \in frames' : f \in frames \ undecided \/ f = Frame(h, waiting)
    BY <1>3
  <2>6. \A f \in frames' :
          /\ f = Frame(f.head, f.rest)
          /\ f.head \in {0} \cup Members(own') /\ f.rest \in {0} \cup Members(own')
          /\ f.rest # 0 /\ terms'[f.rest] = <<>> /\ f.rest # at'
    BY <1>1, <1>4, <1>6, <2>1, <2>2, <2>3, <2>4, <2>5 DEF CodeInv, FramesWait
  <2>7. \A f, g \in frames' : f.rest = g.rest => f = g
    BY <2>2, <2>3, <2>5 DEF CodeInv, FramesWait
  <2> QED BY <2>6, <2>7 DEF FramesWait
<1>8. /\ \A f \in frames : f.rest # 0 => \E g \in frames' : g.rest = f.rest
      /\ \E g \in frames' : g.rest = waiting
  <2>1. Frame(h, waiting).rest = waiting /\ Frame(h, waiting) \in frames'
    BY <1>3 DEF Frame
  <2>2. \A f \in frames : f.rest # 0 => f \in frames'
    BY <1>3
  <2> QED BY <2>1, <2>2
<1>9. /\ W \subseteq 1 .. Len(terms') /\ Len(terms') \in Nat /\ Len(terms) <= Len(terms')
      /\ \A b \in W : b \notin Block
  BY <1>4, Now
<1>10. BranchesTo(W)
  BY <1>1, <1>2, <1>4, <1>5, <1>6, <1>7, <1>8, <1>9 DEF BranchesTo
<1> QED BY <1>10, Branched

LEMMA GoOnKeeps ==
  ASSUME CodeInv, GoOn
  PROVE  CodeInv'
<1>1. PICK f \in frames :
        /\ Innermost(f)
        /\ terms' = IF f.head # 0 THEN Ending({f.head})
                    ELSE IF Ended THEN terms ELSE Ending({f.rest})
        /\ at' = f.rest /\ frames' = frames \ {f}
        /\ own' = own /\ ret' = ret /\ defined' = defined
  BY DEF GoOn
<1>2. /\ Open /\ f.rest # 0 /\ f.rest \in Members(own) /\ f.head \in {0} \cup Members(own)
      /\ terms[f.rest] = <<>> /\ f.rest # at
  <2>1. f.rest # 0 /\ f.rest \in {0} \cup Members(own)
    BY <1>1, Now DEF Innermost, CodeInv, FramesWait
  <2> QED BY <1>1, <2>1 DEF CodeInv, FramesWait, FunctionIsOpen
<1>3. /\ terms' \in Seq(Seq(SUBSET Nat)) /\ Len(terms') = Len(terms)
      /\ \A b \in Block : b # at => terms'[b] = terms[b]
      /\ terms'[at] # <<>>
      /\ \E T \in SUBSET Members(own) :
           /\ T # {}
           /\ Members(terms[at]) \subseteq Members(terms'[at])
           /\ Members(terms'[at]) \subseteq Members(terms[at]) \cup {T}
  <2>1. ASSUME NEW x \in Members(own), terms' = Ending({x})
        PROVE  <1>3
    <3>1. {x} \in SUBSET Nat /\ {x} # {} /\ {x} \in SUBSET Members(own)
      BY Now
    <3>2. Members(terms'[at]) = Members(terms[at]) \cup {{x}}
      BY <1>2, <2>1, <3>1, EndingNow
    <3> QED BY <1>2, <2>1, <3>1, <3>2, EndingNow
  <2>2. CASE f.head # 0
    BY <1>1, <1>2, <2>1, <2>2
  <2>3. CASE f.head = 0 /\ ~Ended
    BY <1>1, <1>2, <2>1, <2>3
  <2>4. CASE f.head = 0 /\ Ended
    <3>1. terms' = terms
      BY <1>1, <2>4
    <3>2. {f.rest} \in SUBSET Members(own) /\ {f.rest} # {}
      BY <1>2
    <3> QED BY <2>4, <3>1, <3>2 DEF Ended, CodeInv, TypeOfBlocks
  <2> QED BY <2>2, <2>3, <2>4
<1>4. PICK T \in SUBSET Members(own) :
        /\ T # {}
        /\ Members(terms[at]) \subseteq Members(terms'[at])
        /\ Members(terms'[at]) \subseteq Members(terms[at]) \cup {T}
  BY <1>3
<1>5. Mine' = Mine /\ at \in Mine /\ at # ret /\ Members(own) \subseteq Mine
  BY <1>1, <1>2, Now DEF Mine, CodeInv, FunctionIsOpen
<1>6. TypeOfBlocks'
  <2>1. f.rest \in 0 .. Len(terms)
    BY <1>2, Now
  <2> QED BY <1>1, <1>3, <2>1 DEF CodeInv, TypeOfBlocks
<1>7. FunctionIsOpen'
  BY <1>1, <1>2 DEF CodeInv, FunctionIsOpen, Open
<1>8. FramesWait'
  <2>1. \A g \in frames' : g \in frames /\ g.rest # f.rest
    BY <1>1 DEF CodeInv, FramesWait
  <2>2. \A g \in frames' : g.rest # 0 => terms'[g.rest] = terms[g.rest]
    BY <1>3, <2>1, Now DEF CodeInv, FramesWait
  <2> QED BY <1>1, <2>1, <2>2 DEF CodeInv, FramesWait
<1>9. OpenFunction'
  <2>1. \A b \in Mine : b # at => terms'[b] = terms[b]
    BY <1>3, Now
  <2>2. \A b \in Mine : Targets(terms', b) \subseteq Mine
    <3> SUFFICES ASSUME NEW b \in Mine PROVE Targets(terms', b) \subseteq Mine
      OBVIOUS
    <3>1. CASE b # at
      BY <2>1, <3>1 DEF Targets, CodeInv, OpenFunction
    <3>2. CASE b = at
      BY <1>4, <1>5, <3>2 DEF Targets, CodeInv, OpenFunction
    <3> QED BY <3>1, <3>2
  <2>3. \A b \in Mine : {} \in Members(terms'[b]) <=> b = ret
    BY <1>4, <1>5, <2>1 DEF CodeInv, OpenFunction
  <2>4. \A b \in Members(own) : terms'[b] = <<>> => b = f.rest \/ \E g \in frames' : g.rest = b
    BY <1>1, <1>3, Now DEF CodeInv, OpenFunction
  <2> QED BY <1>1, <1>5, <2>2, <2>3, <2>4 DEF OpenFunction
<1>10. FunctionsAreWhole' /\ FunctionsAreDisjoint'
  BY <1>1, <1>2, <1>3, <1>5, Now, DefinedStays
<1> QED BY <1>6, <1>7, <1>8, <1>9, <1>10 DEF CodeInv

LEMMA ReturnKeeps ==
  ASSUME CodeInv, Return
  PROVE  CodeInv'
<1> DEFINE target == IF ret = 0 THEN New ELSE ret
<1>1. /\ Open /\ ~Ended /\ ret' = target /\ at' = at
      /\ frames' = frames /\ own' = own /\ defined' = defined
      /\ ret = 0 => terms' = Append(Ending({target}), <<{}>>)
      /\ ret # 0 => terms' = Ending({target})
  BY DEF Return
<1>2. /\ {target} \in SUBSET Nat /\ target # 0 /\ target \notin Members(own)
      /\ at \in Members(own) /\ at # target /\ at \in Block
  <2>1. target \notin Members(own) /\ target \in Nat /\ target # 0
    BY Now DEF CodeInv, TypeOfBlocks, FunctionIsOpen
  <2> QED BY <1>1, <2>1, Now
<1>3. /\ terms' \in Seq(Seq(SUBSET Nat)) /\ Len(terms') \in Nat /\ Len(terms) <= Len(terms')
      /\ target \in 1 .. Len(terms')
      /\ \A b \in Block : terms'[b] = Ending({target})[b]
      /\ ret = 0 => Members(terms'[target]) = {{}}
  <2>1. CASE ret = 0
    <3>1. <<{}>> \in Seq(SUBSET Nat)
      OBVIOUS
    <3>2. Ending({target}) \in Seq(Seq(SUBSET Nat)) /\ Len(Ending({target})) = Len(terms)
      BY <1>1, <1>2, EndingNow
    <3> HIDE DEF target
    <3>3. /\ terms' \in Seq(Seq(SUBSET Nat)) /\ Len(terms') = Len(terms) + 1
          /\ \A b \in Block : terms'[b] = Ending({target})[b]
          /\ terms'[Len(terms) + 1] = <<{}>>
      <4> DEFINE E == Ending({target})
      <4>1. terms' = Append(E, <<{}>>)
        BY <1>1, <2>1
      <4>2. E \in Seq(Seq(SUBSET Nat)) /\ Len(E) = Len(terms)
        BY <3>2
      <4> HIDE DEF E
      <4>3. /\ Append(E, <<{}>>) \in Seq(Seq(SUBSET Nat)) /\ Len(Append(E, <<{}>>)) = Len(E) + 1
            /\ \A b \in 1 .. Len(E) : Append(E, <<{}>>)[b] = E[b]
            /\ Append(E, <<{}>>)[Len(E) + 1] = <<{}>>
        BY <3>1, <4>2, OneMore
      <4>4. /\ terms' \in Seq(Seq(SUBSET Nat)) /\ Len(terms') = Len(terms) + 1
            /\ \A b \in Block : terms'[b] = E[b]
            /\ terms'[Len(terms) + 1] = <<{}>>
        BY <4>1, <4>2, <4>3 DEF Block
      <4> QED BY <4>4 DEF E
    <3>4. target = Len(terms) + 1
      BY <2>1, Now DEF target
    <3>5. Members(<<{}>>) = {{}}
      BY DEF Members
    <3>6. target \in 1 .. Len(terms') /\ Len(terms') \in Nat /\ Len(terms) <= Len(terms')
      BY <3>3, <3>4, Now
    <3> QED BY <2>1, <3>3, <3>4, <3>5, <3>6
  <2>2. CASE ret # 0
    <3>1. target = ret /\ ret \in Block /\ ret \in Mine
      BY <2>2, Now DEF Mine
    <3>2. terms' = Ending({target})
      BY <1>1, <2>2
    <3>4. Ending({target}) \in Seq(Seq(SUBSET Nat)) /\ Len(Ending({target})) = Len(terms)
      BY <1>1, <1>2, EndingNow
    <3> HIDE DEF target
    <3> QED BY <2>2, <3>1, <3>2, <3>4, Now
  <2> QED BY <2>1, <2>2
<1> HIDE DEF target
<1>4. /\ \A b \in Block : b # at => terms'[b] = terms[b]
      /\ terms'[at] # <<>> /\ Members(terms'[at]) = Members(terms[at]) \cup {{target}}
  BY <1>1, <1>2, <1>3, EndingNow
<1>5. /\ Mine' = Mine \cup {target} /\ at \in Mine /\ Members(own) \subseteq Mine
      /\ \A b \in Mine : b # at => terms'[b] = terms[b]
      /\ \A b \in Mine' : b \in Members(own) \/ b = target
      /\ ret # 0 => target = ret
  BY <1>1, <1>2, <1>4, Now DEF Mine, target
<1>6. TypeOfBlocks'
  BY <1>1, <1>2, <1>3, Now, TypesWiden DEF CodeInv, TypeOfBlocks
<1>7. FunctionIsOpen'
  BY <1>1, <1>2 DEF CodeInv, FunctionIsOpen, Open
<1>8. FramesWait'
  BY <1>1, <1>4, Now DEF CodeInv, FramesWait
<1>9. OpenFunction'
  <2>1. \A b \in Mine' : Targets(terms', b) \subseteq Mine'
    <3> SUFFICES ASSUME NEW b \in Mine' PROVE Targets(terms', b) \subseteq Mine'
      OBVIOUS
    <3>1. CASE b = target /\ ret = 0
      BY <1>3, <3>1 DEF Targets
    <3>2. CASE b \in Mine /\ b # at
      BY <1>5, <3>2 DEF Targets, CodeInv, OpenFunction
    <3>3. CASE b = at
      BY <1>4, <1>5, <3>3 DEF Targets, CodeInv, OpenFunction
    <3> QED BY <1>5, <3>1, <3>2, <3>3 DEF Mine
  <2>2. \A b \in Mine' : {} \in Members(terms'[b]) <=> b = target
    <3> SUFFICES ASSUME NEW b \in Mine' PROVE {} \in Members(terms'[b]) <=> b = target
      OBVIOUS
    <3>1. CASE b = target /\ ret = 0
      BY <1>3, <3>1
    <3>2. CASE b \in Mine /\ b # at
      <4>1. b = ret <=> b = target
        BY <3>2, Now DEF target
      <4> QED BY <1>5, <3>2, <4>1 DEF CodeInv, OpenFunction
    <3>3. CASE b = at
      <4>1. b # ret
        BY <1>2, <3>3, Now DEF CodeInv, FunctionIsOpen
      <4> QED BY <1>2, <1>4, <1>5, <3>3, <4>1 DEF CodeInv, OpenFunction
    <3> QED BY <1>5, <3>1, <3>2, <3>3 DEF Mine
  <2>3. \A b \in Members(own) : terms'[b] = <<>> => b = at \/ \E g \in frames : g.rest = b
    BY <1>4, <1>5 DEF CodeInv, OpenFunction
  <2> QED BY <1>1, <2>1, <2>2, <2>3 DEF OpenFunction
<1>10. FunctionsAreWhole' /\ FunctionsAreDisjoint'
  <2>1. \A b \in Mine' : b \in Mine \/ b \notin Block
    BY <1>5, Now DEF target, Mine
  <2> QED BY <1>1, <1>2, <1>4, <2>1, Now, DefinedStays
<1> QED BY <1>6, <1>7, <1>8, <1>9, <1>10 DEF CodeInv

LEMMA FinishKeeps ==
  ASSUME CodeInv, Finish
  PROVE  CodeInv'
<1> DEFINE all == own \o (IF ret = 0 THEN <<>> ELSE <<ret>>)
<1>1. /\ Open /\ frames = {} /\ frames' = {} /\ at' = at
      /\ terms' = IF Ended \/ ret = 0 THEN terms ELSE Ending({ret})
      /\ defined' = Append(defined, all) /\ own' = <<>> /\ ret' = 0
  BY DEF Finish
<1>2. all \in Seq(1 .. Len(terms)) /\ Members(all) = Mine
  <2>1. CASE ret = 0
    <3>1. own \in Seq(1 .. Len(terms))
      BY DEF CodeInv, TypeOfBlocks
    <3>2. all = own
      BY <2>1, <3>1
    <3> QED BY <2>1, <3>1, <3>2 DEF Mine
  <2>2. CASE ret # 0
    <3>1. ret \in 1 .. Len(terms) /\ own \in Seq(1 .. Len(terms))
      BY <2>2 DEF CodeInv, TypeOfBlocks
    <3>2. all = Append(own, ret)
      BY <2>2, <3>1
    <3>3. Append(own, ret) \in Seq(1 .. Len(terms))
      BY <3>1, OneMore
    <3>4. Members(Append(own, ret)) = Members(own) \cup {ret}
      BY <3>1, MembersOfAppend
    <3> QED BY <2>2, <3>2, <3>3, <3>4 DEF Mine
  <2> QED BY <2>1, <2>2
<1> HIDE DEF all
<1>3. /\ terms' \in Seq(Seq(SUBSET Nat)) /\ Len(terms') = Len(terms)
      /\ \A b \in Block : b # at => terms'[b] = terms[b]
      /\ terms'[at] = terms[at] \/ (ret # 0 /\ terms[at] = <<>> /\ terms'[at] # <<>>
                                    /\ Members(terms'[at]) = Members(terms[at]) \cup {{ret}})
      /\ ret # 0 => terms'[at] # <<>>
  <2>1. CASE Ended \/ ret = 0
    BY <1>1, <2>1 DEF Ended, CodeInv, TypeOfBlocks
  <2>2. CASE ~Ended /\ ret # 0
    <3>1. {ret} \in SUBSET Nat
      BY DEF CodeInv, TypeOfBlocks
    <3>2. terms' = Ending({ret}) /\ terms[at] = <<>>
      BY <1>1, <2>2 DEF Ended
    <3>3. /\ Ending({ret}) \in Seq(Seq(SUBSET Nat)) /\ Len(Ending({ret})) = Len(terms)
          /\ \A b \in Block : b # at => Ending({ret})[b] = terms[b]
          /\ Ending({ret})[at] # <<>>
          /\ Members(Ending({ret})[at]) = Members(terms[at]) \cup {{ret}}
      BY <1>1, <3>1, EndingNow
    <3> QED BY <2>2, <3>2, <3>3
  <2> QED BY <2>1, <2>2
<1>4. /\ at \in Members(own) /\ at \in Mine /\ at # ret /\ Members(own) \subseteq Mine
      /\ \A b \in Mine : b # at => terms'[b] = terms[b]
      /\ ret # 0 => ret \in Mine
  BY <1>1, <1>3, Now DEF Mine, CodeInv, FunctionIsOpen
<1>5. Members(own') = {} /\ Mine' = {} /\ own' \in Seq(1 .. Len(terms'))
  BY <1>1, <1>3 DEF Members, Mine
<1>6. DOMAIN defined' = DOMAIN defined \cup {Len(defined) + 1}
      /\ (\A i \in DOMAIN defined : defined'[i] = defined[i])
      /\ defined'[Len(defined) + 1] = all
      /\ Len(defined) + 1 \notin DOMAIN defined
      /\ defined' \in Seq(Seq(1 .. Len(terms)))
  <2>1. defined \in Seq(Seq(1 .. Len(terms)))
    BY DEF CodeInv, TypeOfBlocks
  <2>2. DOMAIN defined = 1 .. Len(defined) /\ Len(defined) \in Nat
    BY <2>1
  <2>3. /\ defined' \in Seq(Seq(1 .. Len(terms))) /\ Len(defined') = Len(defined) + 1
        /\ \A i \in 1 .. Len(defined) : defined'[i] = defined[i]
        /\ defined'[Len(defined) + 1] = all
    BY <1>1, <1>2, <2>1, OneMore
  <2>4. DOMAIN defined' = 1 .. Len(defined) + 1
    BY <2>3
  <2> QED BY <2>2, <2>3, <2>4
<1>7. TypeOfBlocks'
  BY <1>1, <1>3, <1>5, <1>6 DEF CodeInv, TypeOfBlocks
<1>8. FunctionIsOpen' /\ FramesWait' /\ OpenFunction'
  BY <1>1, <1>5 DEF FunctionIsOpen, FramesWait, OpenFunction, Open
<1>9. \A i \in DOMAIN defined : Members(defined[i]) \subseteq Block /\ Members(defined[i]) \cap Mine = {}
  <2>1. \A i \in DOMAIN defined : Members(defined[i]) \subseteq Block
    BY SMTT(40) DEF CodeInv, TypeOfBlocks, Members, Block
  <2> QED BY <2>1 DEF CodeInv, FunctionsAreDisjoint
<1>10. FunctionsAreWhole'
  <2> SUFFICES ASSUME NEW i \in DOMAIN defined'
      PROVE  LET B == Members(defined'[i])
                 unended == {b \in B : terms'[b] = <<>>}
             IN  /\ \A b \in B : Targets(terms', b) \subseteq B
                 /\ \A b, c \in unended : b = c
                 /\ unended # {} => \A b \in B : {} \notin Members(terms'[b])
    BY DEF FunctionsAreWhole
  <2>1. CASE i \in DOMAIN defined
    <3>1. \A b \in Members(defined[i]) : terms'[b] = terms[b]
      BY <1>3, <1>4, <1>9, <2>1
    <3>2. \A b \in Members(defined[i]) : Targets(terms', b) = Targets(terms, b)
      BY <3>1 DEF Targets
    <3>3. defined'[i] = defined[i]
      BY <1>6, <2>1
    <3> QED BY <2>1, <3>1, <3>2, <3>3 DEF CodeInv, FunctionsAreWhole
  <2>2. CASE i = Len(defined) + 1
    <3>1. Members(defined'[i]) = Mine
      BY <1>2, <1>6, <2>2
    <3>2. \A b \in Mine : Targets(terms', b) \subseteq Mine
      <4> SUFFICES ASSUME NEW b \in Mine PROVE Targets(terms', b) \subseteq Mine
        OBVIOUS
      <4>1. CASE b # at \/ terms'[at] = terms[at]
        BY <1>4, <4>1 DEF Targets, CodeInv, OpenFunction
      <4>2. CASE b = at /\ terms'[at] # terms[at]
        BY <1>3, <1>4, <4>2 DEF Targets, CodeInv, OpenFunction
      <4> QED BY <4>1, <4>2
    <3>3. \A b \in Mine : {} \in Members(terms'[b]) => ret # 0
      <4> SUFFICES ASSUME NEW b \in Mine, ret = 0 PROVE {} \notin Members(terms'[b])
        OBVIOUS
      <4>1. b # ret /\ terms'[b] = terms[b]
        BY <1>3, <1>4, Now
      <4> QED BY <4>1 DEF CodeInv, OpenFunction
    <3>4. \A b \in Mine : terms'[b] = <<>> => b = at /\ ret = 0
      <4> SUFFICES ASSUME NEW b \in Mine, terms'[b] = <<>> PROVE b = at /\ ret = 0
        OBVIOUS
      <4>1. b \in Members(own)
        <5>1. ASSUME b = ret, ret # 0 PROVE FALSE
          <6>1. terms[b] = <<>>
            BY <1>4, <5>1
          <6>2. {} \in Members(terms[b])
            BY <5>1 DEF CodeInv, OpenFunction
          <6> QED BY <6>1, <6>2 DEF Members
        <5> QED BY <5>1 DEF Mine
      <4>2. b = at
        BY <1>1, <1>4, <4>1 DEF CodeInv, OpenFunction
      <4> QED BY <1>3, <4>2
    <3> QED BY <3>1, <3>2, <3>3, <3>4
  <2> QED BY <1>6, <2>1, <2>2
<1>11. FunctionsAreDisjoint'
  BY <1>2, <1>5, <1>6, <1>9 DEF CodeInv, FunctionsAreDisjoint
<1> QED BY <1>7, <1>8, <1>10, <1>11 DEF CodeInv

-----------------------------------------------------------------------------
(* What structured code is. *)

LEMMA CodeInitially == ASSUME Init PROVE CodeInv
<1>1. Members(own) = {} /\ Mine = {}
  BY DEF Init, Members, Mine
<1>2. TypeOfBlocks
  BY DEF Init, TypeOfBlocks
<1> QED BY <1>1, <1>2 DEF Init, CodeInv, FunctionIsOpen, Open, FramesWait, OpenFunction,
           FunctionsAreWhole, FunctionsAreDisjoint

LEMMA CodeInductive == ASSUME CodeInv, [Next]_vars PROVE CodeInv'
<1>1. ASSUME UNCHANGED vars PROVE CodeInv'
  <2>1. TypeOfBlocks' /\ FunctionIsOpen' /\ FramesWait'
    BY <1>1 DEF vars, CodeInv, TypeOfBlocks, FunctionIsOpen, Open, FramesWait
  <2>2. Mine' = Mine
    BY <1>1 DEF vars, Mine
  <2>3. OpenFunction'
    BY <1>1, <2>2 DEF vars, CodeInv, OpenFunction
  <2>4. FunctionsAreWhole'
    BY <1>1 DEF vars, CodeInv, FunctionsAreWhole
  <2>5. FunctionsAreDisjoint'
    BY <1>1, <2>2 DEF vars, CodeInv, FunctionsAreDisjoint
  <2> QED BY <2>1, <2>3, <2>4, <2>5 DEF CodeInv
<1> QED BY <1>1, BeginKeeps, StartLoopKeeps, DecideKeeps, GoOnKeeps, ReturnKeeps, FinishKeeps
        DEF Next

\* Every empty block of the open function is the one being written or waits for exactly
\* one open statement, and the finished functions are whole.
THEOREM CodeInvariance == Spec => []CodeInv
<1>1. Init => CodeInv
  BY CodeInitially
<1>2. CodeInv /\ [Next]_vars => CodeInv'
  BY CodeInductive
<1> QED BY <1>1, <1>2, PTL DEF Spec

\* No branch leaves its function and no block is in two; of the blocks of a
\* finished function at most one has not ended, and then the function has no
\* return: what define_function is given.
THEOREM FunctionsStayWhole == Spec => [](FunctionsAreWhole /\ FunctionsAreDisjoint)
<1>1. CodeInv => FunctionsAreWhole /\ FunctionsAreDisjoint
  BY DEF CodeInv
<1> QED BY <1>1, CodeInvariance, PTL

\* A step ends no block but the one that is written, and that is one of the
\* function that is open.
LEMMA StepWrites ==
  ASSUME CodeInv, Next, NEW b \in Block, b \notin Members(own)
  PROVE  terms'[b] = terms[b]
<1>1. CASE Begin
  <2>1. <<>> \in Seq(SUBSET Nat) /\ terms \in Seq(Seq(SUBSET Nat))
    BY DEF CodeInv, TypeOfBlocks
  <2> QED BY <1>1, <2>1, OneMore DEF Begin, Block
<1>2. CASE Open /\ b # at
  <2>1. ASSUME NEW T \in SUBSET Nat
        PROVE  /\ Ending(T)[b] = terms[b]
               /\ Append(Ending(T), <<>>)[b] = terms[b]
               /\ Append(Ending(T), <<{}>>)[b] = terms[b]
               /\ (Ending(T) \o <<<<>>, <<>>>>)[b] = terms[b]
    <3> DEFINE E == Ending(T)
    <3>1. E \in Seq(Seq(SUBSET Nat)) /\ Len(E) = Len(terms) /\ E[b] = terms[b]
      BY <1>2, EndingNow
    <3>2. b \in 1 .. Len(E) /\ <<>> \in Seq(SUBSET Nat) /\ <<{}>> \in Seq(SUBSET Nat)
      BY <3>1 DEF Block
    <3> HIDE DEF E
    <3>3. Append(E, <<>>)[b] = E[b] /\ Append(E, <<{}>>)[b] = E[b]
      BY <3>1, <3>2, OneMore
    <3>4. (E \o <<<<>>, <<>>>>)[b] = E[b]
      BY <3>1, <3>2, TwoMore
    <3> QED BY <3>1, <3>3, <3>4 DEF E
  <2>2. {New} \in SUBSET Nat /\ {New, New + 1} \in SUBSET Nat /\ {ret} \in SUBSET Nat
    BY Now DEF CodeInv, TypeOfBlocks
  <2>3. CASE StartLoop
    BY <2>1, <2>2, <2>3 DEF StartLoop
  <2>4. CASE Decide
    BY <2>1, <2>2, <2>4 DEF Decide
  <2>5. CASE GoOn
    <3>1. PICK f \in frames :
            terms' = IF f.head # 0 THEN Ending({f.head})
                     ELSE IF Ended THEN terms ELSE Ending({f.rest})
      BY <2>5 DEF GoOn
    <3>2. {f.head} \in SUBSET Nat /\ {f.rest} \in SUBSET Nat
      <4>1. f.head \in {0} \cup Members(own) /\ f.rest \in {0} \cup Members(own)
        BY DEF CodeInv, FramesWait
      <4>2. {0} \cup Members(own) \subseteq Nat
        BY Now
      <4> QED BY <4>1, <4>2
    <3> QED BY <2>1, <3>1, <3>2
  <2>6. CASE Return
    <3>1. CASE terms' = Append(Ending({New}), <<{}>>)
      BY <2>1, <2>2, <3>1
    <3>2. CASE terms' = Ending({ret})
      BY <2>1, <2>2, <3>2
    <3> QED BY <2>6, <3>1, <3>2 DEF Return
  <2>7. CASE Finish
    BY <2>1, <2>2, <2>7 DEF Finish
  <2>8. ~Begin
    BY <1>2 DEF Begin
  <2> QED BY <2>3, <2>4, <2>5, <2>6, <2>7, <2>8 DEF Next
<1>3. Open => b # at
  BY Now
<1>4. ASSUME ~Open PROVE Begin
  <2>1. ~GoOn
    BY <1>4 DEF GoOn, CodeInv, FunctionIsOpen
  <2> QED BY <1>4, <2>1 DEF Next, StartLoop, Decide, Return, Finish
<1> QED BY <1>1, <1>2, <1>3, <1>4

\* The block that is written has ended at most once: only when its statement goes on is
\* it ended again, and then another is written.
AtOnce == at # 0 => Len(terms[at]) <= 1

LEMMA EndedOnce ==
  ASSUME CodeInv, Open, ~Ended, NEW T \in SUBSET Nat
  PROVE  /\ Len(Ending(T)[at]) = 1 /\ Len(Ending(T)) = Len(terms)
         /\ Len(Append(Ending(T), <<{}>>)[at]) = 1
         /\ Len(Append(Ending(T), <<{}>>)) = Len(terms) + 1
<1>1. Ending(T)[at] = <<T>> /\ at \in Block /\ Len(<<T>>) = 1
  <2>1. terms \in Seq(Seq(SUBSET Nat)) /\ at \in Block
    BY Now DEF CodeInv, TypeOfBlocks, FunctionIsOpen, Members
  <2>2. terms[at] = <<>> /\ at \in DOMAIN terms
    BY <2>1 DEF Ended, Block
  <2> QED BY <2>1, <2>2 DEF Ending
<1> DEFINE E == Ending(T)
           S == Seq(SUBSET Nat)
           x == <<{}>>
<1>2. E \in Seq(S) /\ Len(E) = Len(terms) /\ x \in S
  <2>1. x \in S
    OBVIOUS
  <2> QED BY <2>1, EndingNow
<1>3. at \in 1 .. Len(E) /\ E[at] = <<T>>
  BY <1>1, <1>2 DEF Block
<1> HIDE DEF E, S, x
<1>4. Append(E, x)[at] = E[at] /\ Len(Append(E, x)) = Len(E) + 1
  BY <1>2, <1>3, OneMore
<1> QED BY <1>1, <1>2, <1>3, <1>4 DEF E, x

LEMMA StepEnds ==
  ASSUME CodeInv, AtOnce, Next
  PROVE  AtOnce' /\ Len(terms) <= Len(terms')
<1>1. /\ terms \in Seq(Seq(SUBSET Nat)) /\ <<>> \in Seq(SUBSET Nat)
      /\ Len(terms) \in Nat /\ New = Len(terms) + 1 /\ Len(<<>>) = 0
  BY Now DEF CodeInv, TypeOfBlocks
<1>2. ASSUME NEW T \in SUBSET Nat, Open
      PROVE  /\ Append(Ending(T), <<>>)[New] = <<>> /\ Len(Append(Ending(T), <<>>)) = Len(terms) + 1
             /\ (Ending(T) \o <<<<>>, <<>>>>)[New] = <<>>
             /\ Len(Ending(T) \o <<<<>>, <<>>>>) = Len(terms) + 2
  <2> DEFINE E == Ending(T)
             S == Seq(SUBSET Nat)
             x == <<>>
  <2>1. E \in Seq(S) /\ Len(E) = Len(terms) /\ x \in S
    BY <1>1, <1>2, EndingNow
  <2> HIDE DEF E, S, x
  <2>2. /\ Append(E, x)[Len(E) + 1] = x /\ Len(Append(E, x)) = Len(E) + 1
        /\ (E \o <<x, x>>)[Len(E) + 1] = x /\ Len(E \o <<x, x>>) = Len(E) + 2
    BY <2>1, OneMore, TwoMore
  <2> QED BY <1>1, <2>1, <2>2 DEF E, x
<1>3. {New} \in SUBSET Nat /\ {New, New + 1} \in SUBSET Nat /\ {ret} \in SUBSET Nat
  BY <1>1 DEF CodeInv, TypeOfBlocks
<1>4. CASE Begin
  <2>1. Append(terms, <<>>)[New] = <<>> /\ Len(Append(terms, <<>>)) = Len(terms) + 1
    BY <1>1, OneMore
  <2> QED BY <1>1, <1>4, <2>1 DEF Begin, AtOnce
<1>5. CASE StartLoop
  <2>1. terms' = Append(Ending({New}), <<>>) /\ at' = New /\ Open
    BY <1>5 DEF StartLoop
  <2>2. terms'[at'] = <<>> /\ Len(terms') = Len(terms) + 1
    BY ONLY <1>2, <1>3, <2>1
  <2> QED BY <1>1, <2>2 DEF AtOnce
<1>6. CASE Decide
  <2>1. terms' = Ending({New, New + 1}) \o <<<<>>, <<>>>> /\ at' = New /\ Open
    BY <1>6 DEF Decide
  <2>2. terms'[at'] = <<>> /\ Len(terms') = Len(terms) + 2
    BY ONLY <1>2, <1>3, <2>1
  <2> QED BY <1>1, <2>2 DEF AtOnce
<1>7. CASE GoOn
  <2>1. PICK f \in frames :
          /\ terms' = IF f.head # 0 THEN Ending({f.head})
                      ELSE IF Ended THEN terms ELSE Ending({f.rest})
          /\ at' = f.rest
    BY <1>7 DEF GoOn
  <2>2. /\ f.head \in {0} \cup Members(own) /\ f.rest \in {0} \cup Members(own)
        /\ f.rest # 0 => terms[f.rest] = <<>> /\ f.rest # at
    BY DEF CodeInv, FramesWait
  <2>3. {f.head} \in SUBSET Nat /\ {f.rest} \in SUBSET Nat /\ (f.rest # 0 => f.rest \in Block) /\ Open
    <3>1. {0} \cup Members(own) \subseteq Nat /\ Members(own) \subseteq Block
      BY Now
    <3>2. Open
      BY DEF CodeInv, FunctionIsOpen
    <3> QED BY <2>2, <3>1, <3>2
  <2>4. ASSUME NEW T \in SUBSET Nat
        PROVE  Len(Ending(T)) = Len(terms) /\ (f.rest # 0 => Ending(T)[f.rest] = terms[f.rest])
    BY <2>2, <2>3, EndingNow
  <2>5. Len(terms') = Len(terms) /\ (f.rest # 0 => terms'[f.rest] = terms[f.rest])
    BY <2>1, <2>3, <2>4
  <2> QED BY <1>1, <2>1, <2>2, <2>5 DEF AtOnce
<1>8. CASE Return
  <2>1. \A T \in SUBSET Nat :
          /\ Len(Ending(T)[at]) = 1 /\ Len(Ending(T)) = Len(terms)
          /\ Len(Append(Ending(T), <<{}>>)[at]) = 1
          /\ Len(Append(Ending(T), <<{}>>)) = Len(terms) + 1
    BY <1>8, EndedOnce DEF Return
  <2>2. terms' \in {Append(Ending({New}), <<{}>>), Ending({ret})} /\ at' = at
    BY <1>8 DEF Return
  <2>3. Len(terms'[at']) = 1 /\ Len(terms) <= Len(terms')
    <3>1. /\ Len(Ending({ret})[at]) = 1 /\ Len(Ending({ret})) = Len(terms)
          /\ Len(Append(Ending({New}), <<{}>>)[at]) = 1
          /\ Len(Append(Ending({New}), <<{}>>)) = Len(terms) + 1
      BY ONLY <1>3, <2>1, Zenon
    <3>2. Len(terms) <= Len(terms) + 1 /\ Len(terms) <= Len(terms)
      BY ONLY <1>1
    <3>3. CASE terms' = Append(Ending({New}), <<{}>>)
      BY ONLY <2>2, <3>1, <3>2, <3>3
    <3>4. CASE terms' = Ending({ret})
      BY ONLY <2>2, <3>1, <3>2, <3>4
    <3> QED BY ONLY <2>2, <3>3, <3>4, Zenon
  <2> QED BY <2>3 DEF AtOnce
<1>9. CASE Finish
  <2>1. CASE terms' = terms
    BY <1>1, <1>9, <2>1 DEF Finish, AtOnce
  <2>2. CASE terms' # terms
    <3>1. ~Ended /\ Open /\ terms' = Ending({ret}) /\ at' = at
      BY <1>9, <2>2 DEF Finish
    <3>2. Len(Ending({ret})[at]) = 1 /\ Len(Ending({ret})) = Len(terms)
      BY <1>3, <3>1, EndedOnce
    <3>3. Len(terms'[at']) = 1 /\ Len(terms) <= Len(terms')
      BY ONLY <1>1, <3>1, <3>2
    <3> QED BY <3>3 DEF AtOnce
  <2> QED BY <2>1, <2>2
<1> QED BY <1>4, <1>5, <1>6, <1>7, <1>8, <1>9 DEF Next

\* A block has at most one terminator, or it had them already, or a statement that
\* had returned goes on behind it.
LEMMA StepCounts ==
  ASSUME CodeInv, AtOnce, Next, NEW b \in 1 .. Len(terms')
  PROVE  \/ b \in Block /\ terms'[b] = terms[b]
         \/ Len(terms'[b]) <= 1
         \/ b = at /\ Ended /\ at' # at /\ Len(terms') = Len(terms) /\ Len(terms'[b]) = 2
<1>1. /\ terms \in Seq(Seq(SUBSET Nat)) /\ <<>> \in Seq(SUBSET Nat) /\ Len(<<>>) = 0
      /\ Len(terms) \in Nat /\ New = Len(terms) + 1 /\ Block = 1 .. Len(terms)
      /\ {New} \in SUBSET Nat /\ {New, New + 1} \in SUBSET Nat /\ {ret} \in SUBSET Nat
  BY Now DEF CodeInv, TypeOfBlocks
<1>2. ASSUME NEW T \in SUBSET Nat, Open
      PROVE  /\ Len(Ending(T)) = Len(terms) /\ \A c \in Block : c # at => Ending(T)[c] = terms[c]
             /\ ~Ended => \A c \in Block : Ending(T)[c] = terms[c] \/ Len(Ending(T)[c]) <= 1
             /\ Ending(T) \in Seq(Seq(SUBSET Nat))
  <2> DEFINE E == Ending(T)
  <2>1. ~Ended => Len(E[at]) <= 1
    <3>1. ~Ended => Len(E[at]) = 1
      BY <1>2, EndedOnce
    <3>2. \A n : n = 1 => n <= 1
      OBVIOUS
    <3> QED BY ONLY <3>1, <3>2, Zenon
  <2>2. E \in Seq(Seq(SUBSET Nat)) /\ Len(E) = Len(terms) /\ \A c \in Block : c # at => E[c] = terms[c]
    BY <1>2, EndingNow
  <2> HIDE DEF E
  <2>3. ~Ended => \A c \in Block : E[c] = terms[c] \/ Len(E[c]) <= 1
    BY ONLY <2>1, <2>2, Zenon
  <2> QED BY ONLY <2>2, <2>3, Zenon DEF E
<1>3. ASSUME NEW E \in Seq(Seq(SUBSET Nat)), Len(E) = Len(terms), NEW x \in Seq(SUBSET Nat), Len(x) <= 1,
             \A c \in Block : E[c] = terms[c] \/ Len(E[c]) <= 1,
             terms' \in {E, Append(E, x), E \o <<x, x>>}
      PROVE  (b \in Block /\ terms'[b] = terms[b]) \/ Len(terms'[b]) <= 1
  <2> DEFINE S == Seq(SUBSET Nat)
             n == Len(E)
  <2>1. E \in Seq(S) /\ x \in S
    BY <1>3
  <2>2. n \in Nat /\ Block = 1 .. n
    BY <1>1, <1>3
  <2> HIDE DEF S
  <2>3. /\ Len(Append(E, x)) = n + 1 /\ Append(E, x)[n + 1] = x
        /\ \A c \in 1 .. n : Append(E, x)[c] = E[c]
    BY <2>1, OneMore
  <2>4. /\ Len(E \o <<x, x>>) = n + 2 /\ (E \o <<x, x>>)[n + 1] = x /\ (E \o <<x, x>>)[n + 2] = x
        /\ \A c \in 1 .. n : (E \o <<x, x>>)[c] = E[c]
    BY <2>1, TwoMore
  <2> HIDE DEF n
  <2>5. Len(terms') \in {n, n + 1, n + 2} /\ (b \in Block \/ b = n + 1 \/ b = n + 2)
    <3>1. Len(terms') \in {n, n + 1, n + 2}
      BY ONLY <1>3, <2>3, <2>4 DEF n
    <3> QED BY <2>2, <3>1
  <2>6. CASE b \in Block
    <3>1. terms'[b] = E[b]
      BY ONLY <1>3, <2>2, <2>3, <2>4, <2>6
    <3> QED BY <1>3, <2>6, <3>1
  <2>7. CASE b \notin Block
    <3>1. terms'[b] = x
      <4>1. CASE terms' = E
        <5>1. Len(terms') = n
          BY <4>1 DEF n
        <5> QED BY <2>2, <2>7, <5>1
      <4>2. CASE terms' = Append(E, x)
        <5>1. Len(terms') = n + 1
          BY ONLY <2>3, <4>2
        <5>2. b = n + 1
          BY <2>2, <2>7, <5>1
        <5> QED BY ONLY <2>3, <4>2, <5>2
      <4>3. CASE terms' = E \o <<x, x>>
        <5>1. b = n + 1 \/ b = n + 2
          BY <2>5, <2>7
        <5> QED BY ONLY <2>4, <4>3, <5>1
      <4> QED BY ONLY <1>3, <4>1, <4>2, <4>3
    <3> QED BY <1>3, <3>1
  <2> QED BY <2>6, <2>7
<1>4. ASSUME NEW T \in SUBSET Nat, Open, ~Ended, NEW x \in {<<>>, <<{}>>},
             terms' \in {Ending(T), Append(Ending(T), x), Ending(T) \o <<x, x>>}
      PROVE  (b \in Block /\ terms'[b] = terms[b]) \/ Len(terms'[b]) <= 1
  <2> DEFINE E == Ending(T)
  <2>1. /\ E \in Seq(Seq(SUBSET Nat)) /\ Len(E) = Len(terms)
        /\ \A c \in Block : E[c] = terms[c] \/ Len(E[c]) <= 1
    BY <1>2, <1>4
  <2>2. x \in Seq(SUBSET Nat) /\ Len(x) <= 1
    <3>1. <<{}>> \in Seq(SUBSET Nat) /\ Len(<<{}>>) = 1
      <4>1. {} \in SUBSET Nat
        OBVIOUS
      <4>2. \A S : \A y \in S : <<y>> \in Seq(S) /\ Len(<<y>>) = 1
        OBVIOUS
      <4> QED BY ONLY <4>1, <4>2
    <3> DEFINE y == <<{}>>
    <3> HIDE DEF y
    <3>2. y \in Seq(SUBSET Nat) /\ Len(y) = 1 /\ (x = <<>> \/ x = y)
      BY <3>1 DEF y
    <3>3. \A n : n = 1 \/ n = 0 => n <= 1
      OBVIOUS
    <3> QED BY ONLY <1>1, <3>2, <3>3, Zenon
  <2>3. terms' \in {E, Append(E, x), E \o <<x, x>>}
    BY <1>4
  <2> HIDE DEF E
  <2> QED BY <1>3, <2>1, <2>2, <2>3
<1>5. CASE Begin
  <2>1. terms' = Append(terms, <<>>)
    BY <1>5 DEF Begin
  <2> QED BY <1>1, <1>3, <2>1
<1>6. CASE StartLoop \/ Decide
  <2>1. /\ Open /\ ~Ended
        /\ \/ terms' = Append(Ending({New}), <<>>)
           \/ terms' = Ending({New, New + 1}) \o <<<<>>, <<>>>>
    BY <1>6 DEF StartLoop, Decide
  <2> QED BY <1>1, <1>4, <2>1
<1>7. CASE GoOn
  <2>1. PICK f \in frames :
          /\ Innermost(f)
          /\ terms' = IF f.head # 0 THEN Ending({f.head})
                      ELSE IF Ended THEN terms ELSE Ending({f.rest})
          /\ at' = f.rest
    BY <1>7 DEF GoOn
  <2>2. /\ f.head \in {0} \cup Members(own) /\ f.rest \in {0} \cup Members(own)
        /\ f.rest # 0 => f.rest # at
    BY DEF CodeInv, FramesWait
  <2>3. {f.head} \in SUBSET Nat /\ {f.rest} \in SUBSET Nat /\ Open /\ at \in Block
    <3>1. {0} \cup Members(own) \subseteq Nat
      BY Now
    <3>2. Open
      BY DEF CodeInv, FunctionIsOpen
    <3> QED BY <2>2, <3>1, <3>2, Now
  <2>4. at' # at
    BY <2>1, <2>2 DEF Innermost
  <2>5. CASE ~Ended
    <3>1. terms' \in {Ending({f.head}), Ending({f.rest})}
      BY <2>1, <2>5
    <3> QED BY <1>4, <2>3, <2>5, <3>1
  <2>6. CASE Ended
    <3>1. terms' = Ending({f.head}) \/ terms' = terms
      BY <2>1, <2>6
    <3>2. CASE terms' = Ending({f.head})
      <4>1. Len(terms') = Len(terms) /\ \A c \in Block : c # at => terms'[c] = terms[c]
        BY <1>2, <2>3, <3>2
      <4>2. terms'[at] = Append(terms[at], {f.head})
        BY <1>1, <2>3, <3>2 DEF Ending
      <4>3. terms[at] \in Seq(SUBSET Nat) /\ terms[at] # <<>> /\ Len(terms[at]) <= 1
        <5>1. at # 0
          BY <1>1, <2>3
        <5> QED BY <1>1, <2>3, <2>6, <5>1, Now DEF AtOnce, Ended
      <4>4. Len(terms'[at]) = 2
        BY <2>3, <4>2, <4>3
      <4> QED BY <1>1, <2>4, <2>6, <4>1, <4>4
    <3> QED BY <1>1, <3>1, <3>2
  <2> QED BY <2>5, <2>6
<1>8. CASE Return
  <2>1. Open /\ ~Ended /\ terms' \in {Append(Ending({New}), <<{}>>), Ending({ret})}
    BY <1>8 DEF Return
  <2> QED BY <1>1, <1>4, <2>1
<1>9. CASE Finish
  <2>1. terms' = terms \/ (Open /\ ~Ended /\ terms' = Ending({ret}))
    BY <1>9 DEF Finish
  <2> QED BY <1>1, <1>4, <2>1
<1> QED BY <1>5, <1>6, <1>7, <1>8, <1>9 DEF Next

\* A finished function is final: no later step ends one of its blocks again.
THEOREM FinishedStaysFinal ==
  Spec => [][\A i \in DOMAIN defined : \A b \in Members(defined[i]) : terms'[b] = terms[b]]_vars
<1>1. ASSUME CodeInv, [Next]_vars
      PROVE  [\A i \in DOMAIN defined : \A b \in Members(defined[i]) : terms'[b] = terms[b]]_vars
  <2>1. CASE UNCHANGED vars
    BY <2>1
  <2>2. CASE Next
    <3>1. \A i \in DOMAIN defined : Members(defined[i]) \subseteq Block
      BY SMTT(40), <1>1 DEF CodeInv, TypeOfBlocks, Members, Block
    <3>2. \A i \in DOMAIN defined : \A b \in Members(defined[i]) : b \notin Members(own)
      BY <1>1 DEF CodeInv, FunctionsAreDisjoint, Mine
    <3> QED BY <1>1, <2>2, <3>1, <3>2, StepWrites
  <2> QED BY <1>1, <2>1, <2>2
<1> QED BY <1>1, CodeInvariance, PTL DEF Spec

-----------------------------------------------------------------------------
(* Which blocks come after a block on every path. *)

\* Branches lead to blocks.
BranchesLead == \A b \in Block : Targets(terms, b) \subseteq Block

\* W meets B at v only.
OnlyAt(W, v, b) == b \in W => b = v

\* Branches from the other blocks to W lead to v.
Guards(W, v, e) ==
  /\ W \subseteq Block /\ v \in W /\ e \in Block
  /\ \A b \in Block \ W : \A c \in Targets(terms, b) : OnlyAt(W, v, c)

\* The function with the entry e is being written, and the statements F are still open.
Within(F, e) == Open /\ own[1] = e /\ F \subseteq frames

\* The blocks W are reached through v only.  They are v, which was being written when the
\* statements F of the function with the entry e were open, and the blocks made for
\* statements that were opened since then, while all of F stayed open.
Reserves(W, v, F, e) ==
  /\ Guards(W, v, e)
  /\ \A i \in DOMAIN defined : defined[i] # <<>> => OnlyAt(W, v, defined[i][1])
  /\ Open => OnlyAt(W, v, own[1])
  /\ ret # 0 => OnlyAt(W, v, ret)
  /\ \A f \in F : f.rest \in Block
  /\ \A f \in frames : ~Within(F, e) \/ f \in F =>
       OnlyAt(W, v, f.head) /\ OnlyAt(W, v, f.rest)
  /\ Within(F, e) =>
       /\ at \in W
       /\ \A f \in frames \ F : f.rest # 0 => f.rest \in W /\ \A g \in F : g.rest < f.rest

\* The step adds branches to T and no others.
Adds(T) ==
  /\ Len(terms') \in Nat /\ Len(terms) <= Len(terms')
  /\ T \subseteq Block'
  /\ \A b \in Block' : \A c \in Targets(terms', b) :
       (b \in Block /\ c \in Targets(terms, b)) \/ (b = at /\ c \in T)

\* Branches to T may be written where the builder is.
MayBranch(W, v, T) == at \in W \/ \A c \in T : OnlyAt(W, v, c)

\* New blocks may join W if the branches to W start there or lead to v.
LEMMA StillGuards ==
  ASSUME CodeInv, BranchesLead, NEW W, NEW v, NEW e, Guards(W, v, e), NEW T, Adds(T),
         NEW V, W \subseteq V, V \subseteq Block', \A b \in V : b \in W \/ b \notin Block,
         MayBranch(V, v, T)
  PROVE  BranchesLead' /\ Guards(V, v, e)'
<1>1. Block \subseteq Block'
  BY Now DEF Block, Adds
<1>2. BranchesLead'
  BY <1>1 DEF Adds, BranchesLead
<1>3. V \subseteq Block' /\ v \in V /\ e \in Block'
  BY <1>1 DEF Guards
<1>4. ASSUME NEW b \in Block' \ V, NEW c \in Targets(terms', b)
      PROVE  OnlyAt(V, v, c)
  <2>1. CASE b \in Block /\ c \in Targets(terms, b)
    <3>1. c \in Block /\ OnlyAt(W, v, c)
      BY <1>4, <2>1 DEF BranchesLead, Guards
    <3> QED BY <3>1 DEF OnlyAt
  <2>2. CASE b = at /\ c \in T
    BY <1>4, <2>2 DEF MayBranch
  <2> QED BY <1>4, <2>1, <2>2 DEF Adds
<1> QED BY <1>2, <1>3, <1>4 DEF Guards

LEMMA SameGuards ==
  ASSUME CodeInv, BranchesLead, NEW W, NEW v, NEW e, Guards(W, v, e),
         NEW T, Adds(T), MayBranch(W, v, T)
  PROVE  BranchesLead' /\ Guards(W, v, e)'
<1>1. W \subseteq Block' /\ \A b \in W : b \in W \/ b \notin Block
  BY Now DEF Guards, Adds, Block
<1> QED BY <1>1, StillGuards

\* What a terminator adds.
LEMMA EndingAdds ==
  ASSUME CodeInv, Open, NEW T \in SUBSET Nat,
         Len(terms') \in Nat, Len(terms) <= Len(terms'), T \subseteq Block',
         \A b \in Block : terms'[b] = Ending(T)[b],
         \A b \in Block' \ Block : Targets(terms', b) = {}
  PROVE  Adds(T)
<1>1. \A b \in Block : b # at => Targets(terms', b) = Targets(terms, b)
  BY EndingNow DEF Targets
<1>2. at \in Block
  BY Now
<1>3. Members(Ending(T)[at]) = Members(terms[at]) \cup {T}
  BY EndingNow
<1>4. Targets(terms', at) = Targets(terms, at) \cup T
  BY <1>2, <1>3 DEF Targets
<1> QED BY <1>1, <1>2, <1>4 DEF Adds

\* More blocks may be reserved after a step.
Reserved(W, v, F, e) == BranchesLead' /\ \E V : W \subseteq V /\ Reserves(V, v, F, e)'

LEMMA BeginReserves ==
  ASSUME CodeInv, BranchesLead, NEW W, NEW v, NEW F, NEW e, Reserves(W, v, F, e), Begin
  PROVE  Reserved(W, v, F, e)
<1>1. /\ own = <<>> /\ frames' = {} /\ ret' = 0 /\ own' = <<New>> /\ defined' = defined
      /\ terms' = Append(terms, <<>>)
  BY DEF CodeInv, FunctionIsOpen, Begin, Open
<1>2. /\ Len(terms') = Len(terms) + 1
      /\ \A b \in Block : terms'[b] = terms[b]
      /\ terms'[New] = <<>>
  <2>1. <<>> \in Seq(SUBSET Nat) /\ terms \in Seq(Seq(SUBSET Nat))
    BY DEF CodeInv, TypeOfBlocks
  <2> QED BY <1>1, <2>1, OneMore DEF Block, New
<1>3. Block' = Block \cup {New} /\ New \notin Block
  BY <1>2, Now DEF Block
<1>4. Targets(terms', New) = {} /\ \A b \in Block : Targets(terms', b) = Targets(terms, b)
  BY <1>2 DEF Targets, Members
<1>5. Adds({})
  BY <1>2, <1>3, <1>4, Now DEF Adds
<1>6. BranchesLead' /\ Guards(W, v, e)'
  <2>1. MayBranch(W, v, {})
    BY DEF MayBranch
  <2> QED BY <1>5, <2>1, SameGuards DEF Reserves
<1>7. own'[1] = New /\ New \notin W /\ New # e
  BY <1>1, <1>3 DEF Reserves, Guards
<1>8. ~Within(F, e)'
  BY <1>7 DEF Within
<1>9. Reserves(W, v, F, e)'
  BY <1>1, <1>3, <1>6, <1>7, <1>8 DEF Reserves, OnlyAt
<1> QED BY <1>6, <1>9 DEF Reserved

\* The steps that make no block to write in.
LEMMA EndReserves ==
  ASSUME CodeInv, BranchesLead, NEW W, NEW v, NEW F, NEW e, Reserves(W, v, F, e),
         NEW T, Adds(T), MayBranch(W, v, T),
         frames' \subseteq frames, own' = own \/ own' = <<>>,
         ret' # 0 => ret' = ret \/ ret' \notin Block,
         \A i \in DOMAIN defined' :
           \/ Open /\ defined'[i][1] = own[1]
           \/ i \in DOMAIN defined /\ defined'[i] = defined[i],
         Within(F, e) /\ Open' =>
           \/ frames' \subseteq F /\ ~(F \subseteq frames')
           \/ F \subseteq frames' /\ at' \in W,
         Within(F, e) /\ ~Open' => frames' = {}
  PROVE  Reserved(W, v, F, e)
<1>1. BranchesLead' /\ Guards(W, v, e)'
  BY SameGuards DEF Reserves
<1>2. \A f \in F : f.rest \in Block'
  BY Now DEF Reserves, Adds, Block
<1>3. Within(F, e)' => Within(F, e) /\ F \subseteq frames' /\ at' \in W
  BY DEF Within, Open
<1>4. \A f \in frames' : ~Within(F, e)' \/ f \in F => OnlyAt(W, v, f.head) /\ OnlyAt(W, v, f.rest)
  BY DEF Within, Reserves, Open
<1>5. ret' # 0 => OnlyAt(W, v, ret')
  BY DEF Reserves, Guards, OnlyAt
<1>6. Within(F, e)' =>
        \A f \in frames' \ F : f.rest # 0 => f.rest \in W /\ \A g \in F : g.rest < f.rest
  BY <1>3 DEF Reserves
<1>7. \A i \in DOMAIN defined' : defined'[i] # <<>> => OnlyAt(W, v, defined'[i][1])
  BY DEF Reserves
<1>8. Open' => OnlyAt(W, v, own'[1])
  BY DEF Reserves, Open
<1>9. Reserves(W, v, F, e)'
  BY <1>1, <1>2, <1>3, <1>4, <1>5, <1>6, <1>7, <1>8 DEF Reserves
<1> QED BY <1>1, <1>9 DEF Reserved

\* The innermost statement was opened last.
LEMMA GoOnReserves ==
  ASSUME CodeInv, BranchesLead, NEW W, NEW v, NEW F, NEW e, Reserves(W, v, F, e), GoOn
  PROVE  Reserved(W, v, F, e)
<1>1. PICK f \in frames :
        /\ Innermost(f)
        /\ terms' = IF f.head # 0 THEN Ending({f.head})
                    ELSE IF Ended THEN terms ELSE Ending({f.rest})
        /\ at' = f.rest /\ frames' = frames \ {f}
        /\ own' = own /\ ret' = ret /\ defined' = defined
  BY DEF GoOn
<1>2. Open /\ f.head \in {0} \cup Block /\ f.rest \in {0} \cup Block /\ Block \subseteq Nat
  BY Now DEF CodeInv, FunctionIsOpen, FramesWait
<1>3. \A g \in frames : g.rest \in 1 .. f.rest
  BY <1>1 DEF Innermost
<1>4. f.rest \in Block /\ f.rest # 0
  BY <1>2, <1>3, Now
<1>5. PICK T \in {{}, {f.head}, {f.rest}} : Adds(T) /\ T \subseteq Block
  <2>1. ASSUME NEW c \in Block, terms' = Ending({c}) PROVE Adds({c})
    <3>1. {c} \in SUBSET Nat
      BY <1>2
    <3>2. Len(terms') = Len(terms) /\ Len(terms) \in Nat
      BY <1>2, <2>1, <3>1, EndingNow, Now
    <3>3. Block' = Block
      BY <3>2 DEF Block
    <3>4. Len(terms') \in Nat /\ Len(terms) <= Len(terms')
      BY <3>2
    <3>5. {c} \subseteq Block' /\ \A b \in Block' \ Block : Targets(terms', b) = {}
      BY <3>3
    <3> QED BY <1>2, <2>1, <3>1, <3>4, <3>5, EndingAdds, Zenon
  <2>2. ASSUME terms' = terms PROVE Adds({})
    <3>1. Block' = Block /\ Len(terms) \in Nat
      BY <2>2, Now DEF Block
    <3> QED BY <2>2, <3>1 DEF Adds, Targets
  <2>3. CASE f.head # 0
    BY <1>1, <1>2, <2>1, <2>3
  <2>4. CASE f.head = 0
    BY <1>1, <1>4, <2>1, <2>2, <2>4
  <2> QED BY <2>3, <2>4
<1>6. MayBranch(W, v, T)
  BY <1>5 DEF MayBranch, Reserves
<1>7. ASSUME Within(F, e), f \in F PROVE frames' \subseteq F /\ ~(F \subseteq frames')
  <2>1. ASSUME NEW g \in frames, g \notin F PROVE FALSE
    <3>1. g.rest \in 1 .. f.rest
      BY <1>3, <2>1
    <3>2. g.rest # 0 => f.rest < g.rest
      BY <1>7, <2>1 DEF Reserves
    <3>3. f.rest \in Nat
      BY <1>2, <1>4
    <3> QED BY <3>1, <3>2, <3>3
  <2> QED BY <1>1, <1>7, <2>1
<1>8. ASSUME Within(F, e), f \notin F PROVE F \subseteq frames' /\ at' \in W
  BY <1>1, <1>4, <1>8 DEF Reserves, Within
<1>9. /\ frames' \subseteq frames /\ own' = own
      /\ ret' # 0 => ret' = ret \/ ret' \notin Block
      /\ \A i \in DOMAIN defined' :
           \/ Open /\ defined'[i][1] = own[1]
           \/ i \in DOMAIN defined /\ defined'[i] = defined[i]
      /\ Within(F, e) /\ Open' =>
           \/ frames' \subseteq F /\ ~(F \subseteq frames')
           \/ F \subseteq frames' /\ at' \in W
      /\ Within(F, e) /\ ~Open' => frames' = {}
  BY <1>1, <1>2, <1>7, <1>8 DEF Open
<1> QED BY <1>5, <1>6, <1>9, EndReserves, Zenon

LEMMA ReturnReserves ==
  ASSUME CodeInv, BranchesLead, NEW W, NEW v, NEW F, NEW e, Reserves(W, v, F, e), Return
  PROVE  Reserved(W, v, F, e)
<1>1. /\ Open /\ at' = at /\ frames' = frames /\ own' = own /\ defined' = defined
      /\ Block \subseteq Nat /\ New \in Nat
  BY Now DEF Return
<1>2. ret' # 0 => ret' = ret \/ ret' \notin Block
  BY Now DEF Return
<1>3. Adds({ret'}) /\ ((ret' = ret /\ ret # 0) \/ ret' \notin Block)
  <2>1. CASE ret = 0
    <3> DEFINE E == Ending({New})
    <3>1. terms' = Append(E, <<{}>>) /\ ret' = New /\ {New} \in SUBSET Nat
      BY <1>1, <2>1 DEF Return
    <3>2. E \in Seq(Seq(SUBSET Nat)) /\ Len(E) = Len(terms) /\ <<{}>> \in Seq(SUBSET Nat)
      BY <1>1, <3>1, EndingNow
    <3>3. Len(E) \in Nat /\ New = Len(E) + 1 /\ Block = 1 .. Len(E) /\ New \notin Block
      BY <3>2, Now
    <3> HIDE DEF E
    <3>4. /\ Len(terms') = Len(E) + 1
          /\ \A b \in Block : terms'[b] = E[b]
          /\ terms'[New] = <<{}>>
      BY <3>1, <3>2, <3>3, OneMore
    <3>5. Block' = Block \cup {New} /\ Len(terms') \in Nat /\ Len(terms) <= Len(terms')
      BY <3>2, <3>3, <3>4 DEF Block
    <3>6. Targets(terms', New) = {}
      BY <3>4 DEF Targets, Members
    <3>7. {New} \subseteq Block'
      BY <3>5
    <3>8. \A b \in Block' \ Block : Targets(terms', b) = {}
      BY <3>5, <3>6
    <3>9. Adds({New})
      BY <1>1, <3>1, <3>4, <3>5, <3>7, <3>8, EndingAdds DEF E
    <3> QED BY <3>1, <3>3, <3>9
  <2>2. CASE ret # 0
    <3>1. terms' = Ending({ret}) /\ ret' = ret /\ ret \in Block /\ {ret} \in SUBSET Nat
      <4>1. ret \in Block
        BY <2>2, Now DEF Mine
      <4> QED BY <1>1, <2>2, <4>1 DEF Return
    <3>2. Len(terms') = Len(terms) /\ Len(terms) \in Nat
      BY <1>1, <3>1, EndingNow, Now
    <3>3. Block' = Block
      BY <3>2 DEF Block
    <3>4. Len(terms') \in Nat /\ Len(terms) <= Len(terms')
      BY <3>2
    <3>5. {ret} \subseteq Block' /\ \A b \in Block' \ Block : Targets(terms', b) = {}
      BY <3>1, <3>3
    <3>6. Adds({ret})
      BY <1>1, <3>1, <3>4, <3>5, EndingAdds, Zenon
    <3> QED BY <2>2, <3>1, <3>6
  <2> QED BY <2>1, <2>2
<1>4. MayBranch(W, v, {ret'})
  BY <1>3 DEF MayBranch, Reserves, Guards, OnlyAt
<1>5. /\ frames' \subseteq frames
      /\ \A i \in DOMAIN defined' :
           \/ Open /\ defined'[i][1] = own[1]
           \/ i \in DOMAIN defined /\ defined'[i] = defined[i]
      /\ Within(F, e) /\ Open' =>
           \/ frames' \subseteq F /\ ~(F \subseteq frames')
           \/ F \subseteq frames' /\ at' \in W
      /\ Within(F, e) /\ ~Open' => frames' = {}
  BY <1>1 DEF Open, Within, Reserves
<1> QED BY <1>1, <1>2, <1>3, <1>4, <1>5, EndReserves, Zenon

LEMMA FirstOfBoth ==
  ASSUME NEW S, NEW s \in Seq(S), NEW r \in Seq(S), s # <<>>
  PROVE  (s \o r)[1] = s[1]
  OBVIOUS

LEMMA FinishReserves ==
  ASSUME CodeInv, BranchesLead, NEW W, NEW v, NEW F, NEW e, Reserves(W, v, F, e), Finish
  PROVE  Reserved(W, v, F, e)
<1> DEFINE last == IF ret = 0 THEN <<>> ELSE <<ret>>
<1>1. /\ Open /\ frames = {} /\ frames' = {} /\ own' = <<>> /\ ret' = 0
      /\ terms' = IF Ended \/ ret = 0 THEN terms ELSE Ending({ret})
      /\ defined' = Append(defined, own \o last)
      /\ Block \subseteq Nat
  BY Now DEF Finish
<1>2. \A i \in DOMAIN defined' :
        \/ Open /\ defined'[i][1] = own[1]
        \/ i \in DOMAIN defined /\ defined'[i] = defined[i]
  <2>1. own \in Seq(Nat) /\ last \in Seq(Nat) /\ own # <<>>
    <3>1. Seq(1 .. Len(terms)) \subseteq Seq(Nat)
      BY Now, WiderSeq
    <3> QED BY <1>1, <3>1, Now DEF CodeInv, TypeOfBlocks, Open
  <2>2. (own \o last)[1] = own[1] /\ own \o last \in Seq(Nat)
    <3> HIDE DEF last
    <3> QED BY <2>1, FirstOfBoth
  <2>3. defined \in Seq(Seq(Nat))
    <3>1. 1 .. Len(terms) \subseteq Nat
      BY Now
    <3> QED BY <3>1, WiderSeq DEF CodeInv, TypeOfBlocks
  <2>4. ASSUME NEW x \in Seq(Nat), NEW i \in DOMAIN Append(defined, x)
        PROVE  \/ Append(defined, x)[i] = x
               \/ i \in DOMAIN defined /\ Append(defined, x)[i] = defined[i]
    <3>1. i \in 1 .. Len(defined) + 1 /\ Len(defined) \in Nat
      BY <2>3
    <3> QED BY <2>3, <3>1
  <2> HIDE DEF last
  <2> QED BY <1>1, <2>2, <2>4
<1>3. PICK T : Adds(T) /\ MayBranch(W, v, T)
  <2>1. CASE terms' = terms
    <3>1. Block' = Block /\ Len(terms) \in Nat
      BY <2>1, Now DEF Block
    <3>2. Adds({})
      BY <2>1, <3>1 DEF Adds, Targets
    <3> QED BY <3>2 DEF MayBranch
  <2>2. CASE ret # 0 /\ terms' = Ending({ret})
    <3>1. ret \in Block /\ {ret} \in SUBSET Nat
      BY <1>1, <2>2, Now DEF Mine
    <3>2. Len(terms') = Len(terms) /\ Len(terms) \in Nat
      BY <1>1, <2>2, <3>1, EndingNow, Now
    <3>3. Block' = Block
      BY <3>2 DEF Block
    <3>4. Len(terms') \in Nat /\ Len(terms) <= Len(terms')
      BY <3>2
    <3>5. {ret} \subseteq Block' /\ \A b \in Block' \ Block : Targets(terms', b) = {}
      BY <3>1, <3>3
    <3>6. Adds({ret})
      BY <1>1, <2>2, <3>1, <3>4, <3>5, EndingAdds, Zenon
    <3> QED BY <2>2, <3>6 DEF MayBranch, Reserves
  <2> QED BY <1>1, <2>1, <2>2
<1>4. /\ frames' \subseteq frames
      /\ ret' # 0 => ret' = ret \/ ret' \notin Block
      /\ Within(F, e) /\ Open' =>
           \/ frames' \subseteq F /\ ~(F \subseteq frames')
           \/ F \subseteq frames' /\ at' \in W
      /\ Within(F, e) /\ ~Open' => frames' = {}
  BY <1>1 DEF Open
<1> QED BY <1>1, <1>2, <1>3, <1>4, EndReserves, Zenon

\* The steps that make blocks to write in.
LEMMA NewReserves ==
  ASSUME CodeInv, BranchesLead, NEW W, NEW v, NEW F, NEW e, Reserves(W, v, F, e),
         NEW T, Adds(T), Open, T \cap Block = {},
         own' # <<>>, own'[1] = own[1], ret' = ret, defined' = defined, at' \in T,
         \A f \in frames : f.rest # 0 => f \in frames',
         \A f \in frames' : f \in frames \/ f.rest \in T \cup {0},
         \A f \in frames' :
           f \in frames \/ f.head \in T \cup {0} \/ \E g \in frames : g.rest = 0 /\ g.head = f.head
  PROVE  Reserved(W, v, F, e)
<1>0. PICK V : V = W \cup (IF Within(F, e) THEN T ELSE {})
  OBVIOUS
<1>1. /\ Block \subseteq Nat /\ 0 \notin Block /\ Block' \subseteq Nat /\ 0 \notin Block'
      /\ Block = 1 .. Len(terms) /\ Block' = 1 .. Len(terms')
      /\ Len(terms) \in Nat /\ Len(terms') \in Nat /\ Len(terms) <= Len(terms')
  BY Now DEF Adds, Block
<1>2. Block \subseteq Block' /\ T \subseteq Block'
  BY <1>1 DEF Adds
<1>3. T \cap W = {} /\ W \subseteq Block
  BY DEF Reserves, Guards
<1>4. BranchesLead' /\ Guards(V, v, e)'
  <2>1. W \subseteq V /\ V \subseteq Block' /\ \A b \in V : b \in W \/ b \notin Block
    BY <1>0, <1>2, <1>3
  <2>2. MayBranch(V, v, T)
    <3>1. CASE Within(F, e)
      <4>1. at \in W
        BY <3>1 DEF Reserves
      <4> QED BY <1>0, <4>1 DEF MayBranch
    <3>2. CASE ~Within(F, e)
      BY <1>0, <1>3, <3>2 DEF MayBranch, OnlyAt
    <3> QED BY <3>1, <3>2
  <2>3. Guards(W, v, e)
    BY DEF Reserves
  <2>4. W \subseteq V
    BY <2>1
  <2>5. V \subseteq Block'
    BY <2>1
  <2>6. \A b \in V : b \in W \/ b \notin Block
    BY <2>1
  <2> QED BY <2>2, <2>3, <2>4, <2>5, <2>6, StillGuards, Zenon
<1>5. \A b \in Block \cup {0} : OnlyAt(W, v, b) => OnlyAt(V, v, b)
  BY <1>0, <1>1, <1>2 DEF OnlyAt
<1>6. F \subseteq frames' <=> F \subseteq frames
  <2>1. \A f \in F : f.rest \in Block
    BY DEF Reserves
  <2> QED BY <1>1, <2>1
<1>7. Within(F, e)' <=> Within(F, e)
  BY <1>6 DEF Within, Open
<1>8. own[1] \in Block /\ ret \in {0} \cup Block
  BY <1>1 DEF CodeInv, TypeOfBlocks, Open
<1>9. \A i \in DOMAIN defined : defined[i] # <<>> => defined[i][1] \in Block
  <2>1. \A i \in DOMAIN defined : defined[i] \in Seq(Block)
    BY <1>1 DEF CodeInv, TypeOfBlocks
  <2> QED BY <2>1
<1>10. \A f \in frames : f.head \in {0} \cup Block /\ f.rest \in {0} \cup Block
  BY Now DEF CodeInv, FramesWait
<1>11. /\ \A i \in DOMAIN defined' : defined'[i] # <<>> => OnlyAt(V, v, defined'[i][1])
       /\ OnlyAt(V, v, own'[1])
       /\ ret' # 0 => OnlyAt(V, v, ret')
       /\ \A f \in F : f.rest \in Block'
  <2> QED BY <1>2, <1>5, <1>8, <1>9 DEF Reserves
<1>12. ASSUME NEW f \in frames', ~Within(F, e) \/ f \in F
       PROVE  OnlyAt(V, v, f.head) /\ OnlyAt(V, v, f.rest)
  <2>1. CASE f \in frames
    <3>1. OnlyAt(W, v, f.head) /\ OnlyAt(W, v, f.rest)
      BY <1>12, <2>1 DEF Reserves
    <3>2. f.head \in Block \cup {0} /\ f.rest \in Block \cup {0}
      BY <1>10, <2>1
    <3> QED BY <1>5, <3>1, <3>2
  <2>2. CASE f \notin frames
    <3>1. f.rest \in T \cup {0}
      BY <2>2
    <3>2. f \notin F
      BY <1>1, <3>1 DEF Reserves
    <3>3. ~Within(F, e) /\ V = W
      BY <1>0, <1>12, <3>2
    <3>4. f.head \in T \cup {0} \/ OnlyAt(W, v, f.head)
      BY <2>2, <3>3 DEF Reserves
    <3>5. \A b \in T \cup {0} : b \notin W
      BY <1>1, <1>3
    <3> QED BY <3>1, <3>3, <3>4, <3>5 DEF OnlyAt
  <2> QED BY <2>1, <2>2
<1>13. ASSUME Within(F, e)
       PROVE  /\ at' \in V
              /\ \A f \in frames' \ F : f.rest # 0 => f.rest \in V /\ \A g \in F : g.rest < f.rest
  <2>1. V = W \cup T
    BY <1>0, <1>13
  <2>2. ASSUME NEW f \in frames' \ F, f.rest # 0
        PROVE  f.rest \in V /\ \A g \in F : g.rest < f.rest
    <3>1. CASE f \in frames
      <4>1. f.rest \in W /\ \A g \in F : g.rest < f.rest
        BY <1>13, <2>2, <3>1 DEF Reserves
      <4> QED BY <2>1, <4>1
    <3>2. CASE f \notin frames
      <4>1. f.rest \in T /\ f.rest \in 1 .. Len(terms') /\ f.rest \notin 1 .. Len(terms)
        BY <1>1, <1>2, <2>2, <3>2
      <4>2. \A g \in F : g.rest \in 1 .. Len(terms)
        BY <1>1 DEF Reserves
      <4>3. \A k \in 1 .. Len(terms) : k < f.rest
        BY <1>1, <4>1
      <4> QED BY <2>1, <4>1, <4>2, <4>3
    <3> QED BY <3>1, <3>2
  <2> QED BY <2>1, <2>2
<1>14. Reserves(V, v, F, e)'
  <2>1. Open' => OnlyAt(V, v, own'[1])
    BY <1>11
  <2>2. \A f \in frames' : ~Within(F, e)' \/ f \in F => OnlyAt(V, v, f.head) /\ OnlyAt(V, v, f.rest)
    BY <1>7, <1>12
  <2>3. Within(F, e)' =>
        /\ at' \in V
        /\ \A f \in frames' \ F : f.rest # 0 => f.rest \in V /\ \A g \in F : g.rest < f.rest
    BY <1>7, <1>13
  <2> QED BY <1>4, <1>11, <2>1, <2>2, <2>3 DEF Reserves
<1> QED BY <1>0, <1>4, <1>14 DEF Reserved

LEMMA StartLoopReserves ==
  ASSUME CodeInv, BranchesLead, NEW W, NEW v, NEW F, NEW e, Reserves(W, v, F, e), StartLoop
  PROVE  Reserved(W, v, F, e)
<1>1. /\ Open /\ terms' = Append(Ending({New}), <<>>)
      /\ at' = New /\ own' = Append(own, New)
      /\ frames' = frames \cup {Frame(New, 0)}
      /\ ret' = ret /\ defined' = defined
  BY DEF StartLoop
<1>2. {New} \in SUBSET Nat
  BY Now
<1>3. /\ Len(terms') = Len(terms) + 1
      /\ \A b \in Block : terms'[b] = Ending({New})[b]
      /\ terms'[New] = <<>>
  <2>1. Ending({New}) \in Seq(Seq(SUBSET Nat)) /\ Len(Ending({New})) = Len(terms)
    BY <1>1, <1>2, EndingNow
  <2>2. New = Len(terms) + 1 /\ Block = 1 .. Len(terms)
    BY Now
  <2> DEFINE E == Ending({New})
  <2>3. terms' = Append(E, <<>>) /\ E \in Seq(Seq(SUBSET Nat)) /\ Len(E) = Len(terms)
    BY <1>1, <2>1
  <2> HIDE DEF E
  <2>4. /\ Len(terms') = Len(E) + 1
        /\ \A b \in 1 .. Len(E) : terms'[b] = E[b]
        /\ terms'[Len(E) + 1] = <<>>
    BY <2>3, OneMore, EmptyBlock
  <2>5. /\ Len(terms') = Len(terms) + 1
        /\ \A b \in Block : terms'[b] = E[b]
        /\ terms'[New] = <<>>
    BY <2>2, <2>3, <2>4
  <2> QED BY <2>5 DEF E
<1>4. /\ Len(terms') \in Nat /\ Len(terms) <= Len(terms')
      /\ Block' = Block \cup {New} /\ New \notin Block
  BY <1>3, Now DEF Block
<1>5. {New} \subseteq Block' /\ \A b \in Block' \ Block : Targets(terms', b) = {}
  BY <1>3, <1>4 DEF Targets, Members
<1>6. Adds({New})
  BY <1>1, <1>2, <1>3, <1>4, <1>5, EndingAdds
<1>7. own' # <<>> /\ own'[1] = own[1]
  <2>1. own \in Seq(Nat) /\ own # <<>> /\ New \in Nat
    <3>1. Seq(1 .. Len(terms)) \subseteq Seq(Nat)
      BY Now, WiderSeq
    <3> QED BY <1>1, <3>1, Now DEF CodeInv, TypeOfBlocks, Open
  <2>2. 1 \in 1 .. Len(own)
    BY <2>1
  <2> QED BY <1>1, <2>1, <2>2, OneMore
<1>8. /\ {New} \cap Block = {} /\ at' \in {New}
      /\ \A f \in frames : f.rest # 0 => f \in frames'
      /\ \A f \in frames' : f \in frames \/ f.rest \in {New} \cup {0}
      /\ \A f \in frames' :
           f \in frames \/ f.head \in {New} \cup {0} \/ \E g \in frames : g.rest = 0 /\ g.head = f.head
  BY <1>1, <1>4 DEF Frame
<1> QED BY <1>1, <1>6, <1>7, <1>8, NewReserves, Zenon

LEMMA DecideReserves ==
  ASSUME CodeInv, BranchesLead, NEW W, NEW v, NEW F, NEW e, Reserves(W, v, F, e), Decide
  PROVE  Reserved(W, v, F, e)
<1> DEFINE waiting == New + 1
           T == {New, waiting}
           undecided == {f \in frames : f.rest = 0}
<1>1. /\ Open
      /\ terms' = Ending(T) \o <<<<>>, <<>>>>
      /\ at' = New /\ own' = own \o <<New, waiting>>
      /\ ret' = ret /\ defined' = defined
  BY DEF Decide
<1>2. T \in SUBSET Nat
  BY Now
<1>3. /\ frames \ undecided \subseteq frames'
      /\ \A f \in frames' \ frames :
           f.rest = waiting /\ (f.head = 0 \/ \E g \in frames : g.rest = 0 /\ g.head = f.head)
  <2>1. CASE Deciding
    <3>1. frames' = (frames \ undecided) \cup {Frame(head, waiting) : head \in {g.head : g \in undecided}}
      BY <2>1 DEF Decide
    <3> HIDE DEF waiting
    <3> QED BY <3>1 DEF Frame
  <2>2. CASE ~Deciding
    <3>1. frames' = (frames \ undecided) \cup {Frame(head, waiting) : head \in {0}}
      BY <2>2 DEF Decide
    <3> HIDE DEF waiting
    <3> QED BY <3>1 DEF Frame
  <2> QED BY <2>1, <2>2
<1>4. /\ Len(terms') = Len(terms) + 2
      /\ \A b \in Block : terms'[b] = Ending(T)[b]
      /\ terms'[New] = <<>> /\ terms'[waiting] = <<>>
  <2>1. Ending(T) \in Seq(Seq(SUBSET Nat)) /\ Len(Ending(T)) = Len(terms)
    BY <1>1, <1>2, EndingNow
  <2>2. New = Len(terms) + 1 /\ waiting = Len(terms) + 2 /\ Block = 1 .. Len(terms)
    BY Now
  <2> HIDE DEF T, waiting
  <2> QED BY <1>1, <2>1, <2>2, TwoMore, EmptyBlock
<1>5. /\ Len(terms') \in Nat /\ Len(terms) <= Len(terms')
      /\ Block' = Block \cup T /\ T \cap Block = {}
  BY <1>4, Now DEF Block
<1>6. T \subseteq Block' /\ \A b \in Block' \ Block : Targets(terms', b) = {}
  BY <1>4, <1>5 DEF Targets, Members
<1>7. Adds(T)
  <2> HIDE DEF T
  <2> QED BY <1>1, <1>2, <1>4, <1>5, <1>6, EndingAdds
<1>8. own' # <<>> /\ own'[1] = own[1]
  <2>1. own \in Seq(Nat) /\ own # <<>> /\ New \in Nat /\ waiting \in Nat
    <3>1. Seq(1 .. Len(terms)) \subseteq Seq(Nat)
      BY Now, WiderSeq
    <3>2. own \in Seq(Nat) /\ own # <<>>
      BY <1>1, <3>1 DEF CodeInv, TypeOfBlocks, Open
    <3> QED BY <3>2, Now
  <2>2. 1 \in 1 .. Len(own) /\ Len(own) \in Nat
    BY <2>1
  <2>3. Len(own') = Len(own) + 2 /\ own'[1] = own[1]
    <3> HIDE DEF waiting
    <3> QED BY <1>1, <2>1, <2>2, TwoMore
  <2> QED BY <2>2, <2>3
<1>9. /\ at' \in T
      /\ \A f \in frames : f.rest # 0 => f \in frames'
      /\ \A f \in frames' : f \in frames \/ f.rest \in T \cup {0}
      /\ \A f \in frames' :
           f \in frames \/ f.head \in T \cup {0} \/ \E g \in frames : g.rest = 0 /\ g.head = f.head
  <2>1. waiting \in T /\ New \in T
    OBVIOUS
  <2> HIDE DEF waiting, T
  <2> QED BY <1>1, <1>3, <2>1
<1> HIDE DEF T
<1> QED BY <1>1, <1>5, <1>7, <1>8, <1>9, NewReserves, Zenon

\* What is reserved stays reserved, and more may be.
LEMMA StepReserves ==
  ASSUME CodeInv, BranchesLead, NEW W, NEW v, NEW F, NEW e, Reserves(W, v, F, e), [Next]_vars
  PROVE  Reserved(W, v, F, e)
<1>1. CASE UNCHANGED vars
  <2>1. BranchesLead' /\ Reserves(W, v, F, e)'
    BY <1>1 DEF vars, BranchesLead, Reserves, Guards, Within, Block, Open
  <2> QED BY <2>1 DEF Reserved
<1> QED BY <1>1, BeginReserves, StartLoopReserves, DecideReserves, GoOnReserves, ReturnReserves,
           FinishReserves DEF Next

\* Storage that is allocated now is in a block that is reached through itself.
LEMMA NewStorage ==
  ASSUME CodeInv, Open
  PROVE  \E W, F, e : Reserves(W, at, F, e) /\ F = {f \in frames : f.rest # 0} /\ e = own[1]
<1> DEFINE W == {at}
           F == {f \in frames : f.rest # 0}
<1>1. at \in Block /\ own[1] \in Block
  <2>1. own \in Seq(Block) /\ own # <<>>
    BY DEF CodeInv, TypeOfBlocks, Block, Open
  <2> QED BY <2>1, Now
<1>2. \A b : OnlyAt(W, at, b)
  BY DEF OnlyAt
<1>3. Guards(W, at, own[1])
  BY <1>1, <1>2 DEF Guards
<1>4. \A f \in F : f.rest \in Block
  <2>1. \A f \in frames : f.rest \in {0} \cup Members(own)
    BY DEF CodeInv, FramesWait
  <2> QED BY <2>1, Now
<1>5. \A f \in frames \ F : f.rest = 0
  OBVIOUS
<1>6. at \in W
  OBVIOUS
<1> HIDE DEF W, F
<1>7. Reserves(W, at, F, own[1])
  BY <1>2, <1>3, <1>4, <1>5, <1>6 DEF Reserves
<1> QED BY <1>7 DEF F

\* So is that of the arguments of a function.
LEMMA FirstStorage ==
  ASSUME CodeInv, Begin
  PROVE  \E W, v : Reserves(W, v, {}, v)' /\ v = at' /\ v = own'[1]
<1>1. /\ frames' = {} /\ at' = New /\ own' = <<New>> /\ terms' = Append(terms, <<>>)
  BY DEF CodeInv, FunctionIsOpen, Begin, Open
<1>2. New \in Block'
  <2>1. <<>> \in Seq(SUBSET Nat) /\ terms \in Seq(Seq(SUBSET Nat))
    BY DEF CodeInv, TypeOfBlocks
  <2>2. Len(terms') = Len(terms) + 1
    BY <1>1, <2>1, OneMore
  <2> QED BY <2>2, Now DEF Block
<1>3. PICK v : v = New
  OBVIOUS
<1>4. \A b : OnlyAt({v}, v, b)
  BY DEF OnlyAt
<1>5. Guards({v}, v, v)'
  BY <1>2, <1>3, <1>4 DEF Guards
<1>6. Reserves({v}, v, {}, v)'
  BY <1>1, <1>3, <1>4, <1>5 DEF Reserves
<1> QED BY <1>1, <1>3, <1>6

LEMMA LeadInitially == ASSUME Init PROVE BranchesLead
  BY DEF Init, BranchesLead, Block

LEMMA LeadStep ==
  ASSUME CodeInv, BranchesLead, [Next]_vars
  PROVE  BranchesLead'
<1>1. CASE Open
  <2>1. PICK W, F, e : Reserves(W, at, F, e)
    BY <1>1, NewStorage
  <2>2. PICK v : v = at
    OBVIOUS
  <2>3. Reserved(W, v, F, e)
    BY <2>1, <2>2, StepReserves
  <2> QED BY <2>3 DEF Reserved
<1>2. CASE ~Open
  <2>1. Begin \/ UNCHANGED vars
    BY <1>2 DEF Next, StartLoop, Decide, GoOn, Return, Finish, CodeInv, FunctionIsOpen
  <2>2. CASE UNCHANGED vars
    BY <2>2 DEF vars, BranchesLead, Block
  <2>3. CASE Begin
    <3>1. terms' = Append(terms, <<>>)
      BY <2>3 DEF Begin
    <3>2. /\ Len(terms') = Len(terms) + 1
          /\ \A b \in Block : terms'[b] = terms[b]
          /\ terms'[New] = <<>>
      <4>1. <<>> \in Seq(SUBSET Nat) /\ terms \in Seq(Seq(SUBSET Nat))
        BY DEF CodeInv, TypeOfBlocks
      <4> QED BY <3>1, <4>1, OneMore DEF Block, New
    <3>3. Block' = Block \cup {New}
      BY <3>2, Now DEF Block
    <3>4. Targets(terms', New) = {} /\ \A b \in Block : Targets(terms', b) = Targets(terms, b)
      BY <3>2 DEF Targets, Members
    <3> QED BY <3>3, <3>4 DEF BranchesLead
  <2> QED BY <2>1, <2>2, <2>3
<1> QED BY <1>1, <1>2

\* The blocks of the open function stay its blocks.
LEMMA OwnKept ==
  ASSUME CodeInv, Open, [Next]_vars
  PROVE  \/ own' # <<>> /\ own'[1] = own[1] /\ Members(own) \subseteq Members(own') /\ defined' = defined
         \/ Finish
<1>1. own \in Seq(Nat) /\ own # <<>> /\ New \in Nat /\ New + 1 \in Nat
  <2>1. Seq(1 .. Len(terms)) \subseteq Seq(Nat)
    BY Now, WiderSeq
  <2>2. own \in Seq(Nat) /\ own # <<>>
    BY <2>1 DEF CodeInv, TypeOfBlocks, Open
  <2> QED BY <2>2, Now
<1>2. 1 \in 1 .. Len(own) /\ Len(own) \in Nat
  BY <1>1
<1>3. CASE own' = own /\ defined' = defined
  BY <1>1, <1>3
<1>4. CASE StartLoop
  <2>1. own' = Append(own, New) /\ defined' = defined
    BY <1>4 DEF StartLoop
  <2> QED BY <1>1, <1>2, <2>1, OneMore, MembersOfAppend
<1>5. CASE Decide
  <2> DEFINE n == New
             w == New + 1
  <2>1. own' = own \o <<n, w>> /\ defined' = defined
    BY <1>5 DEF Decide
  <2>2. n \in Nat /\ w \in Nat
    BY <1>1
  <2> HIDE DEF n, w
  <2>3. Len(own') = Len(own) + 2 /\ own'[1] = own[1]
    BY <1>1, <1>2, <2>1, <2>2, TwoMore
  <2>4. Members(own') = Members(own) \cup {n, w}
    BY <1>1, <2>1, MembersOfPair
  <2>5. own' # <<>>
    BY <1>2, <2>3
  <2> QED BY <2>1, <2>3, <2>4, <2>5
<1>6. CASE GoOn \/ Return
  BY <1>3, <1>6 DEF GoOn, Return
<1>7. CASE Begin
  BY <1>7 DEF Begin
<1>8. CASE UNCHANGED vars
  BY <1>3, <1>8 DEF vars
<1> QED BY <1>4, <1>5, <1>6, <1>7, <1>8 DEF Next

\* ... until it is finished.
LEMMA OwnDefined ==
  ASSUME CodeInv, Finish
  PROVE  /\ Len(defined) + 1 \in DOMAIN defined'
         /\ Members(own) \subseteq Members(defined'[Len(defined) + 1])
         /\ own' = <<>>
<1> DEFINE last == IF ret = 0 THEN <<>> ELSE <<ret>>
<1>1. defined' = Append(defined, own \o last) /\ own' = <<>>
  BY DEF Finish
<1>2. own \in Seq(Nat) /\ last \in Seq(Nat)
  <2>1. Seq(1 .. Len(terms)) \subseteq Seq(Nat)
    BY Now, WiderSeq
  <2> QED BY <2>1, Now DEF CodeInv, TypeOfBlocks
<1>3. defined \in Seq(Seq(Nat))
  <2>1. 1 .. Len(terms) \subseteq Nat
    BY Now
  <2> QED BY <2>1, WiderSeq DEF CodeInv, TypeOfBlocks
<1> HIDE DEF last
<1>4. own \o last \in Seq(Nat) /\ DOMAIN own \subseteq DOMAIN (own \o last)
      /\ \A i \in DOMAIN own : (own \o last)[i] = own[i]
  BY <1>2
<1>5. Members(own) \subseteq Members(own \o last)
  BY <1>4 DEF Members
<1>6. /\ Len(defined) + 1 \in DOMAIN Append(defined, own \o last)
      /\ Append(defined, own \o last)[Len(defined) + 1] = own \o last
  BY <1>3, <1>4
<1> QED BY <1>1, <1>5, <1>6

\* From the other blocks no branch leads to one that is reserved, except the first.
LEMMA NoDetour ==
  ASSUME BranchesLead, NEW W, NEW v, NEW F, NEW e, Reserves(W, v, F, e)
  PROVE  /\ \A b \in Block \ W : \A c \in Targets(terms, b) : c \in Block /\ (c = v \/ c \notin W)
         /\ \A i \in DOMAIN defined :
              defined[i] # <<>> => defined[i][1] = v \/ defined[i][1] \notin W
  BY DEF BranchesLead, Reserves, Guards, OnlyAt

\* Where no function is open only the beginning of one opens it.
LEMMA OnlyBegin ==
  ASSUME CodeInv, ~Open, Open', [Next]_vars
  PROVE  Begin
<1>1. Begin \/ UNCHANGED vars
  BY DEF Next, StartLoop, Decide, GoOn, Return, Finish, CodeInv, FunctionIsOpen
<1> QED BY <1>1 DEF vars, Open

\* Between two functions the insertion point is in the one that was finished last.
Resting == ~Open /\ defined # <<>> => at \in Members(defined[Len(defined)])

LEMMA RestingStep ==
  ASSUME CodeInv, Resting, [Next]_vars
  PROVE  Resting'
<1>1. CASE ~Open
  <2>1. Begin \/ UNCHANGED vars
    BY <1>1 DEF Next, StartLoop, Decide, GoOn, Return, Finish, CodeInv, FunctionIsOpen
  <2>2. CASE Begin
    <3>1. own' # <<>>
      BY <2>2 DEF Begin
    <3> QED BY <3>1 DEF Resting, Open
  <2>3. CASE UNCHANGED vars
    BY <2>3 DEF vars, Resting, Open, Members
  <2> QED BY <2>1, <2>2, <2>3
<1>2. CASE Open
  <2>1. CASE own' # <<>>
    BY <2>1 DEF Resting, Open
  <2>2. CASE Finish
    <3>1. defined \in Seq(Seq(1 .. Len(terms))) /\ at' = at /\ at \in Members(own)
      BY <1>2, <2>2 DEF CodeInv, TypeOfBlocks, FunctionIsOpen, Finish
    <3>2. \E d : defined' = Append(defined, d)
      BY <2>2 DEF Finish
    <3>3. at' \in Members(defined'[Len(defined) + 1])
      BY <2>2, <3>1, OwnDefined
    <3>4. Len(defined') = Len(defined) + 1
      BY <3>1, <3>2
    <3> QED BY <3>3, <3>4 DEF Resting, Members
  <2> QED BY <1>2, <2>1, <2>2, OwnKept
<1> QED BY <1>1, <1>2
=============================================================================
