----------------------------- MODULE LexerProofs -----------------------------
(***************************************************************************)
(* Proofs about the token machine, for every alphabet, every set of        *)
(* keywords and every bound.                                               *)
(***************************************************************************)
EXTENDS LexerProperties, TLAPS

\* What lines, eof, failed and token say of each other; inductive with TypeOK.
Counted == LinesAreCounted /\ EndOfSource /\ (lines = 0 => (eof = TRUE \/ failed = TRUE))

IInv == TypeOK /\ Counted

-----------------------------------------------------------------------------
\* The spellings of more than one character have two or three.
LEMMA SpellingSizes ==
  ASSUME NEW s \in Spelling
  PROVE  Len(s.text) \in {2, 3} /\ s.punc \in Punchation
<1>1. (\E a, b : s.text = <<a, b>>) \/ (\E a, b, c : s.text = <<a, b, c>>)
  BY DEF Spelling
<1>2. (\A a, b : Len(<<a, b>>) = 2) /\ (\A a, b, c : Len(<<a, b, c>>) = 3)
  OBVIOUS
<1>3. s.punc \in Punchation
  BY DEF Punchation
<1>4. QED
  BY <1>1, <1>2, <1>3

\* Len of a line.
LEMMA Lines ==
  ASSUME linebuf \in Text
  PROVE  Size \in Nat /\ Size <= MaxColumns /\ linebuf \in Seq(Char)
  BY BoundAssumption DEF Text, Size

\* What two or three characters may reach past the end of a line.
LEMMA PastTheEnd ==
  ASSUME NEW p \in Nat, NEW z \in Nat, NEW n \in {2, 3}, NEW t \in {n, 3}, p + n <= z
  PROVE  t \in Nat \ {0} /\ p + t <= z + 1
  OBVIOUS

\* An operator takes at least one character, and at most one more than the
\* line has.
LEMMA OperatorTakes ==
  ASSUME linebuf \in Text, NEW p \in Nat, p < Size, At(p) \in Punct
  PROVE  /\ Taken(Operator(p).text) \in Nat \ {0}
         /\ p + Taken(Operator(p).text) <= Size + 1
         /\ Operator(p).punc \in Punchation
<1> DEFINE long == {s \in Spelling : Spells(p, s.text)}
<1> Size \in Nat
  BY Lines
<1>1. CASE long = {}
  <2>1. Operator(p) = [text |-> <<At(p)>>, punc |-> At(p)]
    BY <1>1 DEF Operator
  <2>2. Taken(<<At(p)>>) = 1
    BY DEF Taken
  <2>3. At(p) \in Punchation
    BY DEF Punchation
  <2>4. Operator(p).text = <<At(p)>> /\ Operator(p).punc = At(p)
    BY <2>1
  <2>5. QED
    BY <2>2, <2>3, <2>4
<1>2. CASE long # {}
  <2>1. \E s \in long : \A t \in long : Len(t.text) <= Len(s.text)
    BY <1>2, SpellingSizes
  <2>2. PICK s \in long : Operator(p) = s
    BY <1>2, <2>1 DEF Operator
  <2>3. p + Len(s.text) <= Size
    BY DEF Spells
  <2>4. Taken(s.text) \in {Len(s.text), 3}
    BY DEF Taken
  <2>5. s \in Spelling /\ Len(s.text) \in {2, 3} /\ s.punc \in Punchation
    BY SpellingSizes
  <2>6. Taken(s.text) \in Nat \ {0} /\ p + Taken(s.text) <= Size + 1
    BY <2>3, <2>4, <2>5, PastTheEnd
  <2>7. QED
    BY <2>2, <2>5, <2>6
<1>3. QED
  BY <1>1, <1>2

-----------------------------------------------------------------------------
\* What any token that is found in a line leaves alone, and what it needs.
Found(p, q) ==
  /\ p \in Nat /\ p < Size
  /\ UNCHANGED <<lines, eof, failed, linebuf, line>>
  /\ \/ /\ outcome' = "reading"
        /\ q \in Nat /\ p <= q /\ q <= Size + 1
        /\ column' = q
        /\ token' \in Token /\ token'.line = line /\ token'.kind \notin {"none", "end"}
     \/ outcome' \in {"threw", "undefined"} /\ column' = p /\ UNCHANGED token

\* Where a token starts, and what finding one does not change.
LEMMA Here ==
  ASSUME TypeOK, NEW p \in column..MaxColumns, StartsAt(p)
  PROVE  /\ linebuf \in Text /\ Size \in Nat /\ line \in Nat
         /\ p \in Nat /\ p < Size /\ column <= p /\ column \in Nat
         /\ UNCHANGED <<lines, eof, failed, linebuf, line>> /\ outcome = "reading"
<1>1. Size \in Nat /\ MaxColumns \in Nat /\ MaxLines \in Nat
  BY Lines, BoundAssumption DEF TypeOK
<1>2. column \in Nat /\ line \in Nat
  BY <1>1 DEF TypeOK
<1>3. p \in Nat /\ column <= p
  BY <1>1, <1>2
<1>4. QED
  BY <1>1, <1>2, <1>3 DEF TypeOK, StartsAt

LEMMA PunctuationFinds ==
  ASSUME TypeOK, NEW p \in column..MaxColumns, Punctuation(p)
  PROVE  \E q : Found(p, q) /\ p < q
<1>1. linebuf \in Text /\ p \in Nat /\ p < Size /\ At(p) \in Punct /\ Size \in Nat /\ line \in Nat
  BY Here DEF Punctuation
<1> DEFINE op == Operator(p)  n == Taken(op.text)
<1>2. n \in Nat \ {0} /\ p + n <= Size + 1 /\ op.punc \in Punchation
  BY <1>1, OperatorTakes
<1>3. /\ column' = p + n
      /\ token' = [kind |-> "punc", punc |-> op.punc, line |-> line,
                   col |-> p + n, taken |-> n]
      /\ outcome' = "reading"
  BY DEF Punctuation, Returns, StartsAt
<1> HIDE DEF op, n
<1>4. token' \in Token
  <2>1. p + n \in Nat
    BY <1>1, <1>2
  <2>2. QED
    BY <1>1, <1>2, <1>3, <2>1 DEF Token, Kind
<1>5. UNCHANGED <<lines, eof, failed, linebuf, line>>
  BY DEF Punctuation, StartsAt
<1>6. Found(p, p + n) /\ p < p + n
  BY <1>1, <1>2, <1>3, <1>4, <1>5 DEF Found
<1>7. QED
  BY <1>6

\* A literal has a digit at least.
LEMMA LiteralsAreLonger ==
  ASSUME NEW p \in Nat, Size \in Nat, p < Size, At(p) \in Digit, NEW q \in LiteralEnds(p)
  PROVE  q \in Nat /\ p < q /\ q <= Size
<1>1. q \in p..Size
  BY DEF LiteralEnds
<1>2. PICK d \in p..Size :
        /\ Span(p, d, Digit)
        /\ q = d \/ q \in WidthEnds(d + 1) \/ q \in FractionEnds(d + 1)
  BY DEF LiteralEnds
<1>3. p # d
  BY <1>2 DEF Span
<1>4. q = d \/ q \in d + 1..Size
  BY <1>2 DEF WidthEnds, FractionEnds
<1>5. QED
  BY <1>1, <1>2, <1>3, <1>4

LEMMA LiteralFinds ==
  ASSUME TypeOK, NEW p \in column..MaxColumns, Literal(p)
  PROVE  \E q : Found(p, q) /\ (p < q \/ outcome' = "threw")
<1>1. linebuf \in Text /\ p \in Nat /\ p < Size /\ Size \in Nat /\ line \in Nat
  BY Here DEF Literal
<1>2. UNCHANGED <<lines, eof, failed, linebuf, line>> /\ outcome = "reading"
  BY DEF Literal, StartsAt
<1>3. CASE column' = p /\ outcome' = "threw" /\ UNCHANGED token
  BY <1>1, <1>2, <1>3 DEF Found
<1>4. ASSUME NEW q \in LiteralEnds(p), column' = q, UNCHANGED outcome,
             Returns("digit", "", line, p, q - p)
      PROVE  Found(p, q) /\ p < q
  <2>1. q \in Nat /\ p < q /\ q <= Size
    BY <1>1, <1>4, LiteralsAreLonger DEF Literal
  <2>2. token' \in Token /\ token'.line = line /\ token'.kind = "digit"
    <3>1. q - p \in Nat
      BY <1>1, <2>1
    <3>2. QED
      BY <1>1, <1>4, <3>1 DEF Returns, Token, Kind
  <2>3. p <= q /\ q <= Size + 1
    BY <1>1, <2>1
  <2>4. token'.kind \notin {"none", "end"}
    BY <2>2
  <2>5. QED
    BY <1>1, <1>2, <1>4, <2>1, <2>2, <2>3, <2>4 DEF Found
<1>5. QED
  BY <1>3, <1>4 DEF Literal

\* Every word that is returned is a keyword or an identifier.
LEMMA KindOfWord ==
  ASSUME NEW w PROVE KindOf(w) \in {"keyword", "identifier"}
  BY DEF KindOf

LEMMA WordAtLineEndFinds ==
  ASSUME TypeOK, NEW p \in column..MaxColumns, WordAtLineEnd(p)
  PROVE  \E q : Found(p, q) /\ p < q
<1>1. linebuf \in Text /\ p \in Nat /\ p < Size /\ Size \in Nat /\ line \in Nat
  BY Here DEF WordAtLineEnd
<1>2. UNCHANGED <<lines, eof, failed, linebuf, line>> /\ outcome = "reading"
  BY DEF WordAtLineEnd, StartsAt
<1>3. CASE Between(p, Size) \in Node
  <2>1. column' = Size /\ outcome' = "reading"
    BY <1>2, <1>3 DEF WordAtLineEnd
  <2>2. Returns(KindOf(Between(p, Size)), "", line, p, Size - p)
    BY <1>3 DEF WordAtLineEnd
  <2>3. token' \in Token /\ token'.line = line /\ token'.kind \in {"keyword", "identifier"}
    <3>1. Size - p \in Nat
      BY <1>1
    <3>2. QED
      BY <1>1, <2>2, <3>1, KindOfWord DEF Returns, Token, Kind
  <2>4. QED
    BY <1>1, <1>2, <2>1, <2>3 DEF Found
<1>4. CASE Between(p, Size) \notin Node
  <2>1. column' = p /\ outcome' = "undefined" /\ UNCHANGED token
    BY <1>4 DEF WordAtLineEnd
  <2>2. Found(p, p + 1)
    BY <1>1, <1>2, <2>1 DEF Found
  <2>3. QED
    BY <1>1, <2>2
<1>5. QED
  BY <1>3, <1>4

\* A word that stands before white space other than a blank may be empty.
LEMMA WordFinds ==
  ASSUME TypeOK, NEW p \in column..MaxColumns, Word(p)
  PROVE  \E q : Found(p, q) /\ (p < q \/ At(p) \in Space)
<1>1. linebuf \in Text /\ p \in Nat /\ p < Size /\ Size \in Nat /\ line \in Nat
  BY Here DEF Word
<1>2. UNCHANGED <<lines, eof, failed, linebuf, line>> /\ outcome = "reading" /\ outcome' = outcome
  BY DEF Word, StartsAt
<1>3. PICK k \in p..Size, q \in p..Size :
        /\ k < Size
        /\ WalkEnds(p, k)
        /\ Span(k, q, WordChar)
        /\ column' = q
        /\ Returns(KindOf(Between(p, k)), "", line, p, q - p)
  BY DEF Word
<1>4. k \in Nat /\ q \in Nat /\ p <= k /\ k <= q /\ q <= Size + 1 /\ q - p \in Nat
  <2>1. k \in p..Size /\ q \in p..Size
    OBVIOUS
  <2>2. q \in k..Size
    BY <1>3 DEF Span
  <2>3. QED
    BY <1>1, <2>1, <2>2
<1>5. token' \in Token /\ token'.line = line /\ token'.kind \in {"keyword", "identifier"}
  BY <1>1, <1>3, <1>4, KindOfWord DEF Returns, Token, Kind
<1>6. Found(p, q)
  <2>1. p <= q /\ token'.kind \notin {"none", "end"}
    BY <1>1, <1>4, <1>5
  <2>2. QED
    BY <1>1, <1>2, <1>3, <1>4, <1>5, <2>1 DEF Found
<1>7. CASE p = q
  <2>1. k = p
    BY <1>1, <1>4, <1>7
  <2>2. At(p) \notin WordChar
    BY <1>1, <1>3, <1>7, <2>1 DEF Span
  <2>3. At(p) \notin Punct \cup Digit /\ At(p) \notin Blank
    BY <1>1 DEF Word, StartsAt, Span
  <2>4. At(p) \in Char
    <3>1. linebuf[p + 1] \in Char
      BY <1>1, Lines DEF Size
    <3>2. QED
      BY <1>1, <3>1 DEF At
  <2>5. At(p) \in Space
    BY <2>2, <2>3, <2>4 DEF Char
  <2>6. QED
    BY <1>6, <2>5
<1>8. CASE p # q
  <2>1. p < q
    BY <1>1, <1>4, <1>8
  <2>2. QED
    BY <1>6, <2>1
<1>9. QED
  BY <1>7, <1>8

-----------------------------------------------------------------------------
\* A token in a line: the four actions that find one.
LEMMA AnyFinds ==
  ASSUME TypeOK, NEW p \in column..MaxColumns,
         Punctuation(p) \/ Literal(p) \/ WordAtLineEnd(p) \/ Word(p)
  PROVE  \E q : Found(p, q)
  BY PunctuationFinds, LiteralFinds, WordAtLineEndFinds, WordFinds

\* A line break: what is read, and what is reported.
LEMMA LineEnds ==
  ASSUME IInv, EndOfLine
  PROVE  IInv'
<1>1. MaxLines \in Nat /\ lines \in 0..MaxLines /\ line \in Nat /\ line + 1 \in 1..MaxLines + 2
  <2>1. MaxLines \in Nat /\ lines \in 0..MaxLines /\ line \in 1..MaxLines + 2
    BY BoundAssumption DEF IInv, TypeOK
  <2>2. line < MaxLines + 2
    BY DEF EndOfLine
  <2>3. QED
    BY <2>1, <2>2
<1>2. line' = line + 1 /\ column' = 0 /\ outcome' = outcome
  BY DEF EndOfLine
<1>3. token' = [kind |-> IF ~eof' \/ linebuf' # <<>> THEN "enter" ELSE "end",
                punc |-> "", line |-> line', col |-> 0, taken |-> 0]
  BY DEF EndOfLine, Returns
<1>4. token' \in Token /\ token'.line = line' /\ token'.kind \in {"enter", "end"}
  <2>1. token'.kind \in {"enter", "end"}
    BY <1>3
  <2>2. line' \in Nat
    BY <1>1, <1>2
  <2>3. "" \in Punchation \cup {""} /\ 0 \in Nat /\ {"enter", "end"} \subseteq Kind
    BY DEF Kind
  <2>4. QED
    BY <1>3, <2>1, <2>2, <2>3 DEF Token
<1>5. <<>> \in Text
  BY BoundAssumption DEF Text
<1>6. linebuf' \in Text /\ eof' \in BOOLEAN /\ failed' \in BOOLEAN /\ lines' \in 0..MaxLines
  <2>0. eof \in BOOLEAN /\ failed \in BOOLEAN
    BY DEF IInv, TypeOK
  <2>1. CASE ReadLine
    <3>1. linebuf' \in Text /\ eof' \in BOOLEAN /\ failed' \in BOOLEAN
      BY <2>0, <2>1 DEF ReadLine
    <3>2. lines' = lines + 1 /\ lines < MaxLines
      BY <2>1 DEF ReadLine
    <3>3. QED
      BY <1>1, <3>1, <3>2
  <2>2. CASE NoMoreLines
    BY <1>1, <1>5, <2>0, <2>2 DEF NoMoreLines
  <2>3. CASE Fails
    BY <1>1, <1>5, <2>0, <2>3 DEF Fails
  <2>4. QED
    BY <2>1, <2>2, <2>3 DEF EndOfLine, NextLine
<1>7. Size' \in Nat
  BY <1>6, BoundAssumption DEF Text, Size
<1>8. TypeOK'
  <2>1. line' \in 1..MaxLines + 2 /\ column' \in 0..Size' + 1
    <3>1. \A n \in Nat : 0 \in 0..n + 1
      OBVIOUS
    <3>2. QED
      BY <1>1, <1>2, <1>7, <3>1
  <2>2. outcome' \in {"reading", "threw", "undefined"}
    BY <1>2 DEF IInv, TypeOK
  <2>3. QED
    BY <1>4, <1>6, <2>1, <2>2 DEF TypeOK
<1>9. CASE ReadLine
  <2>1. token.kind # "end" /\ lines # 0 /\ ~failed /\ ~failed'
    BY <1>9 DEF ReadLine, IInv, Counted, EndOfSource
  <2>2. line = lines
    BY <2>1 DEF IInv, Counted, LinesAreCounted
  <2>3. lines' = lines + 1 /\ lines' # 0
    BY <1>1, <1>9, <2>1 DEF ReadLine
  <2>4. token'.kind = "enter"
    BY <1>3, <1>9 DEF ReadLine
  <2>5. QED
    BY <1>2, <1>4, <1>8, <2>1, <2>2, <2>3, <2>4
       DEF IInv, Counted, LinesAreCounted, EndOfSource
<1>10. CASE NoMoreLines
  <2>1. token'.kind = "end"
    BY <1>3, <1>10 DEF NoMoreLines
  <2>2. QED
    BY <1>2, <1>4, <1>8, <1>10, <2>1
       DEF IInv, Counted, LinesAreCounted, EndOfSource, NoMoreLines
<1>11. CASE Fails
  <2>1. token'.kind = "enter" /\ failed'
    <3>1. ~eof' /\ failed'
      BY <1>11 DEF Fails
    <3>2. QED
      BY <1>3, <3>1
  <2>2. QED
    BY <1>4, <1>8, <2>1 DEF IInv, Counted, LinesAreCounted, EndOfSource
<1>12. QED
  BY <1>9, <1>10, <1>11 DEF EndOfLine, NextLine

\* A token found in a line.
LEMMA TokenFound ==
  ASSUME IInv, NEW p, NEW q, Found(p, q)
  PROVE  IInv'
<1>1. TypeOK /\ Size \in Nat /\ Size' = Size
  BY Lines DEF IInv, TypeOK, Found, Size
<1>2. column' \in 0..Size' + 1 /\ token' \in Token
  BY <1>1 DEF Found, TypeOK
<1>3. TypeOK'
  BY <1>1, <1>2 DEF Found, TypeOK
<1>4. linebuf # <<>>
  BY DEF Found, Size
<1>5. token.kind # "end" /\ token'.kind # "end"
  BY <1>4 DEF IInv, Counted, EndOfSource, Found
<1>6. QED
  BY <1>3, <1>5 DEF IInv, Counted, LinesAreCounted, EndOfSource, Found

LEMMA Initially == Init => IInv
<1> SUFFICES ASSUME Init PROVE IInv
  OBVIOUS
<1>1. MaxLines \in Nat /\ <<>> \in Text
  BY BoundAssumption DEF Text
<1>2. /\ linebuf \in Text /\ lines \in 0..MaxLines
      /\ eof \in BOOLEAN /\ failed \in BOOLEAN
      /\ lines = 0 => (eof = TRUE \/ failed = TRUE)
  <2>1. CASE /\ MaxLines > 0 /\ lines = 1
             /\ linebuf \in Text
             /\ eof \in IF linebuf = <<>> THEN {FALSE} ELSE BOOLEAN
             /\ failed = FALSE
    <3>1. eof \in BOOLEAN
      BY <2>1
    <3>2. 1 \in 0..MaxLines /\ lines # 0
      BY <1>1, <2>1
    <3>3. failed \in BOOLEAN
      BY <2>1, Zenon
    <3>4. QED
      BY <2>1, <3>1, <3>2, <3>3, Zenon
  <2>2. CASE lines = 0 /\ linebuf = <<>> /\ eof = TRUE /\ failed = FALSE
    <3>1. 0 \in 0..MaxLines
      BY <1>1
    <3>2. QED
      BY <1>1, <2>2, <3>1, Zenon
  <2>3. CASE lines = 0 /\ linebuf \in Text /\ eof = FALSE /\ failed = TRUE
    <3>1. 0 \in 0..MaxLines
      BY <1>1
    <3>2. QED
      BY <2>3, <3>1, Zenon
  <2>4. QED
    BY <2>1, <2>2, <2>3 DEF Init
<1>3. Size \in Nat
  BY <1>2, Lines
<1>4. column = 0 /\ line = 1 /\ outcome = "reading" /\ token.kind = "none"
  BY DEF Init
<1>5. token \in Token
  <2>1. token = [kind |-> "none", punc |-> "", line |-> 0, col |-> 0, taken |-> 0]
    BY DEF Init
  <2>2. "" \in Punchation \cup {""} /\ 0 \in Nat /\ "none" \in Kind
    BY DEF Kind
  <2>3. QED
    BY <2>1, <2>2 DEF Token
<1>6. line \in 1..MaxLines + 2 /\ column \in 0..Size + 1
  BY <1>1, <1>3, <1>4
<1>7. TypeOK
  BY <1>2, <1>4, <1>5, <1>6 DEF TypeOK
<1>8. LinesAreCounted
  <2>1. lines = 0 \/ lines = 1
    BY DEF Init
  <2>2. QED
    BY <1>4, <2>1 DEF LinesAreCounted
<1>9. QED
  BY <1>2, <1>4, <1>7, <1>8 DEF IInv, Counted, EndOfSource

LEMMA Inductive == IInv /\ [get_next_token]_vars => IInv'
<1> SUFFICES ASSUME IInv, [get_next_token]_vars PROVE IInv'
  OBVIOUS
<1>1. CASE EndOfLine
  BY <1>1, LineEnds
<1>2. ASSUME NEW p \in column..MaxColumns,
             Punctuation(p) \/ Literal(p) \/ WordAtLineEnd(p) \/ Word(p)
      PROVE  IInv'
  BY <1>2, AnyFinds, TokenFound DEF IInv
<1>3. CASE UNCHANGED vars
  BY <1>3 DEF vars, IInv, TypeOK, Counted, LinesAreCounted, EndOfSource, Size
<1>4. QED
  BY <1>1, <1>2, <1>3 DEF get_next_token

\* The numbers of the lines and the end of the source are reported as they
\* are, whatever the source text.
THEOREM Invariance == Spec => []IInv
  BY Initially, Inductive, PTL DEF Spec

\* The state of the lexer keeps its type; the column runs past the line by
\* one at most.
THEOREM LexerStaysTyped == Spec => []TypeOK
<1>1. IInv => TypeOK
  BY DEF IInv
<1>2. QED
  BY <1>1, Invariance, PTL

\* Every token carries the number of its line.
THEOREM LinesStayCounted == Spec => []LinesAreCounted
<1>1. IInv => LinesAreCounted
  BY DEF IInv, Counted
<1>2. QED
  BY <1>1, Invariance, PTL

\* The end is reported when nothing is left, and never before.
THEOREM EndIsTheEnd == Spec => []EndOfSource
<1>1. IInv => EndOfSource
  BY DEF IInv, Counted
<1>2. QED
  BY <1>1, Invariance, PTL

-----------------------------------------------------------------------------
\* parse() cannot be kept for ever where it is, except at white space that is
\* no blank, and by line breaks once the stream has failed before its end.
THEOREM CallsGetOn == Spec => Progress
<1>1. ASSUME IInv, EndOfLine PROVE GetsOn
  <2>1. CASE ReadLine
    <3>1. lines \in Nat /\ lines' = lines + 1
      BY <1>1, <2>1, BoundAssumption DEF IInv, TypeOK, ReadLine
    <3>2. QED
      BY <3>1 DEF GetsOn
  <2>2. CASE NoMoreLines
    BY <1>1, <2>2 DEF EndOfLine, NoMoreLines, Returns, GetsOn
  <2>3. CASE Fails
    <3>1. token'.kind = "enter"
      BY <1>1, <2>3 DEF EndOfLine, Fails, Returns
    <3>2. QED
      BY <2>3, <3>1 DEF Fails, GetsOn
  <2>4. QED
    BY <1>1, <2>1, <2>2, <2>3 DEF EndOfLine, NextLine
<1>2. ASSUME IInv, NEW p \in column..MaxColumns, NEW q, Found(p, q), p < q
      PROVE  GetsOn
  <2>1. column \in Nat
    BY <1>2, Lines DEF IInv, TypeOK
  <2>2. column' = q \/ outcome' # "reading"
    BY <1>2 DEF Found
  <2>3. q \in Nat \/ outcome' # "reading"
    BY <1>2 DEF Found
  <2>4. column <= p /\ p \in Nat
    BY <1>2, <2>1 DEF Found
  <2>5. QED
    BY <1>2, <2>1, <2>2, <2>3, <2>4 DEF GetsOn
<1>3. ASSUME IInv, NEW p \in column..MaxColumns, Literal(p)
      PROVE  GetsOn
  <2>1. CASE outcome' = "threw"
    BY <2>1 DEF GetsOn
  <2>2. CASE outcome' # "threw"
    BY <1>2, <1>3, <2>2, LiteralFinds DEF IInv
  <2>3. QED
    BY <2>1, <2>2
<1>4. ASSUME IInv, NEW p \in column..MaxColumns, Word(p)
      PROVE  GetsOn
  <2>1. PICK q : Found(p, q) /\ (p < q \/ At(p) \in Space)
    BY <1>4, WordFinds DEF IInv
  <2>2. CASE p < q
    BY <1>2, <1>4, <2>1, <2>2
  <2>3. CASE ~(p < q)
    <3>1. p = q \/ outcome' # "reading"
      BY <2>1, <2>3 DEF Found
    <3>2. column' = p \/ outcome' # "reading"
      BY <2>1, <3>1 DEF Found
    <3>3. QED
      BY <2>1, <2>3, <3>2 DEF GetsOn
  <2>4. QED
    BY <2>2, <2>3
<1>5. ASSUME IInv, NEW p \in column..MaxColumns, Punctuation(p) \/ WordAtLineEnd(p)
      PROVE  GetsOn
  BY <1>2, <1>5, PunctuationFinds, WordAtLineEndFinds DEF IInv
<1>6. IInv /\ [get_next_token]_vars => [GetsOn]_vars
  BY <1>1, <1>3, <1>4, <1>5 DEF get_next_token
<1>7. QED
  BY <1>6, Invariance, PTL DEF Spec, Progress

-----------------------------------------------------------------------------
(* What a token is made of. *)

\* A stretch of a line, character by character.
LEMMA Stretches ==
  ASSUME linebuf \in Text, NEW i \in Nat, NEW j \in i..Size
  PROVE  /\ Between(i, j) \in Seq(Char) /\ Len(Between(i, j)) = j - i
         /\ \A n \in 1..j - i : Between(i, j)[n] = At(i + n - 1)
         /\ j \in Nat /\ j - i \in Nat
<1>1. Size \in Nat /\ linebuf \in Seq(Char) /\ Size = Len(linebuf)
  BY Lines DEF Size
<1>2. j \in Nat /\ i <= j /\ j <= Size /\ j - i \in Nat
  BY <1>1
<1>3. Between(i, j) \in Seq(Char) /\ Len(Between(i, j)) = j - i
  BY <1>1, <1>2 DEF Between
<1>4. ASSUME NEW n \in 1..j - i
      PROVE  Between(i, j)[n] = At(i + n - 1)
  <2>1. i + n - 1 < Size /\ i + n - 1 + 1 = i + n
    BY <1>1, <1>2
  <2>2. Between(i, j)[n] = linebuf[i + n]
    BY <1>1, <1>2 DEF Between
  <2> QED BY <2>1, <2>2 DEF At
<1> QED BY <1>2, <1>3, <1>4

\* A stretch that spells a word, and one that begins it.
LEMMA Spelled ==
  ASSUME linebuf \in Text, NEW i \in Nat, NEW w \in Seq(Char), Spells(i, w),
         NEW k \in i..i + Len(w)
  PROVE  /\ i + Len(w) <= Size /\ k \in i..Size
         /\ k < i + Len(w) => At(k) = w[k - i + 1] /\ k - i + 1 \in 1..Len(w)
         /\ Between(i, k) = SubSeq(w, 1, k - i)
<1>1. Size \in Nat /\ Len(w) \in Nat /\ i + Len(w) <= Size /\ k \in i..Size /\ k \in Nat
  BY Lines DEF Spells
<1>2. Between(i, i + Len(w)) = w
  BY DEF Spells
<1>3. i + Len(w) \in i..Size /\ i + Len(w) - i = Len(w)
  BY <1>1
<1>4. \A n \in 1..Len(w) : w[n] = At(i + n - 1)
  <2> DEFINE e == i + Len(w)
  <2>1. e \in i..Size /\ e - i = Len(w) /\ Between(i, e) = w
    BY <1>2, <1>3
  <2> HIDE DEF e
  <2>2. \A n \in 1..e - i : Between(i, e)[n] = At(i + n - 1)
    BY <2>1, Stretches
  <2> QED BY <2>1, <2>2
<1>5. k < i + Len(w) => At(k) = w[k - i + 1] /\ k - i + 1 \in 1..Len(w)
  <2>1. k < i + Len(w) => k - i + 1 \in 1..Len(w) /\ i + (k - i + 1) - 1 = k
    BY <1>1
  <2> QED BY <1>4, <2>1
<1>6. Between(i, k) = SubSeq(w, 1, k - i)
  <2> DEFINE u == Between(i, k)  v == SubSeq(w, 1, k - i)
  <2>1. u \in Seq(Char) /\ Len(u) = k - i /\ \A n \in 1..k - i : u[n] = At(i + n - 1)
    BY <1>1, Stretches
  <2>2. v \in Seq(Char) /\ Len(v) = k - i /\ \A n \in 1..k - i : v[n] = w[n]
    BY <1>1
  <2>3. \A n \in 1..k - i : n \in 1..Len(w)
    BY <1>1
  <2> HIDE DEF u, v
  <2>4. \A n \in 1..Len(u) : u[n] = v[n]
    BY <1>4, <2>1, <2>2, <2>3
  <2>5. u = v
    BY <2>1, <2>2, <2>4
  <2> QED BY <2>5 DEF u, v
<1> QED BY <1>1, <1>5, <1>6

LEMMA NulIsNoLetter == "\\0" \notin Letter
  BY CharAssumption, Zenon

\* The walk in the trie: what it returns is a keyword exactly if a keyword is
\* spelled there that no letter follows.
LEMMA WalksFindKeywords ==
  ASSUME linebuf \in Text, NEW i \in Nat, NEW k, WalkEnds(i, k)
  PROVE  Between(i, k) \in Keywords
           <=> \E w \in Keywords : Spells(i, w) /\ At(i + Len(w)) \notin Letter
<1>1. Size \in Nat /\ k \in i..Size /\ k \in Nat /\ i <= k /\ k <= Size
  BY Lines DEF WalkEnds
<1>2. Len(Between(i, k)) = k - i /\ Between(i, k) \in Seq(Char)
  BY <1>1, Stretches
<1>3. ASSUME Between(i, k) \in Keywords
      PROVE  \E w \in Keywords : Spells(i, w) /\ At(i + Len(w)) \notin Letter
  <2> DEFINE w == Between(i, k)
  <2>1. i + Len(w) = k
    BY <1>1, <1>2
  <2>2. Spells(i, w)
    BY <1>1, <2>1 DEF Spells
  <2>3. w # <<>> /\ SubSeq(w, 1, Len(w)) = w
    BY <1>2, <1>3, WordAssumption
  <2>4. Len(w) \in 1..Len(w)
    BY <1>2, <2>3
  <2>5. w \in Node
    <3>1. w \in {SubSeq(w, 1, n) : n \in 1..Len(w)}
      BY ONLY <2>3, <2>4
    <3> QED BY <1>3, <3>1, Zenon DEF Node
  <2>6. At(k) \notin Letter
    <3>1. k < Size => At(k) \notin Letter
      BY <2>5, Zenon DEF WalkEnds
    <3>2. ~(k < Size) => At(k) \notin Letter
      BY NulIsNoLetter DEF At
    <3> QED BY <3>1, <3>2
  <2> QED BY <1>3, <2>1, <2>2, <2>6
<1>4. ASSUME NEW w \in Keywords, Spells(i, w), At(i + Len(w)) \notin Letter
      PROVE  Between(i, k) \in Keywords
  <2>1. w \in Seq(Char) /\ w \in Seq(Letter) /\ Len(w) \in Nat /\ w # <<>>
    <3>1. Letter \subseteq Char
      BY Zenon DEF Char, WordChar
    <3> QED BY <3>1, WordAssumption
  <2>2. i + Len(w) <= Size /\ Between(i, i + Len(w)) = w
    BY <1>4 DEF Spells
  <2>3. ~(i + Len(w) < k)
    <3>1. SUFFICES ASSUME i + Len(w) < k PROVE FALSE
      OBVIOUS
    <3>2. i + Len(w) \in i..k - 1
      BY <1>1, <2>1, <3>1
    <3> QED BY <1>4, <3>2 DEF WalkEnds
  <2>4. ~(k < i + Len(w))
    <3>1. SUFFICES ASSUME k < i + Len(w) PROVE FALSE
      OBVIOUS
    <3>2. k \in i..i + Len(w) /\ k < Size
      BY <1>1, <2>1, <2>2, <3>1
    <3>3. At(k) = w[k - i + 1] /\ k - i + 1 \in 1..Len(w) /\ Between(i, k) = SubSeq(w, 1, k - i)
      BY <1>4, <2>1, <3>1, <3>2, Spelled
    <3>4. At(k) \in Letter
      BY <2>1, <3>3
    <3>5. Between(i, k) \in Node
      <4>1. CASE k = i
        <5>1. Between(i, k) = <<>>
          BY <1>2, <4>1
        <5> QED BY <5>1 DEF Node
      <4>2. CASE k # i
        <5>1. k - i \in 1..Len(w)
          BY <1>1, <2>1, <3>2, <4>2
        <5> QED BY <3>3, <5>1 DEF Node
      <4> QED BY <4>1, <4>2
    <3> QED BY <3>2, <3>4, <3>5 DEF WalkEnds
  <2>5. k = i + Len(w)
    BY <1>1, <2>1, <2>3, <2>4
  <2> QED BY <2>2, <2>5
<1> QED BY <1>3, <1>4

-----------------------------------------------------------------------------
(* Null nodes. *)

\* The word w leaves the trie with its last letter.
OffWord(w) ==
  /\ w \in Seq(Letter)
  /\ \A k \in Keywords : ~IsPrefix(w, k)
  /\ Len(w) > 1 => \E k \in Keywords : IsPrefix(Front(w), k)

\* A walk that ends with the line, on no node of the trie: the word leaves the trie
\* with its last letter.
LEMMA OffTheTrie ==
  ASSUME linebuf \in Text, NEW i \in Nat, i < Size, WalkEnds(i, Size), Between(i, Size) \notin Node
  PROVE  OffWord(Between(i, Size))
<1> DEFINE word == Between(i, Size)
<1>1. Size \in Nat /\ Size \in i..Size
  BY Lines DEF WalkEnds
<1>2. /\ word \in Seq(Char) /\ Len(word) = Size - i /\ Size - i \in Nat
      /\ \A n \in 1..Size - i : word[n] = At(i + n - 1)
  BY <1>1, Stretches
<1>3. \A j \in i..Size - 1 : At(j) \in Letter /\ Between(i, j) \in Node
  BY DEF WalkEnds
<1>4. word \notin Node
  OBVIOUS
<1>5. word \in Seq(Letter)
  <2>1. \A n \in 1..Size - i : i + n - 1 \in i..Size - 1
    BY <1>1
  <2>2. \A n \in 1..Len(word) : word[n] \in Letter
    BY <1>2, <1>3, <2>1
  <2> QED BY <1>2, <2>2
<1>6. word # <<>> /\ Len(word) \in 1..Len(word)
  BY <1>1, <1>2
<1>7. ASSUME NEW w \in Keywords, IsPrefix(word, w) PROVE FALSE
  <2>1. Len(word) <= Len(w) /\ SubSeq(word, 1, Len(word)) = SubSeq(w, 1, Len(word))
    BY <1>7 DEF IsPrefix
  <2>2. w \in Seq(Letter) /\ Len(w) \in Nat
    BY WordAssumption
  <2>3. SubSeq(word, 1, Len(word)) = word
    BY <1>2
  <2> HIDE DEF word
  <2>4. Len(word) \in 1..Len(w) /\ word = SubSeq(w, 1, Len(word))
    BY <1>2, <1>6, <2>1, <2>2, <2>3
  <2>5. word \in {SubSeq(w, 1, n) : n \in 1..Len(w)}
    BY <2>4
  <2> QED BY <1>4, <1>7, <2>5, Zenon DEF Node
<1>8. ASSUME Len(word) > 1 PROVE \E w \in Keywords : IsPrefix(Front(word), w)
  <2> DEFINE front == Between(i, Size - 1)
  <2>1. Size - 1 \in i..Size /\ Size - 1 \in i..Size - 1 /\ Len(word) - 1 = Size - 1 - i /\ Size - 1 - i \in 1..Size - i
    BY <1>1, <1>2, <1>8
  <2>2. front \in Node /\ front \in Seq(Char) /\ Len(front) = Size - 1 - i
    BY <1>3, <2>1, Stretches
  <2>3. Spells(i, word)
    BY <1>1, <1>2 DEF Spells
  <2>4. front = SubSeq(word, 1, Len(word) - 1)
    <3>1. Size - 1 \in i..i + Len(word)
      BY <1>1, <1>2, <2>1
    <3>2. front = SubSeq(word, 1, Size - 1 - i)
      <4> DEFINE k == Size - 1
      <4>1. k \in i..i + Len(word)
        BY <3>1
      <4> HIDE DEF k, word
      <4>2. Between(i, k) = SubSeq(word, 1, k - i)
        BY <1>2, <2>3, <4>1, Spelled
      <4> QED BY <4>2 DEF k
    <3> QED BY <2>1, <3>2
  <2>5. front = Front(word)
    BY <2>4, Zenon DEF Front
  <2>6. front # <<>>
    BY <2>1, <2>2
  <2> HIDE DEF front, word
  <2>6a. PICK w \in Keywords : front \in {SubSeq(w, 1, n) : n \in 1..Len(w)}
    BY <2>2, <2>6, Zenon DEF Node
  <2>7. PICK n \in 1..Len(w) : front = SubSeq(w, 1, n)
    BY <2>6a
  <2>8. w \in Seq(Letter) /\ Len(w) \in Nat
    BY WordAssumption
  <2>9. Len(front) = n /\ n <= Len(w)
    BY <2>7, <2>8
  <2>10. SubSeq(front, 1, n) = front
    BY <2>2, <2>9
  <2>11. IsPrefix(front, w)
    BY <2>7, <2>9, <2>10 DEF IsPrefix
  <2> QED BY <2>5, <2>11
<1> QED BY <1>5, <1>7, <1>8 DEF OffWord

Off == outcome = "undefined" => OffWord(Between(column, Size))

\* get_next_token meets a null node of the trie only at the end of a line, with a word
\* that leaves the trie with its last letter.
THEOREM NullNodesAreOffTheTrie == Spec => []UndefinedOnlyOffTheTrie
<1>1. Init => Off
  BY DEF Init, Off
<1>2. ASSUME IInv, Off, [get_next_token]_vars
      PROVE  Off'
  <2>1. CASE UNCHANGED vars
    <3>1. Between(column, Size)' = Between(column, Size) /\ outcome' = outcome
      BY <2>1 DEF vars, Between, Size
    <3> QED BY <1>2, <3>1, Zenon DEF Off
  <2>2. CASE outcome' # "undefined"
    BY <2>2 DEF Off
  <2>3. ASSUME NEW p \in column..MaxColumns, WordAtLineEnd(p), outcome' = "undefined"
        PROVE  Off'
    <3>1. linebuf \in Text /\ p \in Nat /\ p < Size /\ outcome = "reading" /\ linebuf' = linebuf
      BY <1>2, <2>3, Here DEF WordAtLineEnd, IInv
    <3>2. Between(p, Size) \notin Node /\ column' = p /\ WalkEnds(p, Size)
      BY <2>3, <3>1, Zenon DEF WordAtLineEnd
    <3>3. Between(column, Size)' = Between(p, Size)
      BY <3>1, <3>2 DEF Between, Size
    <3>4. OffWord(Between(p, Size))
      BY <3>1, <3>2, OffTheTrie
    <3> QED BY <3>3, <3>4, Zenon DEF Off
  <2>4. ASSUME NEW p \in column..MaxColumns, Punctuation(p) \/ Literal(p) \/ Word(p)
        PROVE  outcome' # "undefined"
    <3>1. outcome' = "threw" \/ outcome' = "reading"
      BY <2>4, Zenon DEF Punctuation, Literal, Word, StartsAt
    <3> QED BY <3>1
  <2>5. ASSUME EndOfLine PROVE outcome' # "undefined"
    <3>1. outcome' = "reading"
      BY <2>5, Zenon DEF EndOfLine
    <3> QED BY <3>1
  <2> QED BY <1>2, <2>1, <2>2, <2>3, <2>4, <2>5 DEF get_next_token
<1>3. Off => UndefinedOnlyOffTheTrie
  BY Zenon DEF Off, OffWord, UndefinedOnlyOffTheTrie
<1> QED BY <1>1, <1>2, <1>3, Invariance, PTL DEF Spec

-----------------------------------------------------------------------------
(* Tokens. *)

\* The longest spelling is taken, and "-=" as SUB with a third character.
LEMMA OperatorSpells ==
  ASSUME NEW p
  PROVE  \/ /\ Operator(p).punc = At(p) /\ Taken(Operator(p).text) = 1
            /\ \A t \in Spelling : ~Spells(p, t.text)
         \/ \E s \in Spelling :
              /\ Operator(p).punc = s.punc /\ Spells(p, s.text)
              /\ \A t \in Spelling : Spells(p, t.text) => Len(t.text) <= Len(s.text)
              /\ \/ Taken(Operator(p).text) = Len(s.text)
                 \/ /\ Spells(p, <<"-", "=">>) /\ s.punc = "-"
                    /\ Taken(Operator(p).text) = 3
<1> DEFINE long == {s \in Spelling : Spells(p, s.text)}
<1>1. CASE long = {}
  <2>1. Operator(p) = [text |-> <<At(p)>>, punc |-> At(p)]
    BY <1>1 DEF Operator
  <2>2. Taken(<<At(p)>>) = 1
    BY DEF Taken
  <2>3. Operator(p).text = <<At(p)>> /\ Operator(p).punc = At(p)
    BY <2>1
  <2> QED BY <1>1, <2>2, <2>3
<1>2. CASE long # {}
  <2>1. \E s \in long : \A t \in long : Len(t.text) <= Len(s.text)
    <3>1. \A t \in long : Len(t.text) \in {2, 3}
      BY SpellingSizes
    <3> HIDE DEF long
    <3>2. CASE \E s \in long : Len(s.text) = 3
      BY <3>1, <3>2
    <3>3. CASE \A s \in long : Len(s.text) # 3
      BY <1>2, <3>1, <3>3
    <3> QED BY <3>2, <3>3
  <2>2. PICK s \in long : Operator(p) = s /\ \A t \in long : Len(t.text) <= Len(s.text)
    BY <1>2, <2>1 DEF Operator
  <2>3. s \in Spelling /\ Spells(p, s.text)
    OBVIOUS
  <2>4. \A t \in Spelling : Spells(p, t.text) => Len(t.text) <= Len(s.text)
    BY <2>2
  <2>5. Taken(s.text) = Len(s.text) \/ (s.text = <<"-", "=">> /\ Taken(s.text) = 3)
    BY DEF Taken
  <2>6. s.text = <<"-", "=">> => s.punc = "-"
    BY <2>3 DEF Spelling
  <2> HIDE DEF long
  <2> QED BY <2>2, <2>3, <2>4, <2>5, <2>6
<1> QED BY <1>1, <1>2

\* Where a token in a line starts.
LEMMA Starts ==
  ASSUME TypeOK, NEW p \in column..MaxColumns, StartsAt(p),
         column' \in Nat, token'.taken = column' - p
  PROVE  Start = p /\ \A i \in column..Start - 1 : At(i) \in Blank
<1>1. p \in Nat
  BY Here
<1>2. column' - (column' - p) = p
  <2>1. \A a, b \in Nat : a - (a - b) = b
    OBVIOUS
  <2> QED BY <1>1, <2>1, Zenon
<1>3. Start = p
  BY <1>2 DEF Start
<1>4. \A i \in column..p - 1 : At(i) \in Blank
  BY DEF StartsAt, Span
<1> QED BY <1>3, <1>4

LEMMA OperatorsAreWhole ==
  ASSUME TypeOK, NEW p \in column..MaxColumns, Punctuation(p)
  PROVE  LosesNothing /\ IsWhole /\ IsRecognised
<1> DEFINE n == Taken(Operator(p).text)
<1>1. linebuf \in Text /\ p \in Nat /\ p < Size /\ At(p) \in Punct /\ Size \in Nat /\ StartsAt(p)
  BY Here DEF Punctuation
<1>2. n \in Nat \ {0}
  BY <1>1, OperatorTakes
<1>3. /\ column' = p + n
      /\ token' = [kind |-> "punc", punc |-> Operator(p).punc, line |-> line,
                   col |-> p + n, taken |-> n]
  BY DEF Punctuation, Returns
<1>4. token'.kind = "punc" /\ token'.punc = Operator(p).punc /\ token'.taken = n
  BY <1>3
<1> HIDE DEF n
<1>5. column' \in Nat /\ column' - p = n
  BY <1>1, <1>2, <1>3
<1>6. Start = p /\ \A i \in column..Start - 1 : At(i) \in Blank
  BY <1>1, <1>3, <1>4, <1>5, Starts
<1>7. CASE Operator(p).punc = At(p) /\ n = 1 /\ \A t \in Spelling : ~Spells(p, t.text)
  <2>1. column' <= Size
    BY <1>1, <1>3, <1>7
  <2>2. LosesNothing
    BY <1>1, <1>4, <1>5, <1>6, <1>7, <2>1 DEF LosesNothing
  <2>3. IsWhole
    BY <1>4, <1>6, <1>7 DEF IsWhole
  <2>4. IsRecognised
    BY <1>4 DEF IsRecognised
  <2> QED BY <2>2, <2>3, <2>4
<1>8. ASSUME NEW s \in Spelling, Operator(p).punc = s.punc, Spells(p, s.text),
             \A t \in Spelling : Spells(p, t.text) => Len(t.text) <= Len(s.text),
             n = Len(s.text) \/ (Spells(p, <<"-", "=">>) /\ s.punc = "-" /\ n = 3)
      PROVE  LosesNothing /\ IsWhole /\ IsRecognised
  <2>1. Len(s.text) \in {2, 3} /\ Len(s.text) <= n
    <3>1. Len(s.text) \in {2, 3}
      BY SpellingSizes
    <3>2. n = Len(s.text) \/ n = 3
      BY <1>8
    <3>3. \A a \in {2, 3} : \A b : b = a \/ b = 3 => a <= b
      OBVIOUS
    <3> QED BY <3>1, <3>2, <3>3, Zenon
  <2>2. column' > Size => token'.punc = "-"
    <3>1. n = Len(s.text) => column' <= Size
      BY <1>3, <1>8 DEF Spells
    <3>2. column' \in Nat /\ Size \in Nat
      BY <1>1, <1>5
    <3> QED BY <1>4, <1>8, <3>1, <3>2
  <2>3. LosesNothing
    BY <1>4, <1>6, <1>8, <2>2 DEF LosesNothing
  <2>4. \A t \in Spelling : Spells(Start, t.text) => Len(t.text) <= n
    BY <1>2, <1>6, <1>8, <2>1, SpellingSizes
  <2>5. IsWhole
    BY <1>4, <2>4 DEF IsWhole
  <2>6. IsRecognised
    BY <1>4 DEF IsRecognised
  <2> QED BY <2>3, <2>5, <2>6
<1> QED BY <1>7, <1>8, OperatorSpells DEF n

LEMMA LiteralsAreWhole ==
  ASSUME TypeOK, NEW p \in column..MaxColumns, Literal(p)
  PROVE  LosesNothing /\ IsWhole /\ IsRecognised
<1>1. linebuf \in Text /\ p \in Nat /\ p < Size /\ At(p) \in Digit /\ Size \in Nat /\ StartsAt(p)
  BY Here DEF Literal
<1>2. CASE outcome' = "threw"
  BY <1>2 DEF LosesNothing, IsWhole, IsRecognised, InLine
<1>3. ASSUME NEW q \in LiteralEnds(p), column' = q, Returns("digit", "", line, p, q - p)
      PROVE  LosesNothing /\ IsWhole /\ IsRecognised
  <2>1. q \in Nat /\ q <= Size
    BY <1>1, LiteralsAreLonger
  <2>2. token'.kind = "digit" /\ token'.taken = q - p /\ column' = q
    BY <1>3 DEF Returns
  <2>3. Start = p /\ \A i \in column..Start - 1 : At(i) \in Blank
    BY <1>1, <2>1, <2>2, Starts
  <2>4. \E i \in Nat : Span(i, q, Digit)
    <3>1. ASSUME NEW d, q \in WidthEnds(d) PROVE \E i \in d..Size + 1 : Span(i, q, Digit)
      <4>1. PICK b, s \in d..Size : s = (IF At(b) = "+" THEN b + 1 ELSE b) /\ Span(s, q, Digit)
        BY <3>1 DEF WidthEnds
      <4> QED BY <1>1, <4>1
    <3>2. ASSUME NEW d \in Nat, q \in WidthEnds(d) PROVE \E i \in Nat : Span(i, q, Digit)
      BY <1>1, <3>1, <3>2
    <3>3. ASSUME NEW d \in Nat, q \in FractionEnds(d) PROVE \E i \in Nat : Span(i, q, Digit)
      <4>1. PICK e \in d..Size : Span(d, e, Digit) /\ (q = e \/ q \in WidthEnds(e + 1))
        BY <3>3 DEF FractionEnds
      <4>2. e + 1 \in Nat
        BY <1>1
      <4> QED BY <3>2, <4>1, <4>2
    <3>4. PICK d \in p..Size :
            Span(p, d, Digit) /\ (q = d \/ q \in WidthEnds(d + 1) \/ q \in FractionEnds(d + 1))
      BY DEF LiteralEnds
    <3>5. d + 1 \in Nat
      BY <1>1
    <3> QED BY <1>1, <3>2, <3>3, <3>4, <3>5
  <2>5. At(q) \notin Digit
    <3>1. q < Size => At(q) \notin Digit
      BY <2>4 DEF Span
    <3>2. ~(q < Size) => At(q) \notin Digit
      BY DEF At, Digit
    <3> QED BY <3>1, <3>2
  <2>6. column' <= Size
    BY <2>1, <2>2
  <2>7. LosesNothing
    BY <1>1, <2>1, <2>2, <2>3, <2>6 DEF LosesNothing
  <2>8. IsWhole
    BY <2>2, <2>5 DEF IsWhole
  <2>9. IsRecognised
    BY <2>2 DEF IsRecognised
  <2> QED BY <2>7, <2>8, <2>9
<1> QED BY <1>2, <1>3 DEF Literal

\* A word, whether the walk ended with the line or before.
LEMMA WordsAreWhole ==
  ASSUME TypeOK, NEW p \in column..MaxColumns, StartsAt(p),
         NEW k, WalkEnds(p, k), NEW q \in p..Size, q < Size => At(q) \notin WordChar,
         column' = q, token'.taken = q - p, token'.kind = KindOf(Between(p, k))
  PROVE  LosesNothing /\ IsWhole /\ IsRecognised
<1>1. linebuf \in Text /\ p \in Nat /\ p < Size /\ Size \in Nat
  BY Here
<1>2. q \in Nat /\ q <= Size
  BY <1>1
<1>3. Start = p /\ \A i \in column..Start - 1 : At(i) \in Blank
  BY <1>1, <1>2, Starts
<1>4. token'.kind \in {"keyword", "identifier"}
  BY KindOfWord
<1>5. LosesNothing
  BY <1>1, <1>2, <1>3, <1>4 DEF LosesNothing
<1>6. IsWhole
  BY <1>4 DEF IsWhole
<1>7. token'.kind = "keyword" <=> Between(p, k) \in Keywords
  BY DEF KindOf
<1>8. IsRecognised
  BY <1>1, <1>3, <1>7, WalksFindKeywords DEF IsRecognised
<1> QED BY <1>5, <1>6, <1>8

\* Every step: what get_next_token takes from a line.
LEMMA TokensTaken ==
  ASSUME TypeOK, get_next_token
  PROVE  LosesNothing /\ IsWhole /\ IsRecognised
<1>1. CASE EndOfLine
  <2>1. token'.kind \in {"enter", "end"}
    BY <1>1 DEF EndOfLine, Returns
  <2>2. ~InLine
    BY <2>1 DEF InLine
  <2> QED BY <2>2 DEF LosesNothing, IsWhole, IsRecognised
<1>2. ASSUME NEW p \in column..MaxColumns, WordAtLineEnd(p)
      PROVE  LosesNothing /\ IsWhole /\ IsRecognised
  <2>1. StartsAt(p) /\ WalkEnds(p, Size)
    BY <1>2, Zenon DEF WordAtLineEnd
  <2>2. CASE Between(p, Size) \in Node
    <3>1. column' = Size /\ Returns(KindOf(Between(p, Size)), "", line, p, Size - p)
      BY <1>2, <2>2, Zenon DEF WordAtLineEnd
    <3>2. token'.taken = Size - p /\ token'.kind = KindOf(Between(p, Size))
      BY <3>1 DEF Returns
    <3>3. Size \in p..Size
      BY <2>1, Here
    <3>4. Size < Size => At(Size) \notin WordChar
      BY <2>1, Here
    <3>5. column' = Size
      BY <3>1
    <3> QED BY ONLY TypeOK, <2>1, <3>2, <3>3, <3>4, <3>5, WordsAreWhole
  <2>3. CASE Between(p, Size) \notin Node
    <3>1. outcome' = "undefined"
      BY <1>2, <2>3, Zenon DEF WordAtLineEnd
    <3> QED BY <3>1 DEF LosesNothing, IsWhole, IsRecognised, InLine
  <2> QED BY <2>2, <2>3
<1>3. ASSUME NEW p \in column..MaxColumns, Word(p)
      PROVE  LosesNothing /\ IsWhole /\ IsRecognised
  <2>1. PICK k \in p..Size, q \in p..Size :
          /\ WalkEnds(p, k) /\ Span(k, q, WordChar) /\ column' = q
          /\ Returns(KindOf(Between(p, k)), "", line, p, q - p)
    BY <1>3, Zenon DEF Word
  <2>2. token'.taken = q - p /\ token'.kind = KindOf(Between(p, k))
    BY <2>1 DEF Returns
  <2>3. StartsAt(p) /\ WalkEnds(p, k) /\ column' = q /\ (q < Size => At(q) \notin WordChar)
    BY <1>3, <2>1, Zenon DEF Word, Span
  <2> QED BY ONLY TypeOK, <2>2, <2>3, p \in column..MaxColumns, q \in p..Size, WordsAreWhole
<1> QED BY <1>1, <1>2, <1>3, OperatorsAreWhole, LiteralsAreWhole DEF get_next_token

\* Nothing of a line is lost between two tokens or in one, but for "-=".
THEOREM NothingEverLost == Spec => NothingIsLost
<1>1. IInv /\ [get_next_token]_vars => [LosesNothing]_vars
  BY TokensTaken DEF IInv
<1> QED BY <1>1, Invariance, PTL DEF Spec, NothingIsLost

\* No token ends where it could go on.
THEOREM TokensStayWhole == Spec => TokensAreWhole
<1>1. IInv /\ [get_next_token]_vars => [IsWhole]_vars
  BY TokensTaken DEF IInv
<1> QED BY <1>1, Invariance, PTL DEF Spec, TokensAreWhole

\* For any set of keywords, whichever of them begin others: a word is taken for a keyword
\* exactly if its letters spell one.
THEOREM KeywordsAreFound == Spec => KeywordsAreRecognised
<1>1. IInv /\ [get_next_token]_vars => [IsRecognised]_vars
  BY TokensTaken DEF IInv
<1> QED BY <1>1, Invariance, PTL DEF Spec, KeywordsAreRecognised

=============================================================================
