-------------------------------- MODULE Lexer --------------------------------
(***************************************************************************)
(* The token machine of class Lexer: set_source reads the first line, and  *)
(* each call of get_next_token skips blanks and then reports a line break, *)
(* an operator, a literal or a word, or the end of the source.             *)
(*                                                                         *)
(* Abstractions.  A character stands for its class as far as the code      *)
(* tells classes apart: "9" is any decimal digit, " " a space or a tab.    *)
(* Whether a number fits its type, and whether the width of a suffix       *)
(* exists, is the subject of Literals; here any literal may be refused.    *)
(* Columns count from 0, as in the code: column c holds linebuf[c + 1].    *)
(***************************************************************************)
EXTENDS Integers, Sequences

CONSTANTS
  Letter,     \* the lower-case letters of the source text, without those
              \* strtoll and strtod read as a part of a number (e, p, x)
  Other,      \* characters that are no lower-case letter, digit, space or
              \* punctuation: other capitals and control characters
  Punct,      \* what ispunct accepts, without "_"
  Space,      \* what isspace accepts besides blanks: a carriage return
  Keywords,   \* the words in the keyword trie
  MaxColumns, \* bound: characters in a line
  MaxLines    \* bound: lines of the source

ASSUME CharAssumption ==
  /\ {" ", "_", "9"} \cap (Letter \cup Other \cup Punct \cup Space) = {}
  /\ "\\0" \notin Letter \cup Punct \cup Space
  /\ Letter \cap (Other \cup Punct \cup Space) = {}
  /\ Other \cap (Punct \cup Space) = {}
  /\ Punct \cap Space = {}

ASSUME WordAssumption == Keywords \subseteq Seq(Letter) \ {<<>>}

ASSUME BoundAssumption == MaxColumns \in Nat /\ MaxLines \in Nat

VARIABLES
  lines,    \* how many lines std::getline has read
  eof,      \* eofbit of the source
  failed,   \* the source has failed before its end: it was not opened, or went bad
  linebuf, line, column,
  token,    \* what the last call returned, and how many characters it took
  outcome   \* "reading", "threw" or "undefined"

vars == <<lines, eof, failed, linebuf, line, column, token, outcome>>

-----------------------------------------------------------------------------
Blank == {" "}
Digit == {"9"}
WordChar == Letter \cup Other \cup Digit \cup {"_"}
Char == WordChar \cup Blank \cup Punct \cup Space

Text == UNION {[1..n -> Char] : n \in 0..MaxColumns}
Kind == {"none", "enter", "end", "punc", "digit", "keyword", "identifier"}
Size == Len(linebuf)
At(i) == IF i < Size THEN linebuf[i + 1] ELSE "\\0"
Between(i, j) == SubSeq(linebuf, i + 1, j)

\* The characters from i up to j are all in S, and the one at j is not.
Span(i, j, S) ==
  /\ j \in i..Size
  /\ \A k \in i..j - 1 : At(k) \in S
  /\ j < Size => At(j) \notin S

-----------------------------------------------------------------------------
(* Operators.  parse_mul_punc takes the longest spelling that matches; the *)
(* case of "-=" falls through into the default case and so returns SUB and *)
(* takes a third character.                                                *)

Spelling ==
  { [text |-> <<"-", ">">>,      punc |-> "POINTERTO"],
    [text |-> <<"-", "=">>,      punc |-> "-"],
    [text |-> <<":", ":">>,      punc |-> "SCOUP"],
    [text |-> <<"&", "&">>,      punc |-> "AND"],
    [text |-> <<"&", "=">>,      punc |-> "ADDASSIGN"],
    [text |-> <<"|", "|">>,      punc |-> "OR"],
    [text |-> <<"|", "=">>,      punc |-> "ORASSIGN"],
    [text |-> <<"*", "=">>,      punc |-> "MULASSIGN"],
    [text |-> <<">", ">">>,      punc |-> "RSHIFT"],
    [text |-> <<">", ">", "=">>, punc |-> "RSHIFTASSIGN"],
    [text |-> <<">", "=">>,      punc |-> "LARGEEQ"],
    [text |-> <<"<", ">">>,      punc |-> "LSHIFT"],
    [text |-> <<"<", ">", "=">>, punc |-> "LSHIFTASSIGN"],
    [text |-> <<"<", "=">>,      punc |-> "LESSEQ"],
    [text |-> <<"+", "=">>,      punc |-> "ADDASSIGN"],
    [text |-> <<"/", "=">>,      punc |-> "DIVASSIGN"],
    [text |-> <<"=", "=">>,      punc |-> "EQU"],
    [text |-> <<"%", "=">>,      punc |-> "MODASSIGN"],
    [text |-> <<"^", "=">>,      punc |-> "XORASSIGN"] }

Punchation == Punct \cup {s.punc : s \in Spelling}

Spells(i, s) == i + Len(s) <= Size /\ Between(i, i + Len(s)) = s

\* Every case of two characters falls through into the default case.
BrokenTaken(text) == IF Len(text) = 2 THEN 3 ELSE Len(text)

Taken(text) == IF text = <<"-", "=">> THEN 3 ELSE Len(text)

\* The shortest spelling wins.
BrokenOperator(i) ==
  LET long == {s \in Spelling : Spells(i, s.text)}
  IN  IF long = {} THEN [text |-> <<At(i)>>, punc |-> At(i)]
      ELSE CHOOSE s \in long : \A t \in long : Len(t.text) >= Len(s.text)

Operator(i) ==
  LET long == {s \in Spelling : Spells(i, s.text)}
  IN  IF long = {} THEN [text |-> <<At(i)>>, punc |-> At(i)]
      ELSE CHOOSE s \in long : \A t \in long : Len(t.text) <= Len(s.text)

-----------------------------------------------------------------------------
(* Literals: where the literal that starts at i may end.  std::stoi skips  *)
(* white space and a sign before the width of a suffix.                    *)

WidthEnds(i) ==
  {j \in i..Size :
     \E b, s \in i..Size :
        /\ Span(i, b, Blank \cup Space)
        /\ s = IF At(b) = "+" THEN b + 1 ELSE b
        /\ Span(s, j, Digit)
        /\ s < j}

FractionEnds(i) ==
  {j \in i..Size :
     \E d \in i..Size :
        /\ Span(i, d, Digit)
        /\ \/ j = d /\ At(d) \in Blank \cup {",", ";"}
           \/ At(d) = "f" /\ j \in WidthEnds(d + 1)}

LiteralEnds(i) ==
  {j \in i..Size :
     \E d \in i..Size :
        /\ Span(i, d, Digit)
        /\ \/ j = d /\ At(d) \in Blank \cup {",", ";", "\\", ")", "]", "\\0"}
           \/ At(d) \in {"i", "u", "f"} /\ j \in WidthEnds(d + 1)
           \/ At(d) = "." /\ j \in FractionEnds(d + 1)}

-----------------------------------------------------------------------------
(* Words: the walk in the keyword trie, whose nodes are the prefixes of    *)
(* the keywords.  It goes on while there is a node and a lower-case letter *)
(* follows; k is where it stops.                                           *)

Node == {<<>>} \cup UNION {{SubSeq(w, 1, n) : n \in 1..Len(w)} : w \in Keywords}

WalkEnds(i, k) ==
  /\ k \in i..Size
  /\ \A j \in i..k - 1 : At(j) \in Letter /\ Between(i, j) \in Node
  /\ k < Size => At(k) \notin Letter \/ Between(i, k) \notin Node

\* Any node counts as a keyword.
BrokenKindOf(walked) == IF walked \in Node THEN "keyword" ELSE "identifier"

KindOf(walked) == IF walked \in Keywords THEN "keyword" ELSE "identifier"

-----------------------------------------------------------------------------
(* The stream.  A line may be the last one without a line feed: then       *)
(* getline sets eofbit although it succeeds.  skip_blank clears the buffer *)
(* whatever made getline fail.                                             *)

ReadLine ==
  /\ ~eof /\ ~failed
  /\ lines < MaxLines
  /\ linebuf' \in Text
  /\ eof' \in IF linebuf' = <<>> THEN {FALSE} ELSE BOOLEAN
  /\ lines' = lines + 1
  /\ UNCHANGED failed

\* The buffer keeps the last line.
BrokenNoMoreLines == ~failed /\ eof' = TRUE /\ UNCHANGED <<linebuf, lines, failed>>

NoMoreLines == ~failed /\ linebuf' = <<>> /\ eof' = TRUE /\ UNCHANGED <<lines, failed>>

\* A stream that failed without reaching the end fails again, and never sets eofbit.
Fails == ~eof /\ failed' = TRUE /\ linebuf' = <<>> /\ UNCHANGED <<lines, eof>>

NextLine == ReadLine \/ NoMoreLines \/ Fails

Token == [kind : Kind, punc : Punchation \cup {""}, line : Nat, col : Nat, taken : Nat]

Returns(kind, punc, l, c, taken) ==
  token' = [kind |-> kind, punc |-> punc, line |-> l, col |-> c, taken |-> taken]

-----------------------------------------------------------------------------
(* set_source, which keeps what getline has read of a line when it failed *)
Init ==
  /\ column = 0 /\ line = 1 /\ outcome = "reading"
  /\ token = [kind |-> "none", punc |-> "", line |-> 0, col |-> 0, taken |-> 0]
  /\ \/ /\ MaxLines > 0 /\ lines = 1
        /\ linebuf \in Text
        /\ eof \in IF linebuf = <<>> THEN {FALSE} ELSE BOOLEAN
        /\ failed = FALSE
     \/ lines = 0 /\ linebuf = <<>> /\ eof = TRUE /\ failed = FALSE
     \/ lines = 0 /\ linebuf \in Text /\ eof = FALSE /\ failed = TRUE

\* An empty line is not counted.
BrokenEndOfLineCount ==
  /\ outcome = "reading"
  /\ line < MaxLines + 2
  /\ Span(column, Size, Blank) \/ Size <= column
  /\ line' = line + (IF Size = 0 THEN 0 ELSE 1)
  /\ column' = 0
  /\ NextLine
  /\ Returns(IF ~eof' \/ linebuf' # <<>> THEN "enter" ELSE "end", "", line', 0, 0)
  /\ UNCHANGED outcome

\* A last line without a line feed is taken for the end.
BrokenEndOfLineEof ==
  /\ outcome = "reading"
  /\ line < MaxLines + 2
  /\ Span(column, Size, Blank) \/ Size <= column
  /\ line' = line + 1
  /\ column' = 0
  /\ NextLine
  /\ Returns(IF ~eof' THEN "enter" ELSE "end", "", line', 0, 0)
  /\ UNCHANGED outcome

\* The column is not reset.
BrokenEndOfLineColumn ==
  /\ outcome = "reading"
  /\ line < MaxLines + 2
  /\ Span(column, Size, Blank) \/ Size <= column
  /\ line' = line + 1
  /\ column' = column + 1
  /\ NextLine
  /\ Returns(IF ~eof' \/ linebuf' # <<>> THEN "enter" ELSE "end", "", line', 0, 0)
  /\ UNCHANGED outcome

\* skip_blank goes to the next line and returns true.
EndOfLine ==
  /\ outcome = "reading"
  /\ line < MaxLines + 2     \* bound: line breaks are reported only so often
  /\ Span(column, Size, Blank) \/ Size <= column
  /\ line' = line + 1
  /\ column' = 0
  /\ NextLine
  /\ Returns(IF ~eof' \/ linebuf' # <<>> THEN "enter" ELSE "end", "", line', 0, 0)
  /\ UNCHANGED outcome

\* skip_blank stops at column p, where a token starts.
StartsAt(p) ==
  /\ outcome = "reading"
  /\ p < Size
  /\ Span(column, p, Blank)
  /\ UNCHANGED <<lines, eof, failed, linebuf, line>>

Punctuation(p) ==
  /\ StartsAt(p)
  /\ At(p) \in Punct
  /\ LET op == Operator(p)
     IN  /\ column' = p + Taken(op.text)
         /\ Returns("punc", op.punc, line, column', Taken(op.text))
  /\ UNCHANGED outcome

Literal(p) ==
  /\ StartsAt(p)
  /\ At(p) \in Digit
  /\ \/ \E q \in LiteralEnds(p) : /\ column' = q
                                  /\ Returns("digit", "", line, p, q - p)
                                  /\ UNCHANGED outcome
     \/ column' = p /\ outcome' = "threw" /\ UNCHANGED token

\* A node without a keyword is taken for no node.
BrokenWordAtLineEnd(p) ==
  /\ StartsAt(p)
  /\ At(p) \notin Punct \cup Digit
  /\ WalkEnds(p, Size)
  /\ IF Between(p, Size) \in Keywords
     THEN column' = Size /\ Returns("keyword", "", line, p, Size - p) /\ UNCHANGED outcome
     ELSE column' = p /\ outcome' = "undefined" /\ UNCHANGED token

\* The walk ends with the line: the node it is at decides, and if the last
\* letter left the trie that node is null.
WordAtLineEnd(p) ==
  /\ StartsAt(p)
  /\ At(p) \notin Punct \cup Digit
  /\ WalkEnds(p, Size)
  /\ IF Between(p, Size) \in Node
     THEN /\ column' = Size
          /\ Returns(KindOf(Between(p, Size)), "", line, p, Size - p)
          /\ UNCHANGED outcome
     ELSE column' = p /\ outcome' = "undefined" /\ UNCHANGED token

\* Only letters join a word.
BrokenWordLetters(p) ==
  /\ StartsAt(p)
  /\ At(p) \notin Punct \cup Digit
  /\ \E k, q \in p..Size :
        /\ k < Size
        /\ WalkEnds(p, k)
        /\ Span(k, q, Letter)
        /\ column' = q
        /\ Returns(KindOf(Between(p, k)), "", line, p, q - p)
  /\ UNCHANGED outcome

\* An underscore is punctuation here too.
BrokenWordUnderscore(p) ==
  /\ StartsAt(p)
  /\ At(p) \notin Punct \cup Digit
  /\ \E k, q \in p..Size :
        /\ k < Size
        /\ WalkEnds(p, k)
        /\ Span(k, q, WordChar \ {"_"})
        /\ column' = q
        /\ Returns(KindOf(Between(p, k)), "", line, p, q - p)
  /\ UNCHANGED outcome

\* The walk ends before: what is left of the word joins it.
Word(p) ==
  /\ StartsAt(p)
  /\ At(p) \notin Punct \cup Digit
  /\ \E k, q \in p..Size :
        /\ k < Size
        /\ WalkEnds(p, k)
        /\ Span(k, q, WordChar)
        /\ column' = q
        /\ Returns(KindOf(Between(p, k)), "", line, p, q - p)
  /\ UNCHANGED outcome

get_next_token ==
  \/ EndOfLine
  \/ \E p \in column..MaxColumns :
        Punctuation(p) \/ Literal(p) \/ WordAtLineEnd(p) \/ Word(p)

Spec == Init /\ [][get_next_token]_vars

\* parse() asks for tokens until the source ends or get_next_token fails.
FairSpec == Spec /\ WF_vars(get_next_token)

=============================================================================
