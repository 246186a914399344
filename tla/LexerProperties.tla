--------------------------- MODULE LexerProperties ---------------------------
(***************************************************************************)
(* What the token machine of the lexer promises to parse().                *)
(***************************************************************************)
EXTENDS Lexer, SequencesExt

\* The type invariant.  Only "-=" at the end of a line takes the column past
\* the end of the line.
TypeOK ==
  /\ lines \in 0..MaxLines /\ eof \in BOOLEAN /\ failed \in BOOLEAN
  /\ linebuf \in Text
  /\ line \in 1..MaxLines + 2
  /\ column \in 0..Size + 1
  /\ token \in Token
  /\ outcome \in {"reading", "threw", "undefined"}

\* The line number every token carries is that of the line it stands in: the
\* lines getline read and the line breaks skip_blank reported agree, also for
\* empty and blank lines and for a last line without a line feed.  (When the
\* stream has failed before its end, line breaks are reported without lines.)
LinesAreCounted ==
  /\ token.kind # "end" /\ ~failed => line = IF lines = 0 THEN 1 ELSE lines
  /\ token.kind # "none" => token.line = line

\* get_next_token reports the end of the source only when nothing is left of
\* it: every line was read, the last one was taken apart to its end, and the
\* stream had not failed before.
EndOfSource == token.kind = "end" => eof /\ ~failed /\ linebuf = <<>> /\ column = 0

\* get_next_token runs into a null node of the trie only with a word that
\* ends its line, and that leaves the trie with its last letter.
UndefinedOnlyOffTheTrie ==
  outcome = "undefined" =>
    LET word == Between(column, Size)
    IN  /\ word \in Seq(Letter)
        /\ \A w \in Keywords : ~IsPrefix(word, w)
        /\ Len(word) > 1 => \E w \in Keywords : IsPrefix(Front(word), w)

-----------------------------------------------------------------------------
(* A call that takes something from the line; Start is where it starts.    *)

InLine == outcome' = "reading" /\ token'.kind \in {"punc", "digit", "keyword", "identifier"}
Start == column' - token'.taken

LosesNothing ==
  InLine =>
    /\ \A i \in column..Start - 1 : At(i) \in Blank
    /\ column' > Size => token'.punc = "-"
    /\ token'.kind = "punc" =>
         \/ token'.taken = 1 /\ token'.punc = At(Start)
         \/ \E s \in Spelling :
               s.punc = token'.punc /\ Spells(Start, s.text) /\ token'.taken = Len(s.text)
         \/ Spells(Start, <<"-", "=">>) /\ token'.taken = 3

\* Between two tokens of a line only blanks are passed over, and a token takes
\* no other characters than those it is spelled with.  The one exception is
\* "-=": the missing break after SUBASSING makes it swallow the next character.
NothingIsLost == [][LosesNothing]_vars

IsWhole ==
  InLine =>
    CASE token'.kind \in {"keyword", "identifier"} -> column' < Size => At(column') \notin WordChar
      [] token'.kind = "digit" -> At(column') \notin Digit
      [] token'.kind = "punc" ->
           \A s \in Spelling : Spells(Start, s.text) => Len(s.text) <= token'.taken

\* A token ends where it cannot go on: a word at the end of the word or of the
\* line, digits at the last digit, an operator at the longest spelling the code
\* knows.
TokensAreWhole == [][IsWhole]_vars

IsRecognised ==
  InLine /\ token'.kind \in {"keyword", "identifier"} =>
    (token'.kind = "keyword" <=>
       \E w \in Keywords : Spells(Start, w) /\ At(Start + Len(w)) \notin Letter)

\* A word is a keyword exactly if its lower-case letters, up to the first
\* character of another kind, spell one: every keyword is recognised, also at
\* the end of a line, and no name made of letters is mistaken for one.  (But
\* "if_9" and "ifX" are: the rest joins the word after the walk has ended.)
KeywordsAreRecognised == [][IsRecognised]_vars

GetsOn ==
  \/ column' > column
  \/ lines' > lines
  \/ token'.kind = "end"
  \/ outcome' # "reading"
  \/ At(column') \in Space
  \/ failed' /\ linebuf' = <<>> /\ token'.kind = "enter"

\* Every call of get_next_token gets on: it takes a character, or reads a
\* line, or ends, but for two cases in which it may go on for ever: at white
\* space other than a blank (a carriage return) with the empty identifier, and
\* with line breaks when the stream was not opened or went bad, as eof() stays
\* false then and nobody asks for fail().
Progress == [][GetsOn]_vars

\* So parse() comes to the end of every source, unless it meets such white
\* space or the stream fails.
EventuallyEnds ==
  <>(token.kind = "end" \/ outcome # "reading" \/ At(column) \in Space \/ failed)
=============================================================================
