----------------------------- MODULE KeywordTrie -----------------------------
(***************************************************************************)
(* The keywords of class Lexer: a trie of DFANodes that init_keyword fills *)
(* one word at a time, load fills from a stream and save writes to one.    *)
(*                                                                         *)
(* A node is the word that leads to it; root maps each node to its token.  *)
(* Letters are numbers, as in next[c - 'a'].  A file is the sequence of    *)
(* its words and numbers: the stream skips the white space between them.   *)
(***************************************************************************)
EXTENDS Integers, SequencesExt

CONSTANTS
  Letters,     \* how many letters there are ('a' to 'z')
  KeyWord,     \* the keywords of enum KeyWord
  OtherToken,  \* tokens that are no keyword
  LongestSaved,\* save gives up on a longer word (255)
  MaxWord,     \* bound: length of a word
  MaxWords,    \* bound: words in the trie
  MaxFile      \* bound: words and numbers of a file written by hand

NONE == "NONE"             \* the token of a node that ends no word
Unreadable == "unreadable" \* a word, where a number is read

ASSUME TokenAssumption == {NONE, Unreadable} \cap (KeyWord \cup OtherToken) = {}
                          /\ KeyWord \cap OtherToken = {}

ASSUME BoundAssumption == {Letters, LongestSaved, MaxWord, MaxWords, MaxFile} \subseteq Nat

VARIABLES
  root,
  file,
  answer,  \* the last call, and what it returned
  failed,  \* the stream of the last call failed, before the call or in it
  kept     \* the keywords a successful save has written to the file, if known

vars == <<root, file, answer, failed, kept>>

Letter == 0..Letters - 1
Strange == Letters                     \* a character that islower refuses
\* What follows a strange character is never looked at.
Word == {w \in UNION {[1..n -> Letter \cup {Strange}] : n \in 0..MaxWord} :
           \A i \in 1..Len(w) - 1 : w[i] # Strange}
Lower(w) == \A i \in 1..Len(w) : w[i] \in Letter

\* What stands in a file is read as a word or as a number: init_keyword finds
\* a strange character in a number.
WordItem(w) == [word |-> w, number |-> Unreadable]
NumberItem(k) == [word |-> <<Strange>>, number |-> k]
Item == {WordItem(w) : w \in Word \ {<<>>}} \cup {NumberItem(k) : k \in KeyWord}

Fresh == [v \in {<<>>} |-> NONE]       \* Lexer()
TokenAt(t, w) == IF w \in DOMAIN t THEN t[w] ELSE NONE
Spelled(t) == {w \in DOMAIN t : t[w] # NONE}
KeywordsOf(t) == {<<w, t[w]>> : w \in {v \in DOMAIN t : t[v] \in KeyWord}}

Known(words) == [known |-> TRUE, words |-> words]
Unknown == [known |-> FALSE, words |-> {}]

\* The nodes the walk along w visits before it meets a strange character.
Path(w) == {v \in {SubSeq(w, 1, n) : n \in 0..Len(w)} : Lower(v)}

\* The nodes on the way are not made.
BrokenWith(t, words, more) ==
  [v \in DOMAIN t \cup more \cup DOMAIN words |->
     IF v \in DOMAIN words THEN words[v] ELSE TokenAt(t, v)]

\* The trie after words, a function from words to tokens, were entered and the
\* nodes in more were made.
With(t, words, more) ==
  LET nodes == DOMAIN t \cup more \cup UNION {Path(w) : w \in DOMAIN words}
  IN  [v \in nodes |-> IF v \in DOMAIN words THEN words[v] ELSE TokenAt(t, v)]

Bounded == Cardinality(Spelled(root')) <= MaxWords

-----------------------------------------------------------------------------
(* init_keyword of a pair *)

\* A word that has a token gets another.
BrokenRefused(t, w) == ~Lower(w)

Refused(t, w) == ~Lower(w) \/ TokenAt(t, w) # NONE

\* A strange character ends the word without an exception.
Brokeninit_keyword(w, tok) ==
  /\ IF Refused(root, w)
     THEN /\ root' = With(root, <<>>, Path(w))
          /\ answer' = <<"init_keyword", IF Lower(w) THEN "threw" ELSE "done">>
     ELSE /\ root' = With(root, [v \in {w} |-> tok], {})
          /\ answer' = <<"init_keyword", "done">>
  /\ Bounded
  /\ failed' = FALSE
  /\ UNCHANGED <<file, kept>>

init_keyword(w, tok) ==
  /\ IF Refused(root, w)
     THEN root' = With(root, <<>>, Path(w)) /\ answer' = <<"init_keyword", "threw">>
     ELSE /\ root' = With(root, [v \in {w} |-> tok], {})
          /\ answer' = <<"init_keyword", "done">>
  /\ Bounded
  /\ failed' = FALSE
  /\ UNCHANGED <<file, kept>>

-----------------------------------------------------------------------------
(* load reads pairs of a word and a number until one cannot be read;       *)
(* init_keyword throws on a word it refuses.                               *)

Name(f, i) == f[2 * i - 1].word
Kind(f, i) == f[2 * i].number

Stops(f, i) == 2 * i > Len(f) \/ Kind(f, i) = Unreadable

Clashes(t, f, i) ==
  Refused(t, Name(f, i)) \/ \E j \in 1..i - 1 : Name(f, j) = Name(f, i)

Bad(t, f, i) == Stops(f, i) \/ Clashes(t, f, i)

Entries(f, n) ==
  [w \in {Name(f, i) : i \in 1..n} |-> Kind(f, CHOOSE i \in 1..n : Name(f, i) = w)]

FirstBad(t, f) ==
  {n \in 1..Len(f) + 1 : Bad(t, f, n) /\ \A i \in 1..n - 1 : ~Bad(t, f, i)}

\* The first n - 1 pairs are entered, and pair n is refused or not there.
Loads(n, refused) ==
  /\ root' = With(root, Entries(file, n - 1), IF refused THEN Path(Name(file, n)) ELSE {})
  /\ answer' = <<"load", IF refused THEN "threw" ELSE "true">>

\* A stream that fails ends the loop where it fails, like the end of the file.
load ==
  /\ \E n \in FirstBad(root, file) :
        \/ failed' = FALSE /\ Loads(n, ~Stops(file, n))
        \/ failed' = TRUE /\ \E m \in 1..n : Loads(m, FALSE)
  /\ Bounded
  /\ UNCHANGED <<file, kept>>

\* !input_stream.good()
LoadNothing == answer' = <<"load", "false">> /\ failed' = TRUE /\ UNCHANGED <<root, file, kept>>

-----------------------------------------------------------------------------
(* save.  The search keeps the nodes it still has to visit on a stack and  *)
(* pushes the children in alphabetical order, so a node comes before its   *)
(* children and the last letter first.                                     *)

Before(v, w) ==
  \/ v # w /\ IsPrefix(v, w)
  \/ \E i \in 1..Len(v) : /\ i <= Len(w) /\ v[i] > w[i]
                          /\ \A j \in 1..i - 1 : v[j] = w[j]

Visited(nodes) ==
  CHOOSE s \in SetToSeqs(nodes) : \A i, j \in DOMAIN s : i < j => Before(s[i], s[j])

\* The search does not go on below a keyword.
BrokenListed(t) ==
  Visited({w \in DOMAIN t : /\ t[w] \in KeyWord
                            /\ \A n \in 0..Len(w) - 1 : t[SubSeq(w, 1, n)] \notin KeyWord})

Listed(t) == Visited({w \in DOMAIN t : t[w] \in KeyWord})

\* The words that are written before the first one that is too long.
Written(t) ==
  LET all == Listed(t)
      long == {i \in DOMAIN all : Len(all[i]) > LongestSaved}
  IN  IF long = {} THEN all ELSE SubSeq(all, 1, (CHOOSE i \in long : \A j \in long : i <= j) - 1)

\* The empty word leaves no word in the file, only its number.
Items(t, words) ==
  FlattenSeq([i \in DOMAIN words |->
                (IF words[i] = <<>> THEN <<>> ELSE <<WordItem(words[i])>>)
                  \o <<NumberItem(t[words[i]])>>])

\* What is left of items when writing them fails: the last one that reaches
\* the file may be cut, a number to a smaller one.
Cut(item) ==
  IF item.number = Unreadable THEN {WordItem(SubSeq(item.word, 1, n)) : n \in 1..Len(item.word)}
  ELSE {NumberItem(k) : k \in KeyWord}

Cuts(items) ==
  {<<>>} \cup UNION {{Append(SubSeq(items, 1, n - 1), last) : last \in Cut(items[n])} :
                      n \in 1..Len(items)}

\* The exception about a long word is not reported.
Brokensave ==
  /\ file' = Items(root, Written(root)) /\ failed' = FALSE
  /\ answer' = <<"save", "true">>
  /\ kept' = Known(KeywordsOf(root))
  /\ UNCHANGED root

\* A word that is too long ends the file before it, and only that makes save
\* return false: a stream that was not opened leaves the file as it is, and one
\* that fails while it is written cuts it anywhere.
save ==
  /\ \/ /\ file' = Items(root, Written(root)) /\ failed' = FALSE
        /\ kept' = IF Written(root) = Listed(root) THEN Known(KeywordsOf(root)) ELSE Unknown
     \/ file' \in Cuts(Items(root, Written(root))) /\ failed' = TRUE /\ kept' = Unknown
     \/ failed' = TRUE /\ UNCHANGED <<file, kept>>
  /\ answer' = <<"save", IF Written(root) = Listed(root) THEN "true" ELSE "false">>
  /\ UNCHANGED root

\* output_stream.bad()
SaveNothing == answer' = <<"save", "false">> /\ failed' = TRUE /\ UNCHANGED <<root, file, kept>>

-----------------------------------------------------------------------------
\* Another process, with a new Lexer, finds the file.
Restart ==
  /\ root' = Fresh /\ answer' = <<"Lexer", "done">> /\ failed' = FALSE
  /\ UNCHANGED <<file, kept>>

\* Lethon.lex is written by hand, from the beginning or where it ends.
Edit ==
  /\ \/ file' = <<>>
     \/ Len(file) < MaxFile /\ \E item \in Item : file' = Append(file, item)
  /\ kept' = Unknown
  /\ answer' = <<"edit", "done">> /\ failed' = FALSE
  /\ UNCHANGED root

Init ==
  /\ root = Fresh /\ file = <<>> /\ answer = <<"Lexer", "done">>
  /\ failed = FALSE /\ kept = Unknown

Next ==
  \/ \E w \in Word, tok \in KeyWord \cup OtherToken : init_keyword(w, tok)
  \/ load \/ LoadNothing \/ save \/ SaveNothing
  \/ Restart \/ Edit

Spec == Init /\ [][Next]_vars
=============================================================================
