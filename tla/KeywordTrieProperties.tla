------------------------ MODULE KeywordTrieProperties ------------------------
(***************************************************************************)
(* What the keyword trie promises to the lexer and to those who keep the   *)
(* keywords in a file.                                                     *)
(***************************************************************************)
EXTENDS KeywordTrie

\* The type invariant; the nodes form a tree, from the root on.
TypeOK ==
  /\ \A v \in DOMAIN root : Path(v) \subseteq DOMAIN root /\ Lower(v) /\ Len(v) <= MaxWord
  /\ <<>> \in DOMAIN root
  /\ \A v \in DOMAIN root : root[v] \in KeyWord \cup OtherToken \cup {NONE}
  /\ file \in Seq(Item)
  /\ kept.known \in BOOLEAN /\ failed \in BOOLEAN

\* Once a word has a token it keeps it, whatever is entered or loaded after
\* it, and whatever fails.
TokensAreFinal ==
  [][ root' = Fresh \/ \A w \in Spelled(root) : TokenAt(root', w) = root[w] ]_vars

\* Every node lies on the way to a word.  Only an insertion that throws makes
\* others.  (The walk of get_next_token tells a node without a word from no
\* node at the end of a line.)
LeadsToWords(t) == DOMAIN t = {<<>>} \cup UNION {Path(w) : w \in Spelled(t)}
NodesLeadToWords ==
  [][ LeadsToWords(root) /\ answer'[2] # "threw" => LeadsToWords(root') ]_vars

\* What save wrote, load reads: a new lexer that loads the file has the
\* keywords of the old one, each with its number, if neither stream fails and
\* also if a save that could not open the file came between.  Not so if the
\* empty word is a keyword: its number upsets the reader.
RoundTrip ==
  [][ /\ root = Fresh /\ kept.known /\ answer'[1] = "load" /\ ~failed'
      /\ \A k \in kept.words : k[1] # <<>>
      => answer'[2] = "true" /\ KeywordsOf(root') = kept.words ]_vars

\* "if save success will return true otherwhise will return false": when save
\* returns true all keywords are in the file -- or the stream has failed.  (save
\* asks for bad() once, before it writes, so it returns true as well when the
\* file could not be opened or the disk is full.)
SaveTellsTheTruth ==
  [][ answer' = <<"save", "true">> /\ ~failed' =>
        \A k \in KeywordsOf(root) :
           \E i \in DOMAIN file' :
              /\ file'[i] = NumberItem(k[2])
              /\ k[1] # <<>> => i > 1 /\ file'[i - 1] = WordItem(k[1]) ]_vars
=============================================================================
