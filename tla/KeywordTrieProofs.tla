-------------------------- MODULE KeywordTrieProofs --------------------------
(***************************************************************************)
(* Proofs about the keyword trie, for every alphabet and every file.       *)
(***************************************************************************)
EXTENDS KeywordTrieProperties, TLAPS, FiniteSetTheorems, SequenceTheorems, WellFoundedInduction

\* Entering words leaves the tokens of all other words alone.
LEMMA WithKeeps ==
  ASSUME NEW t, NEW words, NEW more, NEW w \in Spelled(t), w \notin DOMAIN words
  PROVE  TokenAt(With(t, words, more), w) = t[w]
<1>1. w \in DOMAIN t
  BY DEF Spelled
<1>2. w \in DOMAIN With(t, words, more)
  BY <1>1 DEF With
<1>3. With(t, words, more)[w] = TokenAt(t, w)
  BY <1>1 DEF With
<1>4. QED
  BY <1>1, <1>2, <1>3 DEF TokenAt

\* A word that has a token is refused.
LEMMA SpelledIsRefused ==
  ASSUME NEW t, NEW w \in Spelled(t)
  PROVE  Refused(t, w)
  BY DEF Spelled, Refused, TokenAt

\* The pairs before pair n can be entered.
AreGood(t, f, n) == n \in 1..Len(f) + 1 /\ \A i \in 1..n - 1 : ~Bad(t, f, i)

\* load enters good pairs up to some pair, and throws only at one that is there.
LEMMA LoadIs ==
  ASSUME load
  PROVE  \E n : /\ AreGood(root, file, n)
                /\ \/ /\ root' = With(root, Entries(file, n - 1), {})
                      /\ answer' = <<"load", "true">>
                   \/ /\ ~Stops(file, n)
                      /\ root' = With(root, Entries(file, n - 1), Path(Name(file, n)))
                      /\ answer' = <<"load", "threw">>
<1>1. PICK n \in FirstBad(root, file) :
        Loads(n, ~Stops(file, n)) \/ \E m \in 1..n : Loads(m, FALSE)
  BY DEF load
<1>2. AreGood(root, file, n) /\ \A m \in 1..n : AreGood(root, file, m)
  <2>1. n \in 1..Len(file) + 1 /\ \A i \in 1..n - 1 : ~Bad(root, file, i)
    BY DEF FirstBad
  <2>2. \A m \in 1..n : m \in 1..Len(file) + 1 /\ \A i \in 1..m - 1 : i \in 1..n - 1
    BY <2>1
  <2> QED BY <2>1, <2>2 DEF AreGood
<1>3. CASE \E m \in 1..n : Loads(m, FALSE)
  BY <1>2, <1>3, Zenon DEF Loads
<1>4. CASE Loads(n, ~Stops(file, n)) /\ Stops(file, n)
  BY <1>2, <1>4, Zenon DEF Loads
<1>5. CASE Loads(n, ~Stops(file, n)) /\ ~Stops(file, n)
  BY <1>2, <1>5, Zenon DEF Loads
<1> QED BY <1>1, <1>3, <1>4, <1>5

\* Once a word is a keyword it stays that keyword, whatever is entered or
\* loaded after it and whatever fails.
THEOREM KeywordsAreFinal == Spec => TokensAreFinal
<1> DEFINE Keeps == \A w \in Spelled(root) : TokenAt(root', w) = root[w]
<1>1. UNCHANGED root => Keeps
  BY DEF Spelled, TokenAt
<1>2. ASSUME NEW w, NEW tok, init_keyword(w, tok)
      PROVE  Keeps
  <2>1. CASE Refused(root, w)
    <3>1. root' = With(root, <<>>, Path(w))
      BY <1>2, <2>1 DEF init_keyword
    <3>2. DOMAIN <<>> = {}
      OBVIOUS
    <3>3. QED
      BY <3>1, <3>2, WithKeeps
  <2>2. CASE ~Refused(root, w)
    <3>1. root' = With(root, [v \in {w} |-> tok], {})
      BY <1>2, <2>2 DEF init_keyword
    <3>2. \A v \in Spelled(root) : v \notin DOMAIN [u \in {w} |-> tok]
      BY <2>2, SpelledIsRefused
    <3>3. QED
      BY <3>1, <3>2, WithKeeps
  <2>3. QED
    BY <2>1, <2>2
<1>3. ASSUME load PROVE Keeps
  <2>1. PICK n : /\ AreGood(root, file, n)
                 /\ \E more : root' = With(root, Entries(file, n - 1), more)
    BY <1>3, LoadIs, Zenon
  <2>2. PICK more : root' = With(root, Entries(file, n - 1), more)
    BY <2>1
  <2>3. \A i \in 1..n - 1 : Name(file, i) \notin Spelled(root)
    BY <2>1, SpelledIsRefused DEF AreGood, Bad, Clashes
  <2>4. \A v \in Spelled(root) : v \notin DOMAIN Entries(file, n - 1)
    BY <2>3 DEF Entries
  <2>5. QED
    BY <2>2, <2>4, WithKeeps
<1>4. [Next]_vars => [root' = Fresh \/ Keeps]_vars
  <2>1. CASE UNCHANGED vars
    BY <2>1
  <2>2. CASE \E w \in Word, tok \in KeyWord \cup OtherToken : init_keyword(w, tok)
    BY <1>2, <2>2
  <2>3. CASE load
    BY <1>3, <2>3
  <2>4. CASE LoadNothing \/ save \/ SaveNothing \/ Edit
    BY <1>1, <2>4 DEF LoadNothing, save, SaveNothing, Edit
  <2>5. CASE Restart
    BY <2>5 DEF Restart
  <2>6. QED
    BY <2>1, <2>2, <2>3, <2>4, <2>5 DEF Next
<1>5. QED
  BY <1>4, PTL DEF Spec, TokensAreFinal

-----------------------------------------------------------------------------
(* The order in which save visits the nodes. *)

\* A set of numbers has a least one.
LEMMA Lowest ==
  ASSUME NEW T \in SUBSET Nat, T # {}
  PROVE  \E x \in T : \A y \in T : x <= y
<1>1. PICK x \in T : \A y \in T : ~ (<<y, x>> \in OpToRel(<, Nat))
  BY NatLessThanWellFounded, WFMin, Zenon
<1>2. \A y \in T : y < x => <<y, x>> \in OpToRel(<, Nat)
  BY DEF OpToRel
<1>3. \A y \in T : ~ (y < x)
  BY <1>1, <1>2, Zenon
<1> HIDE <1>1, <1>2
<1> QED BY <1>3

\* v comes before w because of the place i: it ends in front of i, or has a later letter there.
Differ(v, w, i) ==
  /\ i \in 1..Len(w)
  /\ \A j \in 1..i - 1 : j \in 1..Len(v) /\ v[j] = w[j]
  /\ i = Len(v) + 1 \/ (i \in 1..Len(v) /\ v[i] > w[i])

LEMMA Places ==
  ASSUME NEW v \in Seq(Int), NEW w \in Seq(Int)
  PROVE  Before(v, w) <=> \E i \in 1..Len(w) : Differ(v, w, i)
<1>1. Len(v) \in Nat /\ Len(w) \in Nat
  OBVIOUS
<1>2. ASSUME v # w, IsPrefix(v, w) PROVE \E i \in 1..Len(w) : Differ(v, w, i)
  <2>1. Len(v) <= Len(w) /\ SubSeq(v, 1, Len(v)) = SubSeq(w, 1, Len(v))
    BY <1>2 DEF IsPrefix
  <2>2. \A j \in 1..Len(v) : v[j] = w[j]
    <3>1. \A j \in 1..Len(v) : SubSeq(v, 1, Len(v))[j] = v[j] /\ SubSeq(w, 1, Len(v))[j] = w[j]
      BY <2>1
    <3> QED BY <2>1, <3>1
  <2>3. Len(v) # Len(w)
    BY <1>2, <2>2
  <2>4. Len(v) + 1 \in 1..Len(w) /\ Len(v) + 1 - 1 = Len(v)
    BY <1>1, <2>1, <2>3
  <2>5. Differ(v, w, Len(v) + 1)
    BY <2>2, <2>4 DEF Differ
  <2> QED BY <2>4, <2>5
<1>3. ASSUME NEW i \in 1..Len(v), i <= Len(w), v[i] > w[i], \A j \in 1..i - 1 : v[j] = w[j]
      PROVE  \E k \in 1..Len(w) : Differ(v, w, k)
  <2>1. i \in 1..Len(w) /\ \A j \in 1..i - 1 : j \in 1..Len(v)
    BY <1>1, <1>3
  <2> QED BY <1>3, <2>1 DEF Differ
<1>4. ASSUME NEW i \in 1..Len(w), Differ(v, w, i) PROVE Before(v, w)
  <2>1. CASE i = Len(v) + 1
    <3>1. Len(v) <= Len(w) /\ \A j \in 1..Len(v) : v[j] = w[j]
      BY <1>1, <1>4, <2>1 DEF Differ
    <3>2. SubSeq(v, 1, Len(v)) = SubSeq(w, 1, Len(v))
      <4> DEFINE p == SubSeq(v, 1, Len(v))  q == SubSeq(w, 1, Len(v))
      <4>1. p = [j \in 1..Len(v) |-> v[j]] /\ q = [j \in 1..Len(v) |-> w[j]]
        <5>1. \A n \in Nat : n - 1 + 1 = n
          OBVIOUS
        <5> QED BY <1>1, <3>1, <5>1
      <4> HIDE DEF p, q
      <4>3. p = q
        BY <3>1, <4>1
      <4> QED BY <4>3 DEF p, q
    <3>3. v # w
      BY <1>1, <2>1
    <3> QED BY <3>1, <3>2, <3>3 DEF Before, IsPrefix
  <2>2. CASE i \in 1..Len(v) /\ v[i] > w[i]
    <3>1. i <= Len(w) /\ \A j \in 1..i - 1 : v[j] = w[j]
      BY <1>4 DEF Differ
    <3> QED BY <2>2, <3>1 DEF Before
  <2> QED BY <1>4, <2>1, <2>2 DEF Differ
<1> QED BY <1>2, <1>3, <1>4 DEF Before

LEMMA BeforeIsTransitive ==
  ASSUME NEW u \in Seq(Int), NEW v \in Seq(Int), NEW w \in Seq(Int), Before(u, v), Before(v, w)
  PROVE  Before(u, w)
<1>1. PICK i \in 1..Len(v) : Differ(u, v, i)
  BY Places
<1>2. PICK k \in 1..Len(w) : Differ(v, w, k)
  BY Places
<1>3. Len(u) \in Nat /\ Len(v) \in Nat /\ Len(w) \in Nat /\ i \in Nat /\ k \in Nat
  OBVIOUS
<1>4. CASE i < k
  <2>1. i \in 1..k - 1 /\ i \in 1..Len(w)
    BY <1>3, <1>4
  <2>2. v[i] = w[i]
    BY <1>2, <2>1 DEF Differ
  <2>3. \A j \in 1..i - 1 : j \in 1..k - 1
    BY <1>3, <1>4
  <2>4. Differ(u, w, i)
    BY <1>1, <1>2, <2>1, <2>2, <2>3 DEF Differ
  <2> QED BY <2>1, <2>4, Places
<1>5. CASE i = k
  <2>1. v[i] > w[i] /\ u \in Seq(Int) /\ v[i] \in Int /\ w[i] \in Int
    BY <1>2, <1>3, <1>5 DEF Differ
  <2>2. i = Len(u) + 1 \/ (i \in 1..Len(u) /\ u[i] > w[i])
    <3>1. ASSUME i \in 1..Len(u), u[i] > v[i] PROVE u[i] > w[i]
      <4>1. u[i] \in Int
        BY <3>1
      <4>2. \A a, b, c \in Int : a > b /\ b > c => a > c
        OBVIOUS
      <4> QED BY <2>1, <3>1, <4>1, <4>2
    <3> QED BY <1>1, <3>1 DEF Differ
  <2>3. Differ(u, w, i)
    BY <1>1, <1>2, <1>5, <2>2 DEF Differ
  <2> QED BY <1>5, <2>3, Places
<1>6. CASE k < i
  <2>1. k \in 1..i - 1
    BY <1>3, <1>6
  <2>2. k \in 1..Len(u) /\ u[k] = v[k]
    BY <1>1, <2>1 DEF Differ
  <2>3. k \in 1..Len(v) /\ v[k] > w[k]
    BY <1>2, <1>3, <1>6 DEF Differ
  <2>4. \A j \in 1..k - 1 : j \in 1..i - 1
    BY <1>3, <1>6
  <2>5. Differ(u, w, k)
    BY <1>1, <1>2, <2>2, <2>3, <2>4 DEF Differ
  <2> QED BY <2>5, Places
<1> QED BY <1>3, <1>4, <1>5, <1>6

LEMMA BeforeIsTotal ==
  ASSUME NEW v \in Seq(Int), NEW w \in Seq(Int), v # w
  PROVE  Before(v, w) \/ Before(w, v)
<1> DEFINE D == {i \in Nat : i >= 1 /\ i <= Len(v) /\ i <= Len(w) /\ v[i] # w[i]}
<1>1. Len(v) \in Nat /\ Len(w) \in Nat
  OBVIOUS
<1>2. CASE D = {}
  <2>1. \A i \in 1..Len(v) : i <= Len(w) => v[i] = w[i]
    BY <1>1, <1>2
  <2>2. CASE Len(v) < Len(w)
    <3>1. Len(v) + 1 \in 1..Len(w) /\ Len(v) + 1 - 1 = Len(v) /\ \A j \in 1..Len(v) : j <= Len(w)
      BY <1>1, <2>2
    <3>2. Differ(v, w, Len(v) + 1)
      BY <2>1, <3>1 DEF Differ
    <3> QED BY <3>1, <3>2, Places
  <2>3. CASE Len(w) < Len(v)
    <3>1. Len(w) + 1 \in 1..Len(v) /\ Len(w) + 1 - 1 = Len(w) /\ \A j \in 1..Len(w) : j \in 1..Len(v) /\ j <= Len(w)
      BY <1>1, <2>3
    <3>2. Differ(w, v, Len(w) + 1)
      BY <2>1, <3>1 DEF Differ
    <3> QED BY <3>1, <3>2, Places
  <2>4. Len(v) # Len(w)
    BY <1>1, <2>1
  <2> QED BY <1>1, <2>2, <2>3, <2>4
<1>3. CASE D # {}
  <2>1. PICK i \in D : \A y \in D : i <= y
    BY <1>3, Lowest
  <2>2. i \in 1..Len(v) /\ i \in 1..Len(w) /\ v[i] # w[i] /\ v[i] \in Int /\ w[i] \in Int
    BY <1>1
  <2>3. \A j \in 1..i - 1 : j \in 1..Len(v) /\ j \in 1..Len(w) /\ v[j] = w[j]
    BY <1>1, <2>1, <2>2
  <2>4. v[i] > w[i] \/ w[i] > v[i]
    BY <2>2
  <2>5. Differ(v, w, i) \/ Differ(w, v, i)
    BY <2>2, <2>3, <2>4 DEF Differ
  <2> QED BY <2>2, <2>5, Places
<1> QED BY <1>2, <1>3

\* Each finite set of words, but the empty one, has a word that all others come before.
LEMMA LastWord ==
  ASSUME NEW n \in Nat
  PROVE  \A S \in SUBSET Seq(Int) :
           IsFiniteSet(S) /\ Cardinality(S) = n /\ S # {} =>
             \E m \in S : \A w \in S \ {m} : Before(w, m)
<1> DEFINE Has(S) == \E m \in S : \A w \in S \ {m} : Before(w, m)
           Wrong == {k \in Nat : \E S \in SUBSET Seq(Int) :
                       IsFiniteSet(S) /\ Cardinality(S) = k /\ S # {} /\ ~Has(S)}
<1>1. SUFFICES Wrong = {}
  OBVIOUS
<1>2. SUFFICES ASSUME Wrong # {} PROVE FALSE
  OBVIOUS
<1>3. PICK k \in Wrong : \A y \in Wrong : k <= y
  BY <1>2, Lowest
<1>4. PICK S \in SUBSET Seq(Int) : IsFiniteSet(S) /\ Cardinality(S) = k /\ S # {} /\ ~Has(S)
  OBVIOUS
<1>5. PICK x \in S : TRUE
  BY <1>4
<1> DEFINE R == S \ {x}
<1>6. IsFiniteSet(R) /\ Cardinality(R) = k - 1 /\ k - 1 \in Nat
  <2>1. IsFiniteSet(R) /\ Cardinality(R) = k - 1
    BY <1>4, <1>5, FS_RemoveElement
  <2> QED BY <2>1, FS_CardinalityType
<1>7. R # {}
  BY <1>4, <1>5
<1>8. k - 1 \notin Wrong
  <2>1. Wrong \subseteq Nat
    OBVIOUS
  <2> HIDE DEF Wrong
  <2>2. ASSUME k - 1 \in Wrong PROVE FALSE
    <3>1. k <= k - 1 /\ k \in Nat
      BY <1>3, <2>1, <2>2
    <3> QED BY ONLY <3>1
  <2> QED BY <2>2
<1>9. PICK m \in R : \A w \in R \ {m} : Before(w, m)
  <2>1. R \in SUBSET Seq(Int)
    OBVIOUS
  <2>2. Has(R)
    BY <1>6, <1>7, <1>8, <2>1
  <2> QED BY <2>2
<1>10. x \in Seq(Int) /\ m \in Seq(Int) /\ m # x /\ m \in S /\ \A w \in S : w \in Seq(Int)
  BY <1>5, <1>9
<1>11. CASE Before(x, m)
  BY <1>4, <1>9, <1>10, <1>11
<1>12. CASE Before(m, x)
  <2>1. \A w \in S \ {x} : Before(w, x)
    BY <1>9, <1>10, <1>12, BeforeIsTransitive
  <2> QED BY <1>4, <1>5, <2>1
<1> QED BY <1>10, <1>11, <1>12, BeforeIsTotal

InOrder(s) == \A i, j \in DOMAIN s : i < j => Before(s[i], s[j])

\* So the nodes can be visited in that order.
LEMMA OrderExists ==
  ASSUME NEW n \in Nat
  PROVE  \A S \in SUBSET Seq(Int) :
           IsFiniteSet(S) /\ Cardinality(S) = n => \E s \in SetToSeqs(S) : InOrder(s)
<1> DEFINE Wrong == {k \in Nat : \E S \in SUBSET Seq(Int) :
                       IsFiniteSet(S) /\ Cardinality(S) = k /\ ~ \E s \in SetToSeqs(S) : InOrder(s)}
<1>1. SUFFICES Wrong = {}
  OBVIOUS
<1>2. SUFFICES ASSUME Wrong # {} PROVE FALSE
  OBVIOUS
<1>3. PICK k \in Wrong : \A y \in Wrong : k <= y
  BY <1>2, Lowest
<1>4. PICK S \in SUBSET Seq(Int) :
        IsFiniteSet(S) /\ Cardinality(S) = k /\ ~ \E s \in SetToSeqs(S) : InOrder(s)
  OBVIOUS
<1>5. k \in Nat
  OBVIOUS
<1>6. CASE S = {}
  <2>1. Cardinality(S) = 0
    BY <1>6, FS_EmptySet
  <2> DEFINE s == [i \in 1..0 |-> {}]
  <2>2. s \in SetToSeqs(S)
    BY <2>1 DEF SetToSeqs
  <2>3. InOrder(s)
    BY DEF InOrder
  <2> QED BY <1>4, <2>2, <2>3
<1>7. CASE S # {}
  <2>1. PICK m \in S : \A w \in S \ {m} : Before(w, m)
    BY <1>4, <1>5, <1>7, LastWord
  <2> DEFINE R == S \ {m}
  <2>2. IsFiniteSet(R) /\ Cardinality(R) = k - 1 /\ k - 1 \in Nat
    <3>1. IsFiniteSet(R) /\ Cardinality(R) = k - 1
      BY <1>4, <2>1, FS_RemoveElement
    <3> QED BY <3>1, FS_CardinalityType
  <2>3. k - 1 \notin Wrong
    BY <1>3, <2>2
  <2>4. PICK r \in SetToSeqs(R) : InOrder(r)
    BY <1>4, <2>2, <2>3
  <2>5. r \in [1..k - 1 -> R] /\ \A i, j \in 1..k - 1 : i # j => r[i] # r[j]
    BY <2>2, <2>4 DEF SetToSeqs
  <2> DEFINE s == [i \in 1..k |-> IF i = k THEN m ELSE r[i]]
  <2>6. \A i \in 1..k : i # k => i \in 1..k - 1
    BY <1>5
  <2>7. \A i \in 1..k : s[i] = (IF i = k THEN m ELSE r[i]) /\ s[i] \in S
    BY <2>1, <2>5, <2>6
  <2>8. s \in [1..k -> S]
    BY <2>7
  <2>9. \A i \in 1..k : i # k => s[i] = r[i] /\ s[i] \in R
    BY <2>5, <2>6
  <2>10. DOMAIN s = 1..k /\ DOMAIN r = 1..k - 1
    BY <2>5
  <2> HIDE DEF s
  <2>11. \A i, j \in 1..k : i # j => s[i] # s[j]
    BY <2>5, <2>6, <2>7, <2>9
  <2>12. s \in SetToSeqs(S)
    BY <1>4, <2>8, <2>11 DEF SetToSeqs
  <2>13. \A i, j \in 1..k : i < j => i # k
    BY <1>5
  <2>14. InOrder(s)
    <3>1. SUFFICES ASSUME NEW i \in 1..k, NEW j \in 1..k, i < j PROVE Before(s[i], s[j])
      BY <2>10 DEF InOrder
    <3>2. s[i] = r[i] /\ s[i] \in R /\ i \in 1..k - 1
      BY <2>6, <2>9, <2>13, <3>1
    <3>3. CASE j = k
      BY <2>1, <2>7, <3>2, <3>3
    <3>4. CASE j # k
      <4>1. s[j] = r[j] /\ j \in 1..k - 1
        BY <2>6, <2>9, <3>4
      <4> QED BY <2>4, <2>10, <3>1, <3>2, <4>1 DEF InOrder
    <3> QED BY <3>3, <3>4
  <2> QED BY <1>4, <2>12, <2>14
<1> QED BY <1>6, <1>7

\* What save visits: each node once.
LEMMA VisitedNodes ==
  ASSUME NEW S \in SUBSET Seq(Int), IsFiniteSet(S)
  PROVE  /\ Visited(S) \in Seq(S)
         /\ \A i, j \in DOMAIN Visited(S) : i # j => Visited(S)[i] # Visited(S)[j]
         /\ \A w \in S : \E i \in DOMAIN Visited(S) : Visited(S)[i] = w
<1> DEFINE s == Visited(S)  n == Cardinality(S)
<1>1. n \in Nat
  BY FS_CardinalityType
<1>2. \E t \in SetToSeqs(S) : \A i, j \in DOMAIN t : i < j => Before(t[i], t[j])
  BY <1>1, OrderExists DEF InOrder
<1>3. s \in SetToSeqs(S)
  BY <1>2 DEF Visited
<1>4. s \in [1..n -> S] /\ \A i, j \in 1..n : i # j => s[i] # s[j]
  BY <1>3 DEF SetToSeqs
<1>5. DOMAIN s = 1..n /\ s \in Seq(S)
  BY <1>1, <1>4
<1>6. s \in Injection(1..n, S)
  BY <1>4 DEF Injection, IsInjective
<1>7. Cardinality(1..n) = n
  <2>1. 1 \in Int /\ n \in Int
    BY <1>1
  <2>2. Cardinality(1..n) = IF 1 > n THEN 0 ELSE n - 1 + 1
    BY <2>1, FS_Interval
  <2> QED BY <1>1, <2>2
<1>8. s \in Surjection(1..n, S)
  BY <1>6, <1>7, FS_Injection
<1> QED BY <1>4, <1>5, <1>8 DEF Surjection

-----------------------------------------------------------------------------
(* What FlattenSeq does to the parts that save writes. *)

\* Induction along 1..n.
LEMMA UpTo ==
  ASSUME NEW n \in Nat, NEW G \in SUBSET Nat, 1 \in G, \A k \in 1..n - 1 : k \in G => k + 1 \in G
  PROVE  1..n \subseteq G
<1> DEFINE W == {k \in Nat : k \in 1..n /\ k \notin G}
<1>1. W \subseteq Nat /\ \A k \in W : k \in 1..n /\ k \notin G
  OBVIOUS
<1>2. \A k \in 1..n : k \in Nat /\ (k \notin W => k \in G)
  OBVIOUS
<1> HIDE DEF W
<1>3. CASE W # {}
  <2>1. PICK k \in W : \A y \in W : k <= y
    BY <1>1, <1>3, Lowest
  <2>2. k \in Nat /\ k \in 1..n /\ k \notin G /\ k # 1
    BY <1>1
  <2>3. k - 1 \in 1..n - 1 /\ k - 1 \in 1..n /\ ~(k <= k - 1) /\ (k - 1) + 1 = k
    BY <2>2
  <2>4. k - 1 \notin W
    BY <2>1, <2>3
  <2>5. k - 1 \in G
    BY <1>2, <2>3, <2>4
  <2> QED BY <2>2, <2>3, <2>5
<1> QED BY <1>2, <1>3

\* The sequences F[1], F[2], ... that FlattenSeq builds.
Flattens(F, s, n) ==
  /\ DOMAIN F = 1..n
  /\ \A i \in 1..n : F[i] = IF i = 1 THEN s[i] ELSE F[i - 1] \o s[i]

LEMMA FlattensExists ==
  ASSUME NEW s, NEW n \in Nat, n # 0
  PROVE  \E F : F = [i \in 1..n |-> IF i = 1 THEN s[i] ELSE F[i - 1] \o s[i]]
<1> DEFINE G == {k \in Nat : \E F : Flattens(F, s, k)}
<1>1. 1 \in G
  <2> DEFINE F == [i \in 1..1 |-> s[i]]
  <2>1. Flattens(F, s, 1)
    BY DEF Flattens
  <2> QED BY <2>1
<1>2. ASSUME NEW k \in 1..n - 1, k \in G PROVE k + 1 \in G
  <2>1. PICK F : Flattens(F, s, k)
    BY <1>2
  <2> DEFINE H == [i \in 1..k + 1 |-> IF i = k + 1 THEN F[k] \o s[k + 1] ELSE F[i]]
  <2>2. k \in Nat /\ k >= 1
    OBVIOUS
  <2>3. \A i \in 1..k + 1 : H[i] = IF i = k + 1 THEN F[k] \o s[k + 1] ELSE F[i]
    OBVIOUS
  <2>4. DOMAIN H = 1..k + 1
    OBVIOUS
  <2> HIDE DEF H
  <2>5. ASSUME NEW i \in 1..k + 1 PROVE H[i] = IF i = 1 THEN s[i] ELSE H[i - 1] \o s[i]
    <3>1. CASE i = k + 1
      <4>1. i # 1 /\ i - 1 = k /\ k \in 1..k + 1 /\ k # k + 1
        BY <2>2, <3>1
      <4>2. H[k] = F[k]
        BY <2>3, <4>1
      <4> QED BY <2>3, <3>1, <4>1, <4>2
    <3>2. CASE i # k + 1
      <4>1. i \in 1..k
        BY <2>2, <3>2
      <4>2. H[i] = F[i] /\ F[i] = IF i = 1 THEN s[i] ELSE F[i - 1] \o s[i]
        BY <2>1, <2>3, <3>2, <4>1 DEF Flattens
      <4>3. i # 1 => i - 1 \in 1..k + 1 /\ i - 1 # k + 1
        BY <2>2, <4>1
      <4>4. i # 1 => H[i - 1] = F[i - 1]
        BY <2>3, <4>3
      <4> QED BY <4>2, <4>4
    <3> QED BY <3>1, <3>2
  <2>6. Flattens(H, s, k + 1)
    BY <2>4, <2>5 DEF Flattens
  <2> QED BY <2>2, <2>6
<1>3. n \in G
  <2>1. G \in SUBSET Nat /\ n \in 1..n
    OBVIOUS
  <2> HIDE DEF G
  <2> QED BY <1>1, <1>2, <2>1, UpTo
<1>4. PICK F : Flattens(F, s, n)
  BY <1>3
<1>5. Flattens([i \in 1..n |-> F[i]], s, n)
  <2>1. \A i \in 1..n : i # 1 => i - 1 \in 1..n
    OBVIOUS
  <2> QED BY <1>4, <2>1 DEF Flattens
<1>6. [i \in 1..n |-> F[i]] = [i \in 1..n |-> IF i = 1 THEN s[i] ELSE [j \in 1..n |-> F[j]][i - 1] \o s[i]]
  BY <1>5 DEF Flattens
<1> QED BY <1>6

LEMMA Flattened ==
  ASSUME NEW s, NEW n \in Nat, n # 0, Len(s) = n
  PROVE  \E F : Flattens(F, s, n) /\ FlattenSeq(s) = F[n]
<1> DEFINE R(F) == F = [i \in 1..n |-> IF i = 1 THEN s[i] ELSE F[i - 1] \o s[i]]
           C == CHOOSE F : R(F)
<1>1. R(C)
  BY FlattensExists
<1>2. FlattenSeq(s) = C[n]
  BY DEF FlattenSeq
<1> HIDE DEF C
<1>3. Flattens(C, s, n)
  BY <1>1 DEF Flattens
<1> QED BY <1>2, <1>3

\* The part p stands in s behind its first b elements.
Stands(p, s, b) == b + Len(p) <= Len(s) /\ \A j \in 1..Len(p) : s[b + j] = p[j]

LEMMA StandsOn ==
  ASSUME NEW X, NEW p \in Seq(X), NEW s \in Seq(X), NEW r \in Seq(X)
  PROVE  /\ \A b \in Nat : Stands(p, s, b) => Stands(p, s \o r, b)
         /\ Stands(r, s \o r, Len(s))
<1>1. Len(p) \in Nat /\ Len(s) \in Nat /\ Len(r) \in Nat /\ Len(s \o r) = Len(s) + Len(r)
  OBVIOUS
<1>2. \A i \in 1..Len(s) : (s \o r)[i] = s[i]
  OBVIOUS
<1>3. \A i \in 1..Len(r) : (s \o r)[Len(s) + i] = r[i]
  OBVIOUS
<1>4. ASSUME NEW b \in Nat, Stands(p, s, b) PROVE Stands(p, s \o r, b)
  <2>1. b + Len(p) <= Len(s \o r) /\ \A j \in 1..Len(p) : b + j \in 1..Len(s)
    BY <1>1, <1>4 DEF Stands
  <2> QED BY <1>2, <1>4, <2>1 DEF Stands
<1> QED BY <1>1, <1>3, <1>4 DEF Stands

\* All parts stand in the flattened sequence, and nothing but elements of parts.
LEMMA Joined ==
  ASSUME NEW X, NEW p \in Seq(X), NEW r \in Seq(X)
  PROVE  /\ p \o r \in Seq(X)
         /\ Len(p \o r) = Len(p) + Len(r)
         /\ \A i \in 1..Len(p) : (p \o r)[i] = p[i]
  OBVIOUS

LEMMA PartsStand ==
  ASSUME NEW X, NEW s \in Seq(Seq(X))
  PROVE  /\ FlattenSeq(s) \in Seq(X)
         /\ \A i \in 1..Len(s) : \E b \in Nat : Stands(s[i], FlattenSeq(s), b)
<1> DEFINE n == Len(s)
<1>1. n \in Nat /\ \A i \in 1..n : s[i] \in Seq(X)
  OBVIOUS
<1>2. CASE n = 0
  <2>1. s = <<>> /\ FlattenSeq(s) = s
    BY <1>2 DEF FlattenSeq
  <2>2. <<>> \in Seq(X) /\ 1..0 = {}
    OBVIOUS
  <2> QED BY ONLY <1>2, <2>1, <2>2, Zenon
<1>3. CASE n # 0
  <2>1. PICK F : Flattens(F, s, n) /\ FlattenSeq(s) = F[n]
    BY <1>1, <1>3, Flattened
  <2> DEFINE P(k) == /\ F[k] \in Seq(X)
                     /\ \A i \in 1..n : i <= k => \E b \in Nat : Stands(s[i], F[k], b)
             G == {k \in Nat : P(k)}
  <2>2. 1 \in 1..n /\ \A i \in 1..n : i <= 1 => i = 1
    BY <1>1, <1>3
  <2>3. 1 \in G
    <3>1. F[1] = s[1] /\ F[1] \in Seq(X)
      BY <1>1, <2>1, <2>2 DEF Flattens
    <3>2. Stands(s[1], s[1], 0)
      BY <3>1 DEF Stands
    <3>3. P(1)
      BY <2>2, <3>1, <3>2
    <3> QED BY <3>3
  <2>4. ASSUME NEW k \in 1..n - 1, P(k) PROVE P(k + 1)
    <3>1. k + 1 \in 1..n /\ k + 1 # 1 /\ (k + 1) - 1 = k /\ \A i \in 1..n : i <= k + 1 => i <= k \/ i = k + 1
      BY <1>1
    <3>2. F[k + 1] = F[k] \o s[k + 1]
      BY <2>1, <3>1 DEF Flattens
    <3>3. s[k + 1] \in Seq(X) /\ Len(F[k]) \in Nat
      BY <1>1, <2>4, <3>1
    <3>4. F[k + 1] \in Seq(X)
      BY <2>4, <3>2, <3>3
    <3>5. Stands(s[k + 1], F[k + 1], Len(F[k]))
      BY <2>4, <3>2, <3>3, StandsOn
    <3>6. ASSUME NEW i \in 1..n, i <= k PROVE \E b \in Nat : Stands(s[i], F[k + 1], b)
      <4>1. PICK b \in Nat : Stands(s[i], F[k], b)
        BY <2>4, <3>6
      <4>2. Stands(s[i], F[k + 1], b)
        BY <1>1, <2>4, <3>2, <3>3, <4>1, StandsOn
      <4> QED BY <4>2
    <3> QED BY <3>1, <3>3, <3>4, <3>5, <3>6
  <2>5. n \in G
    <3>1. G \in SUBSET Nat /\ n \in 1..n /\ \A k \in 1..n - 1 : k \in G => k + 1 \in G
      <4>1. \A k \in 1..n - 1 : k \in Nat /\ k + 1 \in Nat
        OBVIOUS
      <4> HIDE DEF P
      <4>2. G \in SUBSET Nat
        OBVIOUS
      <4>3. n \in 1..n
        BY <1>1, <1>3
      <4>4. ASSUME NEW k \in 1..n - 1, k \in G PROVE k + 1 \in G
        <5>1. P(k + 1)
          BY <2>4, <4>4
        <5> QED BY <4>1, <5>1
      <4> QED BY <4>2, <4>3, <4>4
    <3> HIDE DEF G
    <3> QED BY <1>1, <2>3, <3>1, UpTo
  <2> QED BY <2>1, <2>5
<1> QED BY <1>2, <1>3

\* Parts of two elements stand at the even places.
LEMMA PairsStand ==
  ASSUME NEW X, NEW s \in Seq(Seq(X)), \A i \in 1..Len(s) : Len(s[i]) = 2
  PROVE  /\ Len(FlattenSeq(s)) = 2 * Len(s)
         /\ \A i \in 1..Len(s) :
              FlattenSeq(s)[2 * i - 1] = s[i][1] /\ FlattenSeq(s)[2 * i] = s[i][2]
<1> DEFINE n == Len(s)
<1>1. n \in Nat /\ \A i \in 1..n : s[i] \in Seq(X)
  OBVIOUS
<1>2. CASE n = 0
  <2>1. s = <<>> /\ FlattenSeq(s) = s
    BY <1>2 DEF FlattenSeq
  <2> QED BY <1>2, <2>1
<1>3. CASE n # 0
  <2>1. PICK F : Flattens(F, s, n) /\ FlattenSeq(s) = F[n]
    BY <1>1, <1>3, Flattened
  <2> DEFINE P(k) == /\ F[k] \in Seq(X)
                     /\ Len(F[k]) = 2 * k
                     /\ \A i \in 1..n : i <= k => F[k][2 * i - 1] = s[i][1] /\ F[k][2 * i] = s[i][2]
             G == {k \in Nat : P(k)}
  <2>2. 1 \in 1..n /\ \A i \in 1..n : i <= 1 => i = 1
    BY <1>1, <1>3
  <2>3. 1 \in G
    <3>1. F[1] = s[1] /\ F[1] \in Seq(X) /\ Len(F[1]) = 2
      BY <1>1, <2>1, <2>2 DEF Flattens
    <3>2. P(1)
      BY <2>2, <3>1
    <3> QED BY <3>2
  <2>4. ASSUME NEW k \in 1..n - 1, P(k) PROVE P(k + 1)
    <3>1. k \in Nat /\ k + 1 \in 1..n /\ k + 1 # 1 /\ (k + 1) - 1 = k /\ \A i \in 1..n : i <= k + 1 => i <= k \/ i = k + 1
      BY <1>1
    <3>2. F[k + 1] = F[k] \o s[k + 1]
      BY <2>1, <3>1 DEF Flattens
    <3>3. s[k + 1] \in Seq(X) /\ Len(s[k + 1]) = 2
      BY <1>1, <3>1
    <3>4. F[k + 1] \in Seq(X) /\ Len(F[k + 1]) = 2 * (k + 1)
      <4>1. F[k + 1] \in Seq(X) /\ Len(F[k + 1]) = Len(F[k]) + Len(s[k + 1])
        <5>1. /\ F[k] \o s[k + 1] \in Seq(X)
              /\ Len(F[k] \o s[k + 1]) = Len(F[k]) + Len(s[k + 1])
          <6> DEFINE p == F[k]  r == s[k + 1]
          <6>1. p \in Seq(X) /\ r \in Seq(X)
            BY <2>4, <3>3, Zenon
          <6> HIDE DEF p, r
          <6>2. p \o r \in Seq(X) /\ Len(p \o r) = Len(p) + Len(r)
            BY ONLY <6>1, Joined
          <6> QED BY <6>2 DEF p, r
        <5> QED BY <3>2, <5>1, Zenon
      <4> QED BY ONLY <2>4, <3>1, <3>3, <4>1
    <3>5. \A i \in 1..2 * k : F[k + 1][i] = F[k][i]
      <4>1. \A i \in 1..Len(F[k]) : (F[k] \o s[k + 1])[i] = F[k][i]
        BY ONLY <2>4, <3>3, Joined
      <4> QED BY <2>4, <3>2, <4>1, Zenon
    <3>6. F[k + 1][2 * (k + 1) - 1] = s[k + 1][1] /\ F[k + 1][2 * (k + 1)] = s[k + 1][2]
      <4>1. \A j \in 1..2 : (F[k] \o s[k + 1])[2 * k + j] = s[k + 1][j]
        <5>1. Stands(s[k + 1], F[k] \o s[k + 1], 2 * k)
          BY <2>4, <3>3, StandsOn
        <5> QED BY <3>3, <5>1 DEF Stands
      <4>2. 2 * (k + 1) - 1 = 2 * k + 1 /\ 2 * (k + 1) = 2 * k + 2
        <5>1. \A m \in Nat : 2 * (m + 1) - 1 = 2 * m + 1 /\ 2 * (m + 1) = 2 * m + 2
          OBVIOUS
        <5> QED BY <3>1, <5>1, Zenon
      <4>3. 1 \in 1..2 /\ 2 \in 1..2
        OBVIOUS
      <4> QED BY <3>2, <4>1, <4>2, <4>3, Zenon
    <3>7. \A i \in 1..n : i <= k => 2 * i - 1 \in 1..2 * k /\ 2 * i \in 1..2 * k
      <4>1. \A i, m \in Nat : 1 <= i /\ i <= m => 2 * i - 1 \in 1..2 * m /\ 2 * i \in 1..2 * m
        OBVIOUS
      <4>2. \A i \in 1..n : i \in Nat /\ 1 <= i
        BY <1>1
      <4> QED BY <3>1, <4>1, <4>2, Zenon
    <3> QED BY <2>4, <3>1, <3>4, <3>5, <3>6, <3>7
  <2>5. n \in G
    <3>1. G \in SUBSET Nat /\ n \in 1..n /\ \A k \in 1..n - 1 : k \in G => k + 1 \in G
      <4>1. \A k \in 1..n - 1 : k \in Nat /\ k + 1 \in Nat
        OBVIOUS
      <4> HIDE DEF P
      <4>2. G \in SUBSET Nat
        OBVIOUS
      <4>3. n \in 1..n
        BY <1>1, <1>3
      <4>4. ASSUME NEW k \in 1..n - 1, k \in G PROVE k + 1 \in G
        <5>1. P(k + 1)
          BY <2>4, <4>4
        <5> QED BY <4>1, <5>1
      <4> QED BY <4>2, <4>3, <4>4
    <3> HIDE DEF G
    <3> QED BY <1>1, <2>3, <3>1, UpTo
  <2>6. P(n)
    BY <2>5
  <2> QED BY <1>1, <2>1, <2>6
<1> QED BY <1>2, <1>3

-----------------------------------------------------------------------------
(* Words, and the nodes on the way to them. *)

LEMMA WordIs ==
  ASSUME NEW w
  PROVE  w \in Word <=> /\ w \in Seq(0..Letters)
                        /\ Len(w) <= MaxWord
                        /\ \A i \in 1..Len(w) - 1 : w[i] # Strange
<1>1. Letters \in Nat /\ MaxWord \in Nat
  BY BoundAssumption
<1>2. Letter \cup {Strange} = 0..Letters
  BY <1>1 DEF Letter, Strange
<1> DEFINE A == 0..Letters
<1> HIDE DEF A
<1>3. w \in UNION {[1..n -> A] : n \in 0..MaxWord} <=> w \in Seq(A) /\ Len(w) <= MaxWord
  <2>1. ASSUME NEW n \in 0..MaxWord, w \in [1..n -> A] PROVE w \in Seq(A) /\ Len(w) <= MaxWord
    <3>1. w \in Seq(A) /\ Len(w) = n
      BY SMTT(30), <1>1, <2>1
    <3> QED BY <1>1, <3>1
  <2>2. ASSUME w \in Seq(A), Len(w) <= MaxWord PROVE \E n \in 0..MaxWord : w \in [1..n -> A]
    <3>1. Len(w) \in 0..MaxWord /\ w \in [1..Len(w) -> A]
      BY <1>1, <2>2
    <3> QED BY <3>1
  <2> QED BY <2>1, <2>2
<1> QED BY <1>2, <1>3 DEF Word, A

\* A word's first n letters.
LEMMA FirstLetters ==
  ASSUME NEW A, NEW w \in Seq(A), NEW n \in 0..Len(w)
  PROVE  /\ SubSeq(w, 1, n) \in Seq(A)
         /\ Len(SubSeq(w, 1, n)) = n
         /\ \A i \in 1..n : SubSeq(w, 1, n)[i] = w[i]
         /\ \A k \in 0..n : SubSeq(SubSeq(w, 1, n), 1, k) = SubSeq(w, 1, k)
<1>1. n \in Nat /\ Len(w) \in Nat /\ n <= Len(w)
  OBVIOUS
<1>2. /\ SubSeq(w, 1, n) \in Seq(A)
      /\ Len(SubSeq(w, 1, n)) = n
      /\ \A i \in 1..n : SubSeq(w, 1, n)[i] = w[i]
  BY <1>1
<1>3. ASSUME NEW k \in 0..n PROVE SubSeq(SubSeq(w, 1, n), 1, k) = SubSeq(w, 1, k)
  <2> DEFINE p == SubSeq(w, 1, n)
  <2> HIDE DEF p
  <2>1. k \in Nat /\ \A i \in 1..k : i \in 1..n
    BY <1>1
  <2>2. SubSeq(p, 1, k) = [i \in 1..k |-> p[i]] /\ SubSeq(w, 1, k) = [i \in 1..k |-> w[i]]
    <3>1. \A m \in Nat : m - 1 + 1 = m
      OBVIOUS
    <3> QED BY <2>1, <3>1
  <2>3. \A i \in 1..k : p[i] = w[i]
    BY <1>2, <2>1 DEF p
  <2>4. SubSeq(p, 1, k) = SubSeq(w, 1, k)
    BY <2>2, <2>3
  <2> QED BY <2>4 DEF p
<1> QED BY <1>2, <1>3

LEMMA PathIs ==
  ASSUME NEW w \in Word
  PROVE  /\ <<>> \in Path(w)
         /\ \A v \in Path(w) : v \in Word /\ Lower(v) /\ Path(v) \subseteq Path(w)
         /\ Lower(w) => w \in Path(w)
         /\ IsFiniteSet(Path(w))
<1>1. /\ w \in Seq(0..Letters) /\ Len(w) \in Nat /\ Len(w) <= MaxWord
      /\ \A i \in 1..Len(w) - 1 : w[i] # Strange
  BY WordIs
<1>2. MaxWord \in Nat /\ Letters \in Nat
  BY BoundAssumption
<1>3. <<>> \in Path(w)
  <2>1. SubSeq(w, 1, 0) = <<>> /\ 0 \in 0..Len(w)
    BY <1>1
  <2>2. Lower(<<>>)
    BY DEF Lower
  <2> QED BY <2>1, <2>2 DEF Path
<1>4. ASSUME NEW v \in Path(w) PROVE v \in Word /\ Lower(v) /\ Path(v) \subseteq Path(w)
  <2>1. PICK n \in 0..Len(w) : v = SubSeq(w, 1, n)
    BY DEF Path
  <2>2. Lower(v)
    BY DEF Path
  <2> DEFINE A == 0..Letters
  <2>3. w \in Seq(A)
    BY <1>1
  <2> HIDE DEF A
  <2>4. /\ v \in Seq(A) /\ Len(v) = n /\ \A i \in 1..n : v[i] = w[i]
        /\ \A k \in 0..n : SubSeq(v, 1, k) = SubSeq(w, 1, k)
    BY <2>1, <2>3, FirstLetters
  <2>5. n \in Nat /\ n <= Len(w)
    BY <1>1
  <2>6. Len(v) <= MaxWord
    BY <1>1, <1>2, <2>4, <2>5
  <2>7. \A i \in 1..Len(v) - 1 : v[i] # Strange
    <3>1. \A i \in 1..n - 1 : i \in 1..n /\ i \in 1..Len(w) - 1
      BY <1>1, <2>5
    <3> QED BY <1>1, <2>4, <3>1
  <2>8. v \in Word
    BY <2>4, <2>6, <2>7, WordIs DEF A
  <2>9. ASSUME NEW u \in Path(v) PROVE u \in Path(w)
    <3>1. PICK k \in 0..Len(v) : u = SubSeq(v, 1, k)
      BY DEF Path
    <3>2. u = SubSeq(w, 1, k) /\ k \in 0..Len(w) /\ Lower(u)
      BY SMTT(30), <1>1, <2>4, <2>5, <3>1 DEF Path
    <3> QED BY <3>2 DEF Path
  <2> QED BY <2>2, <2>8, <2>9
<1>5. ASSUME Lower(w) PROVE w \in Path(w)
  <2>1. SubSeq(w, 1, Len(w)) = w /\ Len(w) \in 0..Len(w)
    BY <1>1
  <2> QED BY <1>5, <2>1 DEF Path
<1>6. IsFiniteSet(Path(w))
  <2> DEFINE T == {SubSeq(w, 1, n) : n \in 0..Len(w)}  f == [n \in 0..Len(w) |-> SubSeq(w, 1, n)]
  <2>1. f \in Surjection(0..Len(w), T)
    BY DEF Surjection
  <2>2. IsFiniteSet(0..Len(w))
    <3>1. 0 \in Int /\ Len(w) \in Int
      BY <1>1
    <3> QED BY <3>1, FS_Interval
  <2>3. IsFiniteSet(T)
    <3> HIDE DEF T, f
    <3> QED BY <2>1, <2>2, FS_Surjection
  <2>4. Path(w) \in SUBSET T
    BY DEF Path
  <2> HIDE DEF T
  <2> QED BY <2>3, <2>4, FS_Subset
<1> QED BY <1>3, <1>4, <1>5, <1>6

-----------------------------------------------------------------------------
(* The trie is a finite tree of words, whatever is entered. *)

Token == KeyWord \cup OtherToken \cup {NONE}

IsTrie(t) ==
  /\ IsFiniteSet(DOMAIN t)
  /\ DOMAIN t \subseteq Word
  /\ \A v \in DOMAIN t : Path(v) \subseteq DOMAIN t /\ Lower(v)
  /\ <<>> \in DOMAIN t
  /\ \A v \in DOMAIN t : t[v] \in Token

\* What init_keyword and load enter: tokens for words that it does not refuse.
IsEntered(words) ==
  /\ IsFiniteSet(DOMAIN words)
  /\ \A w \in DOMAIN words : w \in Word /\ Lower(w) /\ words[w] \in KeyWord \cup OtherToken

\* The nodes a refused word leaves.
IsTrail(more) ==
  IsFiniteSet(more) /\ \A v \in more : v \in Word /\ Lower(v) /\ Path(v) \subseteq more

LEMMA WithIs ==
  ASSUME NEW t, IsTrie(t), NEW words, IsEntered(words), NEW more, IsTrail(more)
  PROVE  /\ IsTrie(With(t, words, more))
         /\ DOMAIN With(t, words, more) =
              DOMAIN t \cup more \cup UNION {Path(w) : w \in DOMAIN words}
         /\ \A v \in DOMAIN With(t, words, more) :
              With(t, words, more)[v] = IF v \in DOMAIN words THEN words[v] ELSE TokenAt(t, v)
<1> DEFINE W == With(t, words, more)
           P == UNION {Path(w) : w \in DOMAIN words}
           D == DOMAIN t \cup more \cup P
<1>1. W = [v \in D |-> IF v \in DOMAIN words THEN words[v] ELSE TokenAt(t, v)]
  BY DEF With
<1>2. DOMAIN W = D /\ \A v \in D : W[v] = IF v \in DOMAIN words THEN words[v] ELSE TokenAt(t, v)
  BY <1>1
<1>3. IsFiniteSet(more) /\ \A v \in more : v \in Word /\ Lower(v) /\ Path(v) \subseteq more
  BY DEF IsTrail
<1>4. \A w \in DOMAIN words : w \in Word
  BY DEF IsEntered
<1>5. IsFiniteSet(P)
  <2> DEFINE S == {Path(w) : w \in DOMAIN words}  f == [w \in DOMAIN words |-> Path(w)]
  <2>1. f \in Surjection(DOMAIN words, S)
    BY DEF Surjection
  <2>2. \A T \in S : IsFiniteSet(T)
    BY <1>4, PathIs
  <2>3. IsFiniteSet(S)
    <3> HIDE DEF S, f
    <3> QED BY <2>1, FS_Surjection DEF IsEntered
  <2> HIDE DEF S
  <2>4. IsFiniteSet(UNION S)
    BY <2>2, <2>3, FS_UNION
  <2> QED BY <2>4 DEF S
<1>6. \A v \in P : v \in Word /\ Lower(v) /\ Path(v) \subseteq P
  <2>1. SUFFICES ASSUME NEW w \in DOMAIN words, NEW v \in Path(w)
                 PROVE  v \in Word /\ Lower(v) /\ Path(v) \subseteq P
    OBVIOUS
  <2>2. w \in Word /\ v \in Word /\ Lower(v) /\ Path(v) \subseteq Path(w)
    BY <1>4, PathIs
  <2> QED BY <2>2
<1>7. \A v \in D : TokenAt(t, v) \in Token
  BY DEF TokenAt, IsTrie, Token
<1>8. \A v \in DOMAIN words : words[v] \in Token
  BY DEF IsEntered, Token
<1> HIDE DEF P, W
<1>9. IsFiniteSet(D)
  <2>1. IsFiniteSet(DOMAIN t \cup more)
    BY <1>3, FS_Union DEF IsTrie
  <2> QED BY <1>5, <2>1, FS_Union
<1>10. D \subseteq Word /\ <<>> \in D /\ \A v \in D : Path(v) \subseteq D /\ Lower(v)
  BY <1>3, <1>6 DEF IsTrie
<1>11. \A v \in D : W[v] \in Token
  BY <1>2, <1>7, <1>8
<1> HIDE DEF D
<1>12. IsTrie(W)
  BY <1>2, <1>9, <1>10, <1>11 DEF IsTrie
<1> QED BY <1>2, <1>12 DEF W, D, P

\* The trie of a new lexer.
LEMMA FreshIs ==
  /\ IsTrie(Fresh)
  /\ DOMAIN Fresh = {<<>>}
  /\ \A w : TokenAt(Fresh, w) = NONE
<1>1. DOMAIN Fresh = {<<>>} /\ \A v \in DOMAIN Fresh : Fresh[v] = NONE
  BY DEF Fresh
<1>2. IsFiniteSet(DOMAIN Fresh)
  BY <1>1, FS_Singleton
<1>3. <<>> \in Word
  <2>1. <<>> \in Seq(0..Letters) /\ Len(<<>>) = 0 /\ 0 <= MaxWord /\ 1..Len(<<>>) - 1 = {}
    BY BoundAssumption
  <2> QED BY <2>1, WordIs
<1>4. Lower(<<>>) /\ Path(<<>>) \subseteq {<<>>}
  <2>1. Lower(<<>>)
    BY DEF Lower
  <2>2. \A n \in 0..Len(<<>>) : SubSeq(<<>>, 1, n) = <<>>
    OBVIOUS
  <2> QED BY <2>1, <2>2 DEF Path
<1> QED BY <1>1, <1>2, <1>3, <1>4 DEF IsTrie, Token, TokenAt

-----------------------------------------------------------------------------
(* What load enters. *)

IsFile(f) == f \in Seq(Item)

LEMMA ItemIs ==
  ASSUME NEW x \in Item
  PROVE  /\ x.word \in Word \/ x.word = <<Strange>>
         /\ x.number \in KeyWord \cup {Unreadable}
  BY DEF Item, WordItem, NumberItem

LEMMA NumberIsRefused ==
  /\ ~Lower(<<Strange>>)
  /\ Path(<<Strange>>) = {<<>>}
<1>1. Strange \notin Letter /\ 0 \in 0..1
  BY BoundAssumption DEF Letter, Strange
<1>2. ~Lower(<<Strange>>)
  BY <1>1 DEF Lower
<1>3. {SubSeq(<<Strange>>, 1, n) : n \in 0..Len(<<Strange>>)} = {<<>>, <<Strange>>}
  <2> DEFINE x == Strange
  <2> HIDE DEF x
  <2>1. SubSeq(<<x>>, 1, 0) = <<>> /\ SubSeq(<<x>>, 1, 1) = <<x>> /\ Len(<<x>>) = 1
    <3>1. Len(<<x>>) = 1 /\ 1 \in Int /\ 0 \in Int /\ 0 < 1
      OBVIOUS
    <3>2. <<x>> \in Seq({x})
      OBVIOUS
    <3> QED BY <3>1, <3>2, SubSeqFull, SubSeqEmpty
  <2>2. \A n \in 0..1 : n = 0 \/ n = 1
    OBVIOUS
  <2>3. 0 \in 0..1 /\ 1 \in 0..1
    OBVIOUS
  <2>4. {SubSeq(<<x>>, 1, n) : n \in 0..1} = {<<>>, <<x>>}
    BY <2>1, <2>2, <2>3
  <2> QED BY <2>1, <2>4 DEF x
<1>4. Lower(<<>>)
  BY DEF Lower
<1> QED BY <1>2, <1>3, <1>4 DEF Path

LEMMA TrailIs ==
  ASSUME NEW w, w \in Word \/ w = <<Strange>>
  PROVE  IsTrail({}) /\ IsTrail(Path(w))
<1>1. IsTrail({})
  BY FS_EmptySet DEF IsTrail
<1>2. CASE w \in Word
  BY <1>1, <1>2, PathIs DEF IsTrail
<1>3. CASE w = <<Strange>>
  <2>1. IsFiniteSet({<<>>}) /\ DOMAIN Fresh = {<<>>}
    BY FS_Singleton, FreshIs
  <2> QED BY <1>1, <1>3, <2>1, NumberIsRefused, FreshIs DEF IsTrail, IsTrie
<1> QED BY <1>2, <1>3

\* The pairs that are entered have words that are all different and are not
\* refused.
LEMMA LoadedIs ==
  ASSUME NEW t, IsTrie(t), NEW f, IsFile(f), NEW n, AreGood(t, f, n)
  PROVE  /\ n \in 1..Len(f) + 1
         /\ IsEntered(Entries(f, n - 1))
         /\ DOMAIN Entries(f, n - 1) = {Name(f, i) : i \in 1..n - 1}
         /\ \A i \in 1..n - 1 : Entries(f, n - 1)[Name(f, i)] = Kind(f, i)
         /\ IsTrail({}) /\ (~Stops(f, n) => IsTrail(Path(Name(f, n))))
<1>1. Len(f) \in Nat /\ n \in 1..Len(f) + 1 /\ n \in Nat /\ n >= 1
  BY DEF AreGood, IsFile
<1>2. \A i \in 1..n - 1 : ~Stops(f, i) /\ ~Clashes(t, f, i)
  BY DEF AreGood, Bad
<1>3. \A i \in Nat : i >= 1 /\ ~Stops(f, i) => f[2 * i - 1] \in Item /\ f[2 * i] \in Item
  <2>1. ASSUME NEW i \in Nat, i >= 1, ~Stops(f, i) PROVE f[2 * i - 1] \in Item /\ f[2 * i] \in Item
    <3>1. ~ (2 * i > Len(f))
      BY <2>1 DEF Stops
    <3>2. 2 * i - 1 \in 1..Len(f) /\ 2 * i \in 1..Len(f)
      BY <1>1, <2>1, <3>1
    <3> QED BY <3>2 DEF IsFile
  <2> QED BY <2>1
<1>4. \A i \in 1..n - 1 : i \in Nat /\ i >= 1
  BY <1>1
<1>5. ASSUME NEW i \in 1..n - 1
      PROVE  /\ Name(f, i) \in Word /\ Lower(Name(f, i)) /\ TokenAt(t, Name(f, i)) = NONE
             /\ Kind(f, i) \in KeyWord
             /\ \A j \in 1..n - 1 : Name(f, j) = Name(f, i) => j = i
  <2>1. Kind(f, i) \in KeyWord
    BY <1>2, <1>3, <1>4, ItemIs DEF Stops, Kind
  <2>2. \A k \in 1..n - 1 : ~Refused(t, Name(f, k)) /\ ~ \E j \in 1..k - 1 : Name(f, j) = Name(f, k)
    BY <1>2 DEF Clashes
  <2>3. Lower(Name(f, i)) /\ TokenAt(t, Name(f, i)) = NONE
    BY <2>2 DEF Refused
  <2>4. Name(f, i) \in Word
    BY <1>2, <1>3, <1>4, <2>3, ItemIs, NumberIsRefused DEF Name
  <2>5. ASSUME NEW j \in 1..n - 1, Name(f, j) = Name(f, i) PROVE j = i
    <3>1. i \in Nat /\ j \in Nat /\ (j < i => j \in 1..i - 1) /\ (i < j => i \in 1..j - 1)
      BY <1>1
    <3>2. ~ (j < i) /\ ~ (i < j)
      BY <2>2, <2>5, <3>1
    <3> QED BY <3>1, <3>2
  <2> QED BY <2>1, <2>3, <2>4, <2>5
<1> DEFINE N == {Name(f, i) : i \in 1..n - 1}
<1>6. DOMAIN Entries(f, n - 1) = N
  BY DEF Entries
<1>7. ASSUME NEW i \in 1..n - 1 PROVE Entries(f, n - 1)[Name(f, i)] = Kind(f, i)
  <2>1. (CHOOSE j \in 1..n - 1 : Name(f, j) = Name(f, i)) = i
    BY <1>5
  <2>2. Entries(f, n - 1)[Name(f, i)] = Kind(f, CHOOSE j \in 1..n - 1 : Name(f, j) = Name(f, i))
    BY DEF Entries
  <2> QED BY <2>1, <2>2
<1>8. IsFiniteSet(N)
  <2> DEFINE g == [i \in 1..n - 1 |-> Name(f, i)]
  <2>1. g \in Surjection(1..n - 1, N)
    BY DEF Surjection
  <2>2. IsFiniteSet(1..n - 1)
    <3>1. 1 \in Int /\ n - 1 \in Int
      BY <1>1
    <3> QED BY <3>1, FS_Interval
  <2> HIDE DEF g, N
  <2> QED BY <2>1, <2>2, FS_Surjection
<1>9. IsEntered(Entries(f, n - 1))
  <2>1. ASSUME NEW w \in N
        PROVE  w \in Word /\ Lower(w) /\ Entries(f, n - 1)[w] \in KeyWord \cup OtherToken
    <3>1. PICK i \in 1..n - 1 : w = Name(f, i)
      OBVIOUS
    <3> QED BY <1>5, <1>7, <3>1
  <2> HIDE DEF N
  <2> QED BY <1>6, <1>8, <2>1 DEF IsEntered
<1>10. IsTrail({}) /\ (~Stops(f, n) => IsTrail(Path(Name(f, n))))
  <2>1. <<Strange>> = <<Strange>>
    OBVIOUS
  <2>2. IsTrail({})
    BY <2>1, TrailIs
  <2>3. CASE ~Stops(f, n)
    BY <1>1, <1>3, <2>3, ItemIs, TrailIs DEF Name
  <2> QED BY <2>2, <2>3
<1> QED BY <1>1, <1>6, <1>7, <1>9, <1>10

-----------------------------------------------------------------------------
(* What save writes. *)

Keys(t) == {w \in DOMAIN t : t[w] \in KeyWord}
Part(t, w) == (IF w = <<>> THEN <<>> ELSE <<WordItem(w)>>) \o <<NumberItem(t[w])>>

LEMMA ListedIs ==
  ASSUME NEW t, IsTrie(t)
  PROVE  /\ Listed(t) \in Seq(Keys(t))
         /\ \A i, j \in DOMAIN Listed(t) : i # j => Listed(t)[i] # Listed(t)[j]
         /\ \A w \in Keys(t) : \E i \in DOMAIN Listed(t) : Listed(t)[i] = w
<1>1. Keys(t) \in SUBSET DOMAIN t /\ IsFiniteSet(DOMAIN t)
  BY DEF Keys, IsTrie
<1>2. IsFiniteSet(Keys(t))
  BY <1>1, FS_Subset
<1>3. Keys(t) \in SUBSET Seq(Int)
  <2>1. SUFFICES ASSUME NEW w \in Keys(t) PROVE w \in Seq(Int)
    OBVIOUS
  <2>2. w \in Word
    BY <1>1 DEF IsTrie
  <2>3. w \in Seq(0..Letters) /\ 0..Letters \subseteq Int
    BY <2>2, WordIs
  <2> QED BY <2>3, SeqMonotonic
<1>4. Listed(t) = Visited(Keys(t))
  BY DEF Listed, Keys
<1> QED BY <1>2, <1>3, <1>4, VisitedNodes

LEMMA WrittenIs ==
  ASSUME NEW t, IsTrie(t)
  PROVE  Written(t) \in Seq(Keys(t))
<1> DEFINE all == Listed(t)
           long == {i \in DOMAIN all : Len(all[i]) > LongestSaved}
           m == CHOOSE i \in long : \A j \in long : i <= j
<1>1. all \in Seq(Keys(t)) /\ Len(all) \in Nat /\ DOMAIN all = 1..Len(all)
  BY ListedIs
<1>2. CASE long = {}
  BY <1>1, <1>2 DEF Written
<1>3. CASE long # {}
  <2>1. long \in SUBSET Nat
    BY <1>1
  <2>2. \E i \in long : \A j \in long : i <= j
    <3> HIDE DEF long
    <3> QED BY <1>3, <2>1, Lowest
  <2>3. m \in DOMAIN all
    BY <2>2
  <2>4. Written(t) = SubSeq(all, 1, m - 1)
    BY <1>3 DEF Written
  <2> HIDE DEF m, all
  <2>5. m - 1 \in 0..Len(all)
    BY <1>1, <2>3
  <2> QED BY <1>1, <2>4, <2>5, FirstLetters DEF all
<1> QED BY <1>2, <1>3

LEMMA PartsAre ==
  ASSUME NEW t, IsTrie(t), NEW words \in Seq(Keys(t))
  PROVE  /\ [i \in DOMAIN words |-> Part(t, words[i])] \in Seq(Seq(Item))
         /\ Len([i \in DOMAIN words |-> Part(t, words[i])]) = Len(words)
         /\ Items(t, words) = FlattenSeq([i \in DOMAIN words |-> Part(t, words[i])])
<1> DEFINE n == Len(words)  P == [i \in DOMAIN words |-> Part(t, words[i])]
<1>1. n \in Nat /\ DOMAIN words = 1..n /\ \A i \in 1..n : words[i] \in Keys(t)
  OBVIOUS
<1>2. ASSUME NEW w \in Keys(t) PROVE Part(t, w) \in Seq(Item)
  <2>1. w \in Word /\ t[w] \in KeyWord
    BY DEF Keys, IsTrie
  <2>2. NumberItem(t[w]) \in Item /\ (w # <<>> => WordItem(w) \in Item)
    BY <2>1 DEF Item
  <2>3. <<NumberItem(t[w])>> \in Seq(Item) /\ (w # <<>> => <<WordItem(w)>> \in Seq(Item)) /\ <<>> \in Seq(Item)
    BY <2>2
  <2>4. \A p, r \in Seq(Item) : p \o r \in Seq(Item)
    BY Joined
  <2> QED BY ONLY <2>3, <2>4, Zenon DEF Part
<1>3. P \in Seq(Seq(Item)) /\ Len(P) = n
  <2> DEFINE S == Seq(Item)
  <2>1. \A i \in 1..n : P[i] \in S
    BY <1>1, <1>2
  <2>2. P \in [1..n -> S]
    BY <1>1, <2>1
  <2> HIDE DEF S, P
  <2>3. P \in Seq(S) /\ Len(P) = n
    BY <1>1, <2>2
  <2> QED BY <2>3 DEF S
<1>4. Items(t, words) = FlattenSeq(P)
  BY DEF Items, Part
<1> QED BY <1>3, <1>4

LEMMA SavedIs ==
  ASSUME NEW t, IsTrie(t)
  PROVE  IsFile(Items(t, Written(t)))
  BY WrittenIs, PartsAre, PartsStand DEF IsFile

\* What is left of a file when writing it fails can be read as well.
LEMMA CutIs ==
  ASSUME NEW item \in Item
  PROVE  Cut(item) \subseteq Item
<1>1. CASE item \in {NumberItem(k) : k \in KeyWord}
  <2>1. item.number # Unreadable
    BY <1>1, TokenAssumption DEF NumberItem
  <2> QED BY <2>1 DEF Cut, Item
<1>2. ASSUME NEW w \in Word \ {<<>>}, item = WordItem(w) PROVE Cut(item) \subseteq Item
  <2>1. item.number = Unreadable /\ item.word = w
    BY <1>2 DEF WordItem
  <2>2. w \in Seq(0..Letters) /\ Len(w) \in Nat /\ Len(w) <= MaxWord
        /\ \A i \in 1..Len(w) - 1 : w[i] # Strange
    BY WordIs
  <2>3. ASSUME NEW n \in 1..Len(w) PROVE SubSeq(w, 1, n) \in Word \ {<<>>}
    <3> DEFINE v == SubSeq(w, 1, n)
    <3>1. v \in Seq(0..Letters) /\ Len(v) = n /\ \A i \in 1..n : v[i] = w[i]
      <4>1. n \in 0..Len(w)
        BY <2>2
      <4> QED BY <2>2, <4>1, FirstLetters
    <3>2. n \in Nat /\ n <= MaxWord /\ \A i \in 1..n - 1 : i \in 1..n /\ i \in 1..Len(w) - 1
      BY <2>2, BoundAssumption
    <3> HIDE DEF v
    <3>3. v \in Word
      BY <2>2, <3>1, <3>2, WordIs
    <3>4. v # <<>>
      BY <3>1
    <3> QED BY <3>3, <3>4 DEF v
  <2>4. Cut(item) = {WordItem(SubSeq(w, 1, n)) : n \in 1..Len(w)}
    BY <2>1 DEF Cut
  <2> QED BY <2>3, <2>4 DEF Item
<1> QED BY <1>1, <1>2 DEF Item

LEMMA CutsAre ==
  ASSUME NEW f, IsFile(f), NEW g \in Cuts(f)
  PROVE  IsFile(g)
<1>1. CASE g = <<>>
  BY <1>1 DEF IsFile
<1>2. ASSUME NEW n \in 1..Len(f), NEW last \in Cut(f[n]), g = Append(SubSeq(f, 1, n - 1), last)
      PROVE  IsFile(g)
  <2>1. f \in Seq(Item) /\ f[n] \in Item
    BY DEF IsFile
  <2>2. last \in Item
    BY <2>1, CutIs
  <2>3. SubSeq(f, 1, n - 1) \in Seq(Item)
    <3>1. n - 1 \in 0..Len(f)
      BY <2>1
    <3> QED BY <2>1, <3>1, FirstLetters
  <2> QED BY <1>2, <2>2, <2>3 DEF IsFile
<1> QED BY <1>1, <1>2 DEF Cuts

-----------------------------------------------------------------------------
(* The trie stays a tree. *)

TrieInv == IsTrie(root) /\ IsFile(file) /\ kept.known \in BOOLEAN /\ failed \in BOOLEAN

LEMMA EntersOne ==
  ASSUME NEW w \in Word, Lower(w), NEW tok \in KeyWord \cup OtherToken
  PROVE  IsEntered([v \in {w} |-> tok]) /\ DOMAIN [v \in {w} |-> tok] = {w}
  BY FS_Singleton DEF IsEntered

LEMMA EntersNothing == IsEntered(<<>>) /\ DOMAIN <<>> = {}
<1>1. DOMAIN <<>> = {}
  OBVIOUS
<1> QED BY <1>1, FS_EmptySet DEF IsEntered

LEMMA TrieInvInductive == TrieInv /\ [Next]_vars => TrieInv'
<1> SUFFICES ASSUME TrieInv, [Next]_vars PROVE TrieInv'
  OBVIOUS
<1>1. IsTrie(root) /\ IsFile(file) /\ kept.known \in BOOLEAN
  BY DEF TrieInv
<1>2. IsTrie(root')  /\ IsFile(file') /\ (kept.known \in BOOLEAN)' => TrieInv'
  <2>1. failed' \in BOOLEAN
    <3>1. failed' = FALSE \/ failed' = TRUE \/ failed' = failed
      BY Zenon DEF Next, vars, init_keyword, load, LoadNothing, save, SaveNothing, Restart, Edit
    <3> QED BY <3>1, Zenon DEF TrieInv
  <2> QED BY <2>1 DEF TrieInv, IsTrie, IsFile
<1>3. ASSUME NEW w \in Word, NEW tok \in KeyWord \cup OtherToken, init_keyword(w, tok) PROVE TrieInv'
  <2>1. CASE Refused(root, w)
    <3>1. root' = With(root, <<>>, Path(w)) /\ UNCHANGED <<file, kept>>
      BY <1>3, <2>1 DEF init_keyword
    <3>2. IsTrie(root')
      BY <1>1, <3>1, EntersNothing, TrailIs, WithIs
    <3> QED BY <1>1, <1>2, <3>1, <3>2
  <2>2. CASE ~Refused(root, w)
    <3>1. root' = With(root, [v \in {w} |-> tok], {}) /\ UNCHANGED <<file, kept>>
      BY <1>3, <2>2 DEF init_keyword
    <3>2. IsTrie(root')
      BY <1>1, <2>2, <3>1, EntersOne, TrailIs, WithIs DEF Refused
    <3> QED BY <1>1, <1>2, <3>1, <3>2
  <2> QED BY <2>1, <2>2
<1>4. ASSUME load PROVE TrieInv'
  <2>1. PICK n :
          /\ AreGood(root, file, n)
          /\ \/ root' = With(root, Entries(file, n - 1), {})
             \/ ~Stops(file, n) /\ root' = With(root, Entries(file, n - 1), Path(Name(file, n)))
    BY <1>4, LoadIs, Zenon
  <2>2. UNCHANGED <<file, kept>>
    BY <1>4 DEF load
  <2>3. /\ IsEntered(Entries(file, n - 1)) /\ IsTrail({})
        /\ ~Stops(file, n) => IsTrail(Path(Name(file, n)))
    BY <1>1, <2>1, LoadedIs
  <2>4. IsTrie(root')
    <3>1. CASE root' = With(root, Entries(file, n - 1), {})
      BY <1>1, <2>3, <3>1, WithIs
    <3>2. CASE ~Stops(file, n) /\ root' = With(root, Entries(file, n - 1), Path(Name(file, n)))
      BY <1>1, <2>3, <3>2, WithIs
    <3> QED BY <2>1, <3>1, <3>2
  <2> QED BY <1>1, <1>2, <2>2, <2>4
<1>5. ASSUME save PROVE TrieInv'
  <2>1. /\ UNCHANGED root /\ kept' \in {Known(KeywordsOf(root)), Unknown, kept}
        /\ \/ file' = Items(root, Written(root)) \/ file' = file
           \/ file' \in Cuts(Items(root, Written(root)))
    BY <1>5 DEF save
  <2>2. \A k : Known(k).known \in BOOLEAN /\ Unknown.known \in BOOLEAN
    BY DEF Known, Unknown
  <2>3. kept'.known \in BOOLEAN
    BY <1>1, <2>1, <2>2
  <2>4. IsFile(Items(root, Written(root)))
    BY <1>1, SavedIs
  <2>5. IsFile(file')
    BY <1>1, <2>1, <2>4, CutsAre
  <2> QED BY <1>1, <1>2, <2>1, <2>3, <2>5
<1>6. ASSUME Edit PROVE TrieInv'
  <2>1. UNCHANGED root /\ kept' = Unknown
    BY <1>6 DEF Edit
  <2>2. IsFile(file')
    <3>1. CASE file' = <<>>
      BY <3>1 DEF IsFile
    <3>2. CASE \E item \in Item : file' = Append(file, item)
      BY <1>1, <3>2 DEF IsFile
    <3> QED BY <1>6, <3>1, <3>2 DEF Edit
  <2> QED BY <1>1, <1>2, <2>1, <2>2 DEF Unknown
<1>7. ASSUME Restart PROVE TrieInv'
  BY <1>1, <1>2, <1>7, FreshIs DEF Restart
<1>8. ASSUME UNCHANGED <<root, file, kept>> PROVE TrieInv'
  BY <1>1, <1>2, <1>8
<1> QED BY <1>3, <1>4, <1>5, <1>6, <1>7, <1>8 DEF Next, LoadNothing, SaveNothing, vars

LEMMA TrieInvHolds == Spec => []TrieInv
<1>1. Init => TrieInv
  <2>1. Init => failed \in BOOLEAN
    BY Zenon DEF Init
  <2> QED BY <2>1, FreshIs DEF Init, TrieInv, IsFile, Unknown
<1> QED BY <1>1, TrieInvInductive, PTL DEF Spec

\* The nodes of the trie form a tree, from the root on, and what is in the
\* file is what the reader can read.
THEOREM TrieStaysATree == Spec => []TypeOK
<1>1. TrieInv => TypeOK
  <2> SUFFICES ASSUME TrieInv PROVE TypeOK
    OBVIOUS
  <2>1. \A v \in DOMAIN root : Path(v) \subseteq DOMAIN root /\ Lower(v)
    BY DEF TrieInv, IsTrie
  <2>2. \A v \in DOMAIN root : v \in Word
    BY DEF TrieInv, IsTrie
  <2>3. \A v \in DOMAIN root : Len(v) <= MaxWord
    BY <2>2, WordIs
  <2> QED BY <2>1, <2>3 DEF TrieInv, IsTrie, IsFile, Token, TypeOK
<1> QED BY <1>1, TrieInvHolds, PTL

-----------------------------------------------------------------------------
(* Nodes lead to words. *)

LEMMA SpelledWith ==
  ASSUME NEW t, IsTrie(t), NEW words, IsEntered(words), NEW more, IsTrail(more)
  PROVE  Spelled(With(t, words, more)) = Spelled(t) \cup DOMAIN words
<1> DEFINE W == With(t, words, more)
<1>1. /\ DOMAIN W = DOMAIN t \cup more \cup UNION {Path(w) : w \in DOMAIN words}
      /\ \A v \in DOMAIN W : W[v] = IF v \in DOMAIN words THEN words[v] ELSE TokenAt(t, v)
  BY SMTT(30), WithIs
<1>2. \A w \in DOMAIN words : w \in DOMAIN W /\ words[w] # NONE
  <2>1. \A w \in DOMAIN words : w \in Path(w)
    BY PathIs DEF IsEntered
  <2>2. NONE \notin KeyWord \cup OtherToken
    BY TokenAssumption
  <2> QED BY <1>1, <2>1, <2>2 DEF IsEntered
<1> HIDE DEF W
<1>3. Spelled(W) = Spelled(t) \cup DOMAIN words
  BY <1>1, <1>2 DEF Spelled, TokenAt
<1> QED BY <1>3 DEF W

LEMMA LeadsWith ==
  ASSUME NEW t, IsTrie(t), LeadsToWords(t), NEW words, IsEntered(words)
  PROVE  LeadsToWords(With(t, words, {}))
<1> DEFINE W == With(t, words, {})
<1>1. IsTrail({})
  BY FS_EmptySet DEF IsTrail
<1>2. DOMAIN W = DOMAIN t \cup UNION {Path(w) : w \in DOMAIN words}
  <2>1. DOMAIN W = DOMAIN t \cup {} \cup UNION {Path(w) : w \in DOMAIN words}
    BY <1>1, WithIs, Zenon
  <2> QED BY <2>1, Zenon
<1>3. Spelled(W) = Spelled(t) \cup DOMAIN words
  BY <1>1, SpelledWith
<1>4. DOMAIN t = {<<>>} \cup UNION {Path(w) : w \in Spelled(t)}
  BY DEF LeadsToWords
<1> HIDE DEF W
<1>5. DOMAIN W = {<<>>} \cup UNION {Path(w) : w \in Spelled(W)}
  BY <1>2, <1>3, <1>4
<1> QED BY <1>5 DEF W, LeadsToWords

\* As long as no insertion throws, every node of the trie lies on the way to
\* a word: after a load of a good file, after each keyword, and in a new lexer.
THEOREM NodesAreOnTheWay == Spec => NodesLeadToWords
<1> DEFINE Leads == LeadsToWords(root) /\ answer'[2] # "threw" => LeadsToWords(root')
<1>1. ASSUME TrieInv, NEW w \in Word, NEW tok \in KeyWord \cup OtherToken, init_keyword(w, tok) PROVE Leads
  <2>1. CASE Refused(root, w)
    <3>1. answer'[2] = "threw"
      BY <1>1, <2>1 DEF init_keyword
    <3> QED BY <3>1
  <2>2. CASE ~Refused(root, w)
    <3>1. root' = With(root, [v \in {w} |-> tok], {})
      BY <1>1, <2>2 DEF init_keyword
    <3> QED BY <1>1, <2>2, <3>1, EntersOne, LeadsWith DEF Refused, TrieInv
  <2> QED BY <2>1, <2>2
<1>2. ASSUME TrieInv, load PROVE Leads
  <2>1. PICK n : /\ AreGood(root, file, n)
                 /\ \/ root' = With(root, Entries(file, n - 1), {})
                    \/ answer' = <<"load", "threw">>
    BY <1>2, LoadIs, Zenon
  <2>2. IsEntered(Entries(file, n - 1))
    BY <1>2, <2>1, LoadedIs DEF TrieInv
  <2>3. CASE root' = With(root, Entries(file, n - 1), {})
    BY <1>2, <2>2, <2>3, LeadsWith DEF TrieInv
  <2>4. CASE answer' = <<"load", "threw">>
    BY <2>4
  <2> QED BY <2>1, <2>3, <2>4
<1>3. ASSUME Restart PROVE Leads
  <2>1. DOMAIN Fresh = {<<>>} /\ Spelled(Fresh) = {}
    BY DEF Fresh, Spelled
  <2>2. LeadsToWords(Fresh)
    BY <2>1 DEF LeadsToWords
  <2> QED BY <1>3, <2>2 DEF Restart
<1>4. UNCHANGED root => Leads
  BY DEF LeadsToWords, Spelled
<1>5. TrieInv /\ [Next]_vars => [Leads]_vars
  BY <1>1, <1>2, <1>3, <1>4 DEF Next, LoadNothing, SaveNothing, save, Edit
<1> QED BY <1>5, TrieInvHolds, PTL DEF Spec, NodesLeadToWords

-----------------------------------------------------------------------------
(* What save answers. *)

LEMMA PartIs ==
  ASSUME NEW t, NEW w
  PROVE  /\ w = <<>> => Len(Part(t, w)) = 1 /\ Part(t, w)[1] = NumberItem(t[w])
         /\ w # <<>> => /\ Len(Part(t, w)) = 2
                        /\ Part(t, w)[1] = WordItem(w)
                        /\ Part(t, w)[2] = NumberItem(t[w])
<1> DEFINE a == WordItem(w)  b == NumberItem(t[w])
<1> HIDE DEF a, b
<1>1. <<>> \o <<b>> = <<b>> /\ <<a>> \o <<b>> = <<a, b>>
  <2>1. <<b>> \in Seq({a, b}) /\ <<a>> \in Seq({a, b})
    OBVIOUS
  <2>2. <<>> \o <<b>> = <<b>>
    BY <2>1, ConcatEmptySeq
  <2>3. <<a>> \o <<b>> = <<a, b>>
    <3>1. Len(<<a>>) = 1 /\ Len(<<b>>) = 1 /\ Len(<<a, b>>) = 2
      OBVIOUS
    <3>2. \A i \in 1..2 : (i <= 1 => i = 1) /\ (~ (i <= 1) => i = 2 /\ i - 1 = 1)
      OBVIOUS
    <3>3. /\ Len(<<a>> \o <<b>>) = 2
          /\ \A i \in 1..2 : (<<a>> \o <<b>>)[i] = IF i <= 1 THEN <<a>>[i] ELSE <<b>>[i - 1]
      BY <2>1, <3>1, ConcatProperties
    <3>4. \A i \in 1..2 : (<<a>> \o <<b>>)[i] = <<a, b>>[i]
      BY <3>2, <3>3
    <3>5. <<a, b>> \in Seq({a, b}) /\ <<a>> \o <<b>> \in Seq({a, b})
      BY <2>1, ConcatProperties
    <3> QED BY ONLY <3>1, <3>3, <3>4, <3>5, SeqEqual
  <2> QED BY <2>2, <2>3
<1>2. Len(<<b>>) = 1 /\ <<b>>[1] = b /\ Len(<<a, b>>) = 2 /\ <<a, b>>[1] = a /\ <<a, b>>[2] = b
  OBVIOUS
<1>3. Part(t, w) = (IF w = <<>> THEN <<>> ELSE <<a>>) \o <<b>>
  BY DEF Part, a, b
<1> QED BY <1>1, <1>2, <1>3 DEF a, b

LEMMA AllAreWritten ==
  ASSUME NEW t, IsTrie(t), NEW w \in Keys(t), NEW f, f = Items(t, Listed(t))
  PROVE  \E i \in DOMAIN f : /\ f[i] = NumberItem(t[w])
                             /\ w # <<>> => i > 1 /\ f[i - 1] = WordItem(w)
<1> DEFINE words == Listed(t)  P == [i \in DOMAIN words |-> Part(t, words[i])]
<1>1. words \in Seq(Keys(t)) /\ DOMAIN words = 1..Len(words)
  BY ListedIs
<1>2. P \in Seq(Seq(Item)) /\ Len(P) = Len(words) /\ f = FlattenSeq(P)
  BY <1>1, PartsAre
<1>3. PICK k \in 1..Len(words) : words[k] = w
  BY <1>1, ListedIs
<1>4. P[k] = Part(t, w)
  BY <1>1, <1>3
<1> HIDE DEF P, words
<1>5. PICK b \in Nat : Stands(P[k], f, b)
  BY <1>2, <1>3, PartsStand
<1>6. f \in Seq(Item)
  BY <1>2, PartsStand
<1>7. Len(f) \in Nat /\ DOMAIN f = 1..Len(f)
  BY <1>6
<1>8. b + Len(Part(t, w)) <= Len(f) /\ \A j \in 1..Len(Part(t, w)) : f[b + j] = Part(t, w)[j]
  BY <1>4, <1>5 DEF Stands
<1>9. CASE w = <<>>
  <2>1. Len(Part(t, w)) = 1 /\ Part(t, w)[1] = NumberItem(t[w])
    BY <1>9, PartIs
  <2>2. b + 1 \in 1..Len(f) /\ 1 \in 1..1
    BY <1>7, <1>8, <2>1
  <2>3. f[b + 1] = NumberItem(t[w])
    BY <1>8, <2>1, <2>2
  <2> QED BY <1>7, <1>9, <2>2, <2>3
<1>10. CASE w # <<>>
  <2>1. Len(Part(t, w)) = 2 /\ Part(t, w)[1] = WordItem(w) /\ Part(t, w)[2] = NumberItem(t[w])
    BY <1>10, PartIs
  <2>2. b + 2 \in 1..Len(f) /\ 1 \in 1..2 /\ 2 \in 1..2 /\ b + 2 > 1 /\ (b + 2) - 1 = b + 1
    BY <1>7, <1>8, <2>1
  <2>3. f[b + 2] = NumberItem(t[w]) /\ f[b + 1] = WordItem(w)
    BY <1>8, <2>1, <2>2
  <2> QED BY <1>7, <2>2, <2>3
<1> QED BY <1>9, <1>10

\* When save returns true, all keywords are in the file, or its stream has failed.
THEOREM SaveIsHonest == Spec => SaveTellsTheTruth
<1> DEFINE Told == answer' = <<"save", "true">> /\ ~failed' =>
                     \A k \in KeywordsOf(root) :
                       \E i \in DOMAIN file' :
                         /\ file'[i] = NumberItem(k[2])
                         /\ k[1] # <<>> => i > 1 /\ file'[i - 1] = WordItem(k[1])
<1>1. \A x : <<"init_keyword", x>> # <<"save", "true">> /\ <<"load", x>> # <<"save", "true">>
             /\ <<"Lexer", x>> # <<"save", "true">> /\ <<"edit", x>> # <<"save", "true">>
  OBVIOUS
<1>2. <<"save", "false">> # <<"save", "true">>
  OBVIOUS
<1>3. ASSUME TrieInv, save PROVE Told
  <2>1. SUFFICES ASSUME answer' = <<"save", "true">>, ~failed', NEW k \in KeywordsOf(root)
                 PROVE  \E i \in DOMAIN file' :
                          /\ file'[i] = NumberItem(k[2])
                          /\ k[1] # <<>> => i > 1 /\ file'[i - 1] = WordItem(k[1])
    OBVIOUS
  <2>2. file' = Items(root, Listed(root))
    BY <1>2, <1>3, <2>1 DEF save
  <2>3. PICK w \in Keys(root) : k = <<w, root[w]>>
    BY DEF KeywordsOf, Keys
  <2>4. k[1] = w /\ k[2] = root[w]
    BY <2>3
  <2>5. \E i \in DOMAIN file' : /\ file'[i] = NumberItem(root[w])
                                /\ w # <<>> => i > 1 /\ file'[i - 1] = WordItem(w)
    BY <1>3, <2>2, AllAreWritten DEF TrieInv
  <2> QED BY <2>4, <2>5
<1>4. ASSUME NEW w, NEW tok, init_keyword(w, tok) PROVE Told
  <2>1. \E x : answer' = <<"init_keyword", x>>
    BY <1>4 DEF init_keyword
  <2> QED BY <1>1, <2>1
<1>5. ASSUME load \/ LoadNothing \/ SaveNothing \/ Restart \/ Edit PROVE Told
  <2>1. \E x : answer' \in {<<"load", x>>, <<"save", "false">>, <<"Lexer", x>>, <<"edit", x>>}
    BY <1>5 DEF load, Loads, LoadNothing, SaveNothing, Restart, Edit
  <2> QED BY <1>1, <1>2, <2>1
<1>6. TrieInv /\ [Next]_vars => [Told]_vars
  BY <1>3, <1>4, <1>5 DEF Next
<1> QED BY <1>6, TrieInvHolds, PTL DEF Spec, SaveTellsTheTruth

-----------------------------------------------------------------------------
(* What save wrote, load reads. *)

\* The file f consists of the m pairs in S, each once.
HasPairs(f, S, m) ==
  /\ Len(f) = 2 * m
  /\ \A i \in 1..m : <<Name(f, i), Kind(f, i)>> \in S
  /\ \A k \in S : \E i \in 1..m : k = <<Name(f, i), Kind(f, i)>>
  /\ \A i, j \in 1..m : i # j => Name(f, i) # Name(f, j)

AreKeywords(S) == \A k \in S : k[1] \in Word /\ Lower(k[1]) /\ k[2] \in KeyWord

LEMMA SavedPairs ==
  ASSUME NEW t, IsTrie(t), <<>> \notin Keys(t), NEW f, f = Items(t, Listed(t))
  PROVE  AreKeywords(KeywordsOf(t)) /\ \E m \in Nat : HasPairs(f, KeywordsOf(t), m)
<1> DEFINE words == Listed(t)  m == Len(words)  P == [i \in DOMAIN words |-> Part(t, words[i])]
<1>1. /\ words \in Seq(Keys(t)) /\ m \in Nat /\ DOMAIN words = 1..m
      /\ \A i \in 1..m : words[i] \in Keys(t)
  BY ListedIs
<1>2. P \in Seq(Seq(Item)) /\ Len(P) = m /\ f = FlattenSeq(P)
  BY <1>1, PartsAre
<1>3. \A i \in 1..m : P[i] = Part(t, words[i]) /\ words[i] # <<>>
  BY <1>1
<1>4. \A i, j \in 1..m : i # j => words[i] # words[j]
  BY <1>1, ListedIs
<1>5. \A w \in Keys(t) : \E i \in 1..m : words[i] = w
  BY <1>1, ListedIs
<1> HIDE DEF P, words
<1>6. \A i \in 1..m : /\ Len(P[i]) = 2
                      /\ P[i][1] = WordItem(words[i])
                      /\ P[i][2] = NumberItem(t[words[i]])
  BY <1>3, PartIs
<1>7. /\ Len(f) = 2 * m
      /\ \A i \in 1..m : f[2 * i - 1] = WordItem(words[i]) /\ f[2 * i] = NumberItem(t[words[i]])
  <2>1. \A i \in 1..Len(P) : Len(P[i]) = 2
    BY <1>2, <1>6, Zenon
  <2>2. /\ Len(FlattenSeq(P)) = 2 * Len(P)
        /\ \A i \in 1..Len(P) : FlattenSeq(P)[2 * i - 1] = P[i][1] /\ FlattenSeq(P)[2 * i] = P[i][2]
    BY ONLY <1>2, <2>1, PairsStand
  <2> QED BY <1>2, <1>6, <2>2, Zenon
<1>8. \A i \in 1..m : Name(f, i) = words[i] /\ Kind(f, i) = t[words[i]]
  <2>1. \A w, k : WordItem(w).word = w /\ NumberItem(k).number = k
    BY DEF WordItem, NumberItem
  <2> QED BY <1>7, <2>1, Zenon DEF Name, Kind
<1>9. KeywordsOf(t) = {<<w, t[w]>> : w \in Keys(t)}
  BY DEF KeywordsOf, Keys
<1>10. AreKeywords(KeywordsOf(t))
  <2>1. \A w \in Keys(t) : w \in Word /\ Lower(w) /\ t[w] \in KeyWord
    BY DEF Keys, IsTrie
  <2> QED BY <1>9, <2>1 DEF AreKeywords
<1>11. HasPairs(f, KeywordsOf(t), m)
  <2>1. \A i \in 1..m : <<Name(f, i), Kind(f, i)>> \in KeywordsOf(t)
    BY <1>1, <1>8, <1>9
  <2>2. \A k \in KeywordsOf(t) : \E i \in 1..m : k = <<Name(f, i), Kind(f, i)>>
    BY <1>5, <1>8, <1>9
  <2>3. \A i, j \in 1..m : i # j => Name(f, i) # Name(f, j)
    BY <1>4, <1>8
  <2> QED BY <1>7, <2>1, <2>2, <2>3 DEF HasPairs
<1> QED BY <1>1, <1>10, <1>11

LEMMA LoadedPairs ==
  ASSUME NEW f, IsFile(f), NEW S, AreKeywords(S), NEW m \in Nat, HasPairs(f, S, m),
         NEW n \in FirstBad(Fresh, f)
  PROVE  Stops(f, n) /\ KeywordsOf(With(Fresh, Entries(f, n - 1), {})) = S
<1>1. /\ Len(f) = 2 * m /\ n \in Nat /\ n >= 1
      /\ Bad(Fresh, f, n) /\ \A i \in 1..n - 1 : ~Bad(Fresh, f, i)
  BY DEF HasPairs, FirstBad, IsFile
<1>2. ASSUME NEW i \in 1..m
      PROVE  Name(f, i) \in Word /\ Lower(Name(f, i)) /\ Kind(f, i) \in KeyWord /\ Kind(f, i) # Unreadable
  <2>1. <<Name(f, i), Kind(f, i)>> \in S
    BY DEF HasPairs
  <2>2. Name(f, i) \in Word /\ Lower(Name(f, i)) /\ Kind(f, i) \in KeyWord
    BY <2>1 DEF AreKeywords
  <2> QED BY <2>2, TokenAssumption
<1>3. ASSUME NEW i \in 1..m PROVE ~Bad(Fresh, f, i)
  <2>1. ~Stops(f, i)
    <3>1. ~ (2 * i > Len(f))
      BY <1>1
    <3> QED BY <1>2, <3>1 DEF Stops
  <2>2. ~Refused(Fresh, Name(f, i))
    BY <1>2, FreshIs DEF Refused
  <2>3. \A j \in 1..i - 1 : Name(f, j) # Name(f, i)
    <3>1. \A j \in 1..i - 1 : j \in 1..m /\ j # i
      OBVIOUS
    <3> QED BY <3>1 DEF HasPairs
  <2> QED BY <2>1, <2>2, <2>3 DEF Bad, Clashes
<1>4. Stops(f, m + 1)
  <2>1. 2 * (m + 1) > Len(f)
    BY <1>1
  <2> QED BY <2>1 DEF Stops
<1>5. n = m + 1
  <2>1. n \notin 1..m
    BY <1>1, <1>3
  <2>2. m + 1 \notin 1..n - 1
    BY <1>1, <1>4 DEF Bad
  <2> QED BY <1>1, <2>1, <2>2
<1> DEFINE words == Entries(f, n - 1)  W == With(Fresh, words, {})
<1>6. IsTrie(Fresh) /\ DOMAIN Fresh = {<<>>} /\ \A w : TokenAt(Fresh, w) = NONE
  BY FreshIs
<1>7. n - 1 = m
  BY <1>5
<1>8. /\ IsEntered(words)
      /\ DOMAIN words = {Name(f, i) : i \in 1..m}
      /\ \A i \in 1..m : words[Name(f, i)] = Kind(f, i)
  <2>1. AreGood(Fresh, f, n)
    BY DEF AreGood, FirstBad
  <2>2. /\ IsEntered(words)
        /\ DOMAIN words = {Name(f, i) : i \in 1..n - 1}
        /\ \A i \in 1..n - 1 : words[Name(f, i)] = Kind(f, i)
    BY <1>6, <2>1, LoadedIs, Zenon
  <2> QED BY <1>7, <2>2
<1> HIDE DEF words
<1>9. /\ \A w \in DOMAIN words : w \in DOMAIN W
      /\ \A v \in DOMAIN W : W[v] = IF v \in DOMAIN words THEN words[v] ELSE NONE
  <2>1. /\ DOMAIN W = DOMAIN Fresh \cup {} \cup UNION {Path(w) : w \in DOMAIN words}
        /\ \A v \in DOMAIN W : W[v] = IF v \in DOMAIN words THEN words[v] ELSE TokenAt(Fresh, v)
    <3> DEFINE D == DOMAIN Fresh \cup {} \cup UNION {Path(w) : w \in DOMAIN words}
    <3>1. W = [v \in D |-> IF v \in DOMAIN words THEN words[v] ELSE TokenAt(Fresh, v)]
      BY DEF With
    <3> QED BY <3>1
  <2>2. \A w \in DOMAIN words : w \in Path(w)
    BY <1>8, PathIs DEF IsEntered
  <2> HIDE DEF W
  <2> QED BY <1>6, <2>1, <2>2
<1> HIDE DEF W
<1>10. NONE \notin KeyWord
  BY TokenAssumption
<1>11. {w \in DOMAIN W : W[w] \in KeyWord} = DOMAIN words
  BY <1>2, <1>8, <1>9, <1>10
<1>12. KeywordsOf(W) = {<<w, words[w]>> : w \in DOMAIN words}
  BY <1>9, <1>11 DEF KeywordsOf
<1>13. KeywordsOf(W) = {<<Name(f, i), Kind(f, i)>> : i \in 1..m}
  BY <1>8, <1>12
<1>14. KeywordsOf(W) = S
  BY <1>13 DEF HasPairs
<1> QED BY <1>4, <1>5, <1>14 DEF W, words

\* The file holds what save wrote, until it is edited or another save cuts it.
Keeps(f, S) ==
  (\A k \in S : k[1] # <<>>) => AreKeywords(S) /\ \E m \in Nat : HasPairs(f, S, m)
KeptInv == kept.known => Keeps(file, kept.words)

LEMMA KeptInvInductive == TrieInv /\ KeptInv /\ [Next]_vars => KeptInv'
<1> SUFFICES ASSUME TrieInv, KeptInv, [Next]_vars PROVE KeptInv'
  OBVIOUS
<1>1. CASE UNCHANGED <<file, kept>>
  BY <1>1 DEF KeptInv
<1>2. CASE save /\ ~ UNCHANGED <<file, kept>>
  <2>1. CASE kept' = Unknown
    <3>1. ~kept'.known
      BY <2>1 DEF Unknown
    <3> QED BY <3>1 DEF KeptInv
  <2>2. CASE kept' # Unknown
    <3>1. kept' = Known(KeywordsOf(root)) /\ file' = Items(root, Listed(root))
      BY <1>2, <2>2 DEF save
    <3>2. kept'.words = KeywordsOf(root)
      BY <3>1 DEF Known
    <3>3. ASSUME \A k \in KeywordsOf(root) : k[1] # <<>> PROVE <<>> \notin Keys(root)
      <4>1. \A w \in Keys(root) : <<w, root[w]>> \in KeywordsOf(root) /\ <<w, root[w]>>[1] = w
        BY DEF KeywordsOf, Keys
      <4> QED BY <3>3, <4>1
    <3>4. Keeps(file', KeywordsOf(root))
      BY <3>1, <3>3, SavedPairs DEF Keeps, TrieInv
    <3> QED BY <3>2, <3>4 DEF KeptInv
  <2> QED BY <2>1, <2>2
<1>3. CASE Edit
  <2>1. ~kept'.known
    BY <1>3 DEF Edit, Unknown
  <2> QED BY <2>1 DEF KeptInv
<1> QED BY <1>1, <1>2, <1>3 DEF Next, vars, init_keyword, load, LoadNothing, SaveNothing, Restart

\* What save wrote, load reads: a new lexer gets the keywords of the old one,
\* each with its number.
THEOREM LoadReadsWhatSaveWrote == Spec => RoundTrip
<1> DEFINE Reads == /\ root = Fresh /\ kept.known /\ answer'[1] = "load" /\ ~failed'
                    /\ \A k \in kept.words : k[1] # <<>>
                    => answer'[2] = "true" /\ KeywordsOf(root') = kept.words
<1>1. Init => KeptInv
  BY DEF Init, KeptInv, Unknown
<1>2. \A x : <<"init_keyword", x>>[1] # "load" /\ <<"save", x>>[1] # "load"
             /\ <<"Lexer", x>>[1] # "load" /\ <<"edit", x>>[1] # "load"
             /\ <<"load", "true">>[2] = "true"
  OBVIOUS
<1>3. ASSUME TrieInv, KeptInv, load PROVE Reads
  <2>1. SUFFICES ASSUME root = Fresh, kept.known, ~failed', \A k \in kept.words : k[1] # <<>>
                 PROVE  answer'[2] = "true" /\ KeywordsOf(root') = kept.words
    OBVIOUS
  <2>2. AreKeywords(kept.words) /\ \E m \in Nat : HasPairs(file, kept.words, m)
    BY <1>3, <2>1 DEF KeptInv, Keeps
  <2>3. PICK m \in Nat : HasPairs(file, kept.words, m)
    BY <2>2
  <2>4. PICK n \in FirstBad(Fresh, file) : Loads(n, ~Stops(file, n))
    BY <1>3, <2>1, Zenon DEF load
  <2>5. Stops(file, n) /\ KeywordsOf(With(Fresh, Entries(file, n - 1), {})) = kept.words
    BY <1>3, <2>2, <2>3, LoadedPairs DEF TrieInv
  <2>6. root' = With(Fresh, Entries(file, n - 1), {}) /\ answer' = <<"load", "true">>
    BY <2>1, <2>4, <2>5, Zenon DEF Loads
  <2> QED BY <1>2, <2>5, <2>6
<1>4. ASSUME NEW w, NEW tok, init_keyword(w, tok) PROVE Reads
  <2>1. \E x : answer' = <<"init_keyword", x>>
    BY <1>4 DEF init_keyword
  <2> QED BY <1>2, <2>1
<1>5. ASSUME LoadNothing \/ save \/ SaveNothing \/ Restart \/ Edit PROVE Reads
  <2>1. failed' \/ \E x : answer' \in {<<"save", x>>, <<"Lexer", x>>, <<"edit", x>>}
    BY <1>5 DEF LoadNothing, save, SaveNothing, Restart, Edit
  <2> QED BY <1>2, <2>1
<1>6. TrieInv /\ KeptInv /\ [Next]_vars => [Reads]_vars
  BY <1>3, <1>4, <1>5 DEF Next
<1> QED BY <1>1, <1>6, TrieInvHolds, KeptInvInductive, PTL DEF Spec, RoundTrip

=============================================================================
