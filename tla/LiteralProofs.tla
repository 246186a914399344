---------------------------- MODULE LiteralProofs ----------------------------
(***************************************************************************)
(* Proofs about the conversion of literals, for all limits of the types    *)
(* and all numbers.                                                        *)
(***************************************************************************)
EXTENDS Literals, TLAPS

-----------------------------------------------------------------------------
(* The invariant. *)

LInv ==
  /\ literal \in Literal /\ WellFormed(literal)
  /\ digit = Unread \/ digit \in Converted(literal)

LEMMA Invariant == Spec => []LInv
<1>1. Init => LInv
  BY DEF Init, LInv
<1>2. LInv /\ [get_next_token]_vars => LInv'
  BY Zenon DEF LInv, get_next_token, vars
<1> QED BY <1>1, <1>2, PTL DEF Spec

-----------------------------------------------------------------------------
(* The ways a literal takes through the switch. *)

Floating(l) == (l.point \/ (l.suffix = "f" /\ l.value > LLONG_MAX)) /\ digit = float_process(l)
Signed(l) ==
  /\ ~l.point /\ l.suffix = "i"
  /\ digit = IF l.value <= LLONG_MAX THEN signed_process(l, l.value) ELSE Threw
Unsigned(l) ==
  /\ ~l.point /\ l.suffix = "u"
  /\ digit = unsigned_process(l, l.value) \/ (l.value > ULLONG_MAX /\ digit = Threw)
Converting(l) == ~l.point /\ l.suffix = "f" /\ l.value <= LLONG_MAX /\ digit = converted_to_float(l)
Plainly(l) ==
  /\ ~l.point /\ l.suffix = ""
  /\ \E v : digit = plain(l, v) /\ (l.value <= LLONG_MAX => v = l.value)

LEMMA LimitsAre ==
  /\ \A s \in Size : SignedMax[s] \in Nat /\ SignedMax[s] <= LLONG_MAX
  /\ \A s \in Size : UnsignedMax(s) \in Nat /\ UnsignedMax(s) <= ULLONG_MAX
  /\ LLONG_MAX \in Nat /\ ULLONG_MAX \in Nat /\ LLONG_MAX <= ULLONG_MAX
  /\ LONG_MAX \in Nat /\ SignedMax[32] <= LONG_MAX
  /\ LONG_MIN \in Int /\ LONG_MIN < 0
  BY LimitAssumption DEF Size, UnsignedMax, LLONG_MAX, ULLONG_MAX, LONG_MIN

\* The fields of a literal.
LEMMA LiteralIs ==
  ASSUME NEW l \in Literal
  PROVE  /\ l.value \in Nat /\ l.point \in BOOLEAN /\ l.real \in Real
         /\ l.suffix \in {"", "i", "u", "f"} /\ l.size \in Size \cup {0, 128}
<1>1. l.value \in 0 .. MaxValue
  BY Zenon DEF Literal
<1>2. /\ l.point \in BOOLEAN /\ l.real \in Real
      /\ l.suffix \in {"", "i", "u", "f"} /\ l.size \in Size \cup {0, 128}
  BY Zenon DEF Literal
<1>3. l.value \in Nat
  BY ONLY <1>1, LimitAssumption
<1> QED BY <1>2, <1>3

LEMMA Ways ==
  ASSUME NEW l \in Literal, digit \in Converted(l)
  PROVE  Floating(l) \/ Signed(l) \/ Unsigned(l) \/ Converting(l) \/ Plainly(l)
<1>1. /\ l.value \in Nat /\ l.point \in BOOLEAN /\ l.suffix \in {"", "i", "u", "f"}
      /\ LLONG_MAX \in Nat
  BY LiteralIs, LimitsAre
<1>2. CASE l.value <= LLONG_MAX
  <2>1. digit = InRange(l)
    BY <1>2, Zenon DEF Converted
  <2>2. CASE l.point
    BY <2>1, <2>2 DEF InRange, Floating
  <2>3. CASE ~l.point /\ l.suffix = "i"
    BY <1>2, <2>1, <2>3 DEF InRange, Signed
  <2>4. CASE ~l.point /\ l.suffix = "u"
    BY <2>1, <2>4 DEF InRange, Unsigned
  <2>5. CASE ~l.point /\ l.suffix = "f"
    BY <1>2, <2>1, <2>5 DEF InRange, Converting
  <2>6. CASE ~l.point /\ l.suffix = ""
    BY <2>1, <2>6 DEF InRange, Plainly
  <2> QED BY <1>1, <2>2, <2>3, <2>4, <2>5, <2>6
<1>3. CASE ~(l.value <= LLONG_MAX)
  <2>1. digit \in Overflowed(l) /\ l.value > LLONG_MAX
    <3>1. digit \in Overflowed(l)
      BY <1>3, Zenon DEF Converted
    <3>2. l.value > LLONG_MAX
      <4>1. l.value \in Nat /\ LLONG_MAX \in Nat
        BY <1>1
      <4> QED BY ONLY <1>3, <4>1
    <3> QED BY <3>1, <3>2
  <2>2. CASE l.point \/ l.suffix = "f"
    BY <2>1, <2>2 DEF Overflowed, Floating
  <2>3. CASE ~l.point /\ l.suffix = "i"
    BY <1>3, <2>1, <2>3 DEF Overflowed, Signed
  <2>4. CASE ~l.point /\ l.suffix = "u"
    BY <2>1, <2>4 DEF Overflowed, Unsigned
  <2>5. CASE ~l.point /\ l.suffix = ""
    <3>1. digit \in {plain(l, v) : v \in LLONG_MIN .. LLONG_MAX}
      BY <2>1, <2>5 DEF Overflowed
    <3> QED BY <1>3, <2>5, <3>1, Zenon DEF Plainly
  <2> QED BY <1>1, <2>2, <2>3, <2>4, <2>5
<1> QED BY <1>2, <1>3

-----------------------------------------------------------------------------
(* What a literal names, and whether it fits. *)

LEMMA NamedIs ==
  /\ literal.suffix # "" => Named = <<literal.suffix, literal.size>>
  /\ literal.suffix = "" /\ literal.point => Named = <<"f", 64>>
  /\ literal.suffix = "" /\ ~literal.point => Named = <<"i", 32>>
  BY Zenon DEF Named

LEMMA FitsWhen ==
  ASSUME NEW k, NEW n, Named = <<k, n>>
  PROVE  Fits <=>
           /\ n \in Size
           /\ \/ k = "i" /\ literal.value <= SignedMax[n]
              \/ k = "u" /\ literal.value <= UnsignedMax(n)
              \/ k = "f" /\ n = 32 /\ literal.real \in {"zero", "float"}
              \/ k = "f" /\ n = 64 /\ literal.real # "erange"
<1>1. Named[1] = k /\ Named[2] = n
  OBVIOUS
<1>2. \A p, q : Named = <<p, q>> <=> k = p /\ n = q
  OBVIOUS
<1>3. "i" # "u"
  OBVIOUS
<1>4. (k \in {"i", "u"} /\ literal.value <= Max) <=>
        (k = "i" /\ literal.value <= SignedMax[n]) \/ (k = "u" /\ literal.value <= UnsignedMax(n))
  BY <1>1, <1>3 DEF Max
<1> QED BY <1>1, <1>2, <1>4, Zenon DEF Fits

LEMMA AcceptedWhen ==
  ASSUME NEW k, NEW n, Named = <<k, n>>, NEW v, digit = Value(k, n, v), Fits,
         k \in {"i", "u"} => v = literal.value
  PROVE  AcceptedFits
  BY DEF AcceptedFits, Value

LEMMA ThrownIsNothing ==
  /\ Threw # Unread
  /\ \A k \in {"i", "u", "f"} : \A n, v : Value(k, n, v) # Threw
  BY DEF Threw, Unread, Value

\* What each case of the switch accepts.
LEMMA FloatIs ==
  ASSUME NEW l, float_process(l) # Threw
  PROVE  /\ l.real # "erange" /\ (l.suffix = "" => l.next = " ")
         /\ l.suffix = "f" => /\ l.size \in {32, 64} /\ float_process(l) = Value("f", l.size, 0)
                              /\ l.size = 32 => l.real \notin {"zero", "below", "above"}
         /\ l.suffix # "f" => float_process(l) = Value("f", 64, 0)
  BY Zenon DEF float_process

LEMMA FloatIsRefused ==
  ASSUME NEW l, float_process(l) = Threw
  PROVE  \/ l.real = "erange"
         \/ l.suffix = "f" /\ l.size = 32 /\ l.real \in {"zero", "below", "above"}
         \/ l.suffix = "f" /\ l.size \notin {32, 64}
         \/ l.suffix = "" /\ l.next # " "
<1> DEFINE refused == \/ l.real = "erange"
                      \/ l.suffix = "f" /\ l.size = 32 /\ l.real \in {"zero", "below", "above"}
                      \/ l.suffix = "f" /\ l.size \notin {32, 64}
                      \/ l.suffix = "" /\ l.next # " "
<1>1. ~refused => float_process(l) = Value("f", IF l.suffix = "f" THEN l.size ELSE 64, 0)
  BY Zenon DEF float_process
<1>2. \A n, v : Value("f", n, v) # Threw
  BY ThrownIsNothing
<1> HIDE DEF refused
<1>3. refused
  BY <1>1, <1>2, Zenon
<1> QED BY <1>3, Zenon DEF refused

LEMMA SignedIs ==
  ASSUME NEW l, NEW v
  PROVE  LET fits == l.size \in Size /\ v <= (IF l.size = 32 THEN LONG_MAX ELSE SignedMax[l.size]) IN
         /\ fits => signed_process(l, v) = Value("i", l.size, v)
         /\ ~fits => signed_process(l, v) = Threw
  BY Zenon DEF signed_process

LEMMA UnsignedIs ==
  ASSUME NEW l, NEW v
  PROVE  LET fits == l.size \in Size /\ v <= (IF l.size = 32 THEN ULLONG_MAX ELSE UnsignedMax(l.size)) IN
         /\ fits /\ l.size # 32 => unsigned_process(l, v) = Value("u", l.size, v)
         /\ fits => unsigned_process(l, v) # Threw
         /\ ~fits => unsigned_process(l, v) = Threw
<1>1. \A n, w : Value("u", n, w) # Threw
  BY ThrownIsNothing
<1> QED BY <1>1, Zenon DEF unsigned_process

-----------------------------------------------------------------------------
(* Every literal but u32 is checked. *)

LEMMA OthersAreChecked == ASSUME LInv PROVE OthersFit
<1> DEFINE l == literal
<1>1. SUFFICES ASSUME digit # Unread, digit # Threw, Named # <<"u", 32>>,
                      ~(Named = <<"i", 32>> /\ (l.suffix = "" \/ LONG_MAX # SignedMax[32]))
               PROVE  AcceptedFits
  BY Zenon DEF OthersFit, AcceptedFits, Accepted
<1>2. l \in Literal /\ WellFormed(l) /\ digit \in Converted(l)
  BY <1>1, Zenon DEF LInv
<1>3. /\ l.value \in Nat /\ l.point \in BOOLEAN /\ l.real \in Real
      /\ l.suffix \in {"", "i", "u", "f"} /\ l.size \in Size \cup {0, 128}
  BY <1>2, LiteralIs
<1>4. 32 \in Size /\ 64 \in Size
  BY DEF Size
<1>5. CASE Floating(l)
  <2>1. float_process(l) # Threw /\ digit = float_process(l)
    BY <1>1, <1>5, Zenon DEF Floating
  <2>2. CASE l.suffix = "f"
    <3>1. Named = <<"f", l.size>>
      BY <2>2, NamedIs
    <3>2. /\ digit = Value("f", l.size, 0) /\ l.size \in {32, 64} /\ l.real # "erange"
          /\ l.size = 32 => l.real \notin {"zero", "below", "above"}
      BY <2>1, <2>2, FloatIs, Zenon
    <3>3. l.size = 32 => l.real \in {"zero", "float"}
      BY <1>3, <3>2 DEF Real
    <3>4. Fits
      BY <1>4, <3>1, <3>2, <3>3, FitsWhen
    <3> QED BY <3>1, <3>2, <3>4, AcceptedWhen
  <2>3. CASE l.suffix # "f"
    <3>1. l.suffix = "" /\ l.point
      BY <1>2, <1>5, <2>3, Zenon DEF Floating, WellFormed
    <3>2. Named = <<"f", 64>>
      BY <3>1, NamedIs, Zenon
    <3>3. digit = Value("f", 64, 0) /\ l.real # "erange"
      BY <2>1, <2>3, FloatIs, Zenon
    <3>4. Fits
      BY <1>4, <3>2, <3>3, FitsWhen
    <3> QED BY <3>2, <3>3, <3>4, AcceptedWhen
  <2> QED BY <2>2, <2>3
<1>6. CASE Signed(l)
  <2>1. /\ l.suffix = "i" /\ digit = signed_process(l, l.value)
    BY <1>1, <1>6, Zenon DEF Signed
  <2>2. Named = <<"i", l.size>>
    BY <2>1, NamedIs
  <2>3. l.size = 32 => LONG_MAX = SignedMax[32]
    BY <1>1, <2>2
  <2>4. /\ digit = Value("i", l.size, l.value) /\ l.size \in Size
        /\ l.value <= (IF l.size = 32 THEN LONG_MAX ELSE SignedMax[l.size])
    BY <1>1, <2>1, SignedIs, Zenon
  <2>5. l.value <= SignedMax[l.size]
    BY <2>3, <2>4, Zenon
  <2>6. Fits
    BY <2>2, <2>4, <2>5, FitsWhen
  <2> QED BY <2>2, <2>4, <2>6, AcceptedWhen
<1>7. CASE Unsigned(l)
  <2>1. /\ l.suffix = "u" /\ digit = unsigned_process(l, l.value)
    BY <1>1, <1>7, Zenon DEF Unsigned
  <2>2. Named = <<"u", l.size>>
    BY <2>1, NamedIs
  <2>3. l.size # 32
    BY <1>1, <2>2
  <2>4. /\ digit = Value("u", l.size, l.value) /\ l.size \in Size
        /\ l.value <= (IF l.size = 32 THEN ULLONG_MAX ELSE UnsignedMax(l.size))
    BY <1>1, <2>1, <2>3, UnsignedIs, Zenon
  <2>5. l.value <= UnsignedMax(l.size)
    BY <2>3, <2>4, Zenon
  <2>6. Fits
    BY <2>2, <2>4, <2>5, FitsWhen
  <2> QED BY <2>2, <2>4, <2>6, AcceptedWhen
<1>8. CASE Converting(l)
  <2>1. l.suffix = "f" /\ ~l.point /\ l.value <= LLONG_MAX /\ digit = converted_to_float(l)
    BY <1>8, Zenon DEF Converting
  <2>2. l.size \in {32, 64} /\ digit = Value("f", l.size, 0)
    BY <1>1, <2>1, Zenon DEF converted_to_float
  <2>3. ~(l.value > ULLONG_MAX)
    BY <1>3, <2>1, LimitsAre
  <2>4. l.real = "zero" \/ l.real = "float"
    BY <1>2, <2>1, <2>3, Zenon DEF WellFormed
  <2>5. Named = <<"f", l.size>>
    BY <2>1, NamedIs
  <2>6. Fits
    BY <1>4, <2>2, <2>4, <2>5, FitsWhen
  <2> QED BY <2>2, <2>5, <2>6, AcceptedWhen
<1>9. CASE Plainly(l)
  <2>1. l.suffix = "" /\ ~l.point
    BY <1>9, Zenon DEF Plainly
  <2> QED BY <1>1, <2>1, NamedIs, Zenon
<1> QED BY <1>2, <1>5, <1>6, <1>7, <1>8, <1>9, Ways

-----------------------------------------------------------------------------
(* What fits is accepted. *)

LEMMA NothingFittingIsRefused == ASSUME LInv PROVE FittingIsAccepted
<1> DEFINE l == literal
<1>1. SUFFICES ASSUME digit = Threw, Fits, l.next # "+",
                      ~(l.suffix = "" /\ ~l.point /\ l.value = LONG_MAX),
                      ~(l.point /\ Named = <<"f", 32>> /\ l.real = "zero"),
                      ~(l.point /\ l.suffix = "" /\ l.next # " ")
               PROVE  FALSE
  BY Zenon DEF FittingIsAccepted
<1>2. l \in Literal /\ WellFormed(l) /\ digit \in Converted(l)
  BY <1>1, ThrownIsNothing, Zenon DEF LInv
<1>3. /\ l.value \in Nat /\ l.point \in BOOLEAN /\ l.real \in Real
      /\ l.suffix \in {"", "i", "u", "f"} /\ l.size \in Size \cup {0, 128}
  BY <1>2, LiteralIs
<1>4. 32 \in Size /\ 64 \in Size
  BY DEF Size
<1>a. Fits /\ digit = Threw
  BY <1>1, Zenon
<1>b. l.value \in Nat
  BY <1>3, Zenon
<1>5. CASE Floating(l)
  <2>1. float_process(l) = Threw
    BY <1>1, <1>5, Zenon DEF Floating
  <2>2. CASE l.suffix = "f"
    <3>1. Named = <<"f", l.size>>
      BY <2>2, NamedIs
    <3>2. /\ l.size = 32 => l.real \in {"zero", "float"}
          /\ l.size = 64 => l.real # "erange"
          /\ l.size = 32 \/ l.size = 64
      BY ONLY <1>a, <3>1, FitsWhen
    <3>3. l.size = 32 /\ l.real = "zero"
      <4>1. "f" # "" /\ "zero" # "erange" /\ "float" # "erange" /\ "float" \notin {"zero", "below", "above"}
        OBVIOUS
      <4> QED BY <2>1, <2>2, <3>2, <4>1, FloatIsRefused, Zenon
    <3>4. ~l.point
      BY <1>1, <3>1, <3>3, Zenon
    <3>5. l.value > LLONG_MAX
      BY <1>5, <3>4, Zenon DEF Floating
    <3>6. l.value # 0 /\ ~("zero" = "float") /\ "zero" \notin {"above", "erange"}
      BY ONLY <1>b, <3>5, LimitsAre
    <3> QED BY <1>2, <3>3, <3>4, <3>6, Zenon DEF WellFormed
  <2>3. CASE l.suffix # "f"
    <3>1. l.suffix = "" /\ l.point
      BY <1>2, <1>5, <2>3, Zenon DEF Floating, WellFormed
    <3>2. Named = <<"f", 64>>
      BY <3>1, NamedIs, Zenon
    <3>3. l.real # "erange"
      BY ONLY <1>a, <3>2, FitsWhen
    <3> QED BY <1>1, <2>1, <2>3, <3>1, <3>3, FloatIsRefused, Zenon
  <2> QED BY <2>2, <2>3
<1>6. CASE Signed(l)
  <2>1. l.suffix = "i"
    BY <1>6, Zenon DEF Signed
  <2>2. Named = <<"i", l.size>>
    BY <2>1, NamedIs
  <2>3. l.size \in Size /\ l.value <= SignedMax[l.size]
    BY ONLY <1>a, <2>2, FitsWhen
  <2>4. l.value <= LLONG_MAX
    BY ONLY <1>b, <2>3, LimitsAre
  <2>5. l.size = 32 => l.value <= LONG_MAX
    BY ONLY <1>b, <2>3, LimitsAre
  <2>6. l.value <= (IF l.size = 32 THEN LONG_MAX ELSE SignedMax[l.size])
    BY <2>3, <2>5, Zenon
  <2>7. signed_process(l, l.value) = Value("i", l.size, l.value)
    BY <2>3, <2>6, SignedIs, Zenon
  <2>8. digit = signed_process(l, l.value)
    BY <1>6, <2>4, Zenon DEF Signed
  <2> QED BY ONLY <1>a, <2>7, <2>8, ThrownIsNothing, Zenon
<1>7. CASE Unsigned(l)
  <2>1. l.suffix = "u"
    BY <1>7, Zenon DEF Unsigned
  <2>2. Named = <<"u", l.size>>
    BY <2>1, NamedIs
  <2>3. l.size \in Size /\ l.value <= UnsignedMax(l.size)
    BY ONLY <1>a, <2>2, FitsWhen
  <2>4. l.value <= ULLONG_MAX /\ ~(l.value > ULLONG_MAX)
    BY ONLY <1>b, <2>3, LimitsAre
  <2>5. l.value <= (IF l.size = 32 THEN ULLONG_MAX ELSE UnsignedMax(l.size))
    BY <2>3, <2>4, Zenon
  <2>6. unsigned_process(l, l.value) # Threw
    BY <2>3, <2>5, UnsignedIs, Zenon
  <2>7. digit = unsigned_process(l, l.value)
    BY <1>7, <2>4, Zenon DEF Unsigned
  <2> QED BY ONLY <1>a, <2>6, <2>7, Zenon
<1>8. CASE Converting(l)
  <2>1. l.suffix = "f" /\ digit = converted_to_float(l)
    BY <1>8, Zenon DEF Converting
  <2>2. Named = <<"f", l.size>>
    BY <2>1, NamedIs
  <2>3. l.size \in {32, 64}
    BY ONLY <1>a, <2>2, FitsWhen
  <2>4. digit = Value("f", l.size, 0)
    BY <2>1, <2>3, Zenon DEF converted_to_float
  <2> QED BY ONLY <1>a, <2>4, ThrownIsNothing, Zenon
<1>9. CASE Plainly(l)
  <2>1. l.suffix = "" /\ ~l.point
    BY <1>9, Zenon DEF Plainly
  <2>2. Named = <<"i", 32>>
    BY <2>1, NamedIs, Zenon
  <2>3. l.value <= SignedMax[32]
    BY ONLY <1>a, <2>2, FitsWhen
  <2>4. l.value # LONG_MAX
    BY <1>1, <2>1, Zenon
  <2>5. l.value <= LLONG_MAX /\ l.value < LONG_MAX /\ l.value > LONG_MIN
    <3>1. SignedMax[32] \in Nat /\ SignedMax[32] <= LLONG_MAX /\ LLONG_MAX \in Nat
      BY <1>4, LimitsAre
    <3>2. LONG_MAX \in Nat /\ SignedMax[32] <= LONG_MAX /\ LONG_MIN \in Int /\ LONG_MIN < 0
      BY LimitsAre
    <3>3. l.value \in Nat
      BY <1>b
    <3> QED BY ONLY <2>3, <2>4, <3>1, <3>2, <3>3
  <2>6. digit = plain(l, l.value)
    BY <1>9, <2>5, Zenon DEF Plainly
  <2>7. plain(l, l.value) = Value("i", 32, l.value)
    BY <1>1, <2>5, Zenon DEF plain
  <2> QED BY ONLY <1>a, <2>6, <2>7, ThrownIsNothing, Zenon
<1> QED BY <1>2, <1>5, <1>6, <1>7, <1>8, <1>9, Ways

-----------------------------------------------------------------------------
(* The theorems. *)

\* Whatever the limits of the types: a literal that get_next_token accepts has
\* the type it names and fits it, and is the number that is written, but for
\* those OthersFit names, whose check compares with the limit of another type.
THEOREM LiteralsAreChecked == Spec => []OthersFit
<1>1. LInv => OthersFit
  BY OthersAreChecked
<1> QED BY <1>1, Invariant, PTL

\* Whatever the limits of the types, get_next_token refuses no literal that fits
\* the type it names, but for the three kinds FittingIsAccepted lists.
THEOREM FittingLiteralsAreAccepted == Spec => []FittingIsAccepted
<1>1. LInv => FittingIsAccepted
  BY NothingFittingIsRefused
<1> QED BY <1>1, Invariant, PTL
=============================================================================
