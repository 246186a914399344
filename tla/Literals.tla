------------------------------- MODULE Literals -------------------------------
(***************************************************************************)
(* The part of Lexer::get_next_token that converts a numeric literal: the  *)
(* number as strtoll reads it, a suffix with a width, and the check that   *)
(* the number fits.                                                        *)
(*                                                                         *)
(* A literal is what the code tells literals apart by: the number written, *)
(* whether a point follows it, the suffix, its width, and the character    *)
(* after a literal without suffix.  The limits of the types are            *)
(* parameters, so that small ones can be checked; of a real number only    *)
(* its class is kept.                                                      *)
(***************************************************************************)
EXTENDS Integers, Sequences

CONSTANTS
  SignedMax, \* the largest number of the types called i8, i16, i32 and i64
  LONG_MAX,  \* that of long: of i32 with MinGW, of i64 with Linux
  MaxValue   \* bound: the numbers written in literals

Size == {8, 16, 32, 64}

ASSUME LimitAssumption ==
  /\ SignedMax \in [Size -> Nat]
  /\ SignedMax[8] < SignedMax[16] /\ SignedMax[16] < SignedMax[32] /\ SignedMax[32] < SignedMax[64]
  /\ LONG_MAX \in {SignedMax[32], SignedMax[64]}
  /\ MaxValue \in Nat

VARIABLES literal, digit

vars == <<literal, digit>>

-----------------------------------------------------------------------------
UnsignedMax(size) == 2 * SignedMax[size] + 1
LONG_MIN == -LONG_MAX - 1
ULONG_MAX == 2 * LONG_MAX + 1
LLONG_MAX == SignedMax[64]
LLONG_MIN == -LLONG_MAX - 1
ULLONG_MAX == UnsignedMax(64)

\* Real numbers: zero, smaller than FLT_MIN, a float, larger than FLT_MAX, and
\* beyond what strtod can represent.
Real == {"zero", "below", "float", "above", "erange"}

Literal ==
  [ value  : 0..MaxValue,
    point  : BOOLEAN,
    real   : Real,                      \* what strtod reads
    suffix : {"", "i", "u", "f"},
    size   : Size \cup {0, 128},        \* 0: no number after the suffix
    next   : {" ", ")", "eol", "+"} ]   \* what follows, without a suffix

\* Without a point strtod reads the integer.
WellFormed(l) ==
  /\ ~l.point => \/ l.real = IF l.value = 0 THEN "zero" ELSE "float"
                 \/ l.value > ULLONG_MAX /\ l.real \in {"above", "erange"}
  /\ l.suffix = "" => l.size = 0
  /\ l.suffix # "" => l.next = " "
  /\ l.point => l.suffix \in {"", "f"}

\* A Digit has a type, its suffix and width, and the value if it is an integer.
Value(suffix, size, v) == [type |-> <<suffix, size>>, value |-> v]
Unread == Value("none", 0, 0)
Threw == Value("threw", 0, 0)

-----------------------------------------------------------------------------
(* The switch on what follows the number *)

float_process(l) ==
  LET refused == \/ l.real = "erange"
                 \/ l.suffix = "f" /\ l.size = 32 /\ l.real \in {"zero", "below", "above"}
                 \/ l.suffix = "f" /\ l.size \notin {32, 64}
                 \/ l.suffix = "" /\ l.next # " "
  IN  IF refused THEN Threw ELSE Value("f", IF l.suffix = "f" THEN l.size ELSE 64, 0)

\* An integer with the suffix "f" is converted without a check.
converted_to_float(l) == IF l.size \in {32, 64} THEN Value("f", l.size, 0) ELSE Threw

\* The check of "i8" takes the limit of the unsigned type.
Brokensigned_process(l, value) ==
  IF l.size \in Size /\ value <= (IF l.size = 8 THEN UnsignedMax(8) ELSE SignedMax[l.size])
  THEN Value("i", l.size, value) ELSE Threw

\* "i32" is checked against LONG_MAX; "i64" needs no check.
signed_process(l, value) ==
  IF /\ l.size \in Size
     /\ value <= (IF l.size = 32 THEN LONG_MAX ELSE SignedMax[l.size])
  THEN Value("i", l.size, value) ELSE Threw

\* The checks refuse the limit itself.
Brokenunsigned_process(l, uvalue) ==
  IF l.size \in Size /\ uvalue < (IF l.size = 32 THEN ULLONG_MAX ELSE UnsignedMax(l.size))
  THEN Value("u", l.size, IF l.size = 32 THEN uvalue % (ULONG_MAX + 1) ELSE uvalue)
  ELSE Threw

\* "u32" is compared with ULLONG_MAX, which it cannot exceed, and converted to
\* unsigned long.
unsigned_process(l, uvalue) ==
  IF l.size \in Size /\ uvalue <= (IF l.size = 32 THEN ULLONG_MAX ELSE UnsignedMax(l.size))
  THEN Value("u", l.size, IF l.size = 32 THEN uvalue % (ULONG_MAX + 1) ELSE uvalue)
  ELSE Threw

plain(l, value) ==
  IF l.next # "+" /\ value < LONG_MAX /\ value > LONG_MIN
  THEN Value("i", 32, value) ELSE Threw

InRange(l) ==
  CASE l.point -> float_process(l)
    [] ~l.point /\ l.suffix = "i" -> signed_process(l, l.value)
    [] ~l.point /\ l.suffix = "u" -> unsigned_process(l, l.value)
    [] ~l.point /\ l.suffix = "f" -> converted_to_float(l)
    [] ~l.point /\ l.suffix = "" -> plain(l, l.value)

\* strtoll overflows.  Only the three suffixes are treated in the handler of
\* the exception; without one the code goes on with an uninitialised value.
Overflowed(l) ==
  CASE l.point \/ l.suffix = "f" -> {float_process(l)}
    [] ~l.point /\ l.suffix = "i" -> {Threw}
    [] ~l.point /\ l.suffix = "u" ->
         {IF l.value > ULLONG_MAX THEN Threw ELSE unsigned_process(l, l.value)}
    [] ~l.point /\ l.suffix = "" -> {plain(l, v) : v \in LLONG_MIN..LLONG_MAX}

Converted(l) == IF l.value <= LLONG_MAX THEN {InRange(l)} ELSE Overflowed(l)

-----------------------------------------------------------------------------
Init == literal \in {l \in Literal : WellFormed(l)} /\ digit = Unread

get_next_token ==
  /\ digit = Unread
  /\ digit' \in Converted(literal)
  /\ UNCHANGED literal

Spec == Init /\ [][get_next_token]_vars

-----------------------------------------------------------------------------
Accepted == digit \notin {Unread, Threw}

\* The type a literal names: i32 without a suffix, f64 with a point.
Named ==
  IF literal.suffix # "" THEN <<literal.suffix, literal.size>>
  ELSE IF literal.point THEN <<"f", 64>> ELSE <<"i", 32>>

Max == IF Named[1] = "i" THEN SignedMax[Named[2]] ELSE UnsignedMax(Named[2])

Fits ==
  /\ Named[2] \in Size
  /\ \/ Named[1] \in {"i", "u"} /\ literal.value <= Max
     \/ Named = <<"f", 32>> /\ literal.real \in {"zero", "float"}
     \/ Named = <<"f", 64>> /\ literal.real # "erange"

\* A literal that is accepted has the type it names, and is the number that is
\* written and fits that type.
AcceptedFits ==
  Accepted => /\ digit.type = Named /\ Fits
              /\ Named[1] \in {"i", "u"} => digit.value = literal.value

\* The check "literal out of range for `i32`" of a literal without a suffix
\* lets no number through that is no i32.
PlainFits == Named = <<"i", 32>> /\ literal.suffix = "" => AcceptedFits

\* All other literals are checked for what they name, except u32: its check
\* compares with the limit of u64, and lets every number through; and i32 where
\* long is wider than that.
OthersFit ==
  \/ Named = <<"u", 32>>
  \/ Named = <<"i", 32>> /\ (literal.suffix = "" \/ LONG_MAX # SignedMax[32])
  \/ AcceptedFits

\* A literal that fits the type it names is accepted.  Exceptions: the largest
\* i32 without a suffix, a zero of type f32 written with a point, and a number
\* with a point that is followed by ")" or ends its line.
FittingIsAccepted ==
  /\ digit = Threw /\ Fits /\ literal.next # "+"
  => \/ literal.suffix = "" /\ ~literal.point /\ literal.value = LONG_MAX
     \/ literal.point /\ Named = <<"f", 32>> /\ literal.real = "zero"
     \/ literal.point /\ literal.suffix = "" /\ literal.next # " "
=============================================================================
