----------------------------- MODULE MCLiterals -----------------------------
(***************************************************************************)
(* Literals for TLC: types of 2, 3, 4 and 5 bits stand for 8, 16, 32, 64.  *)
(***************************************************************************)
EXTENDS Literals

SmallLimits == [n \in Size |-> CASE n = 8 -> 1 [] n = 16 -> 3 [] n = 32 -> 7 [] n = 64 -> 15]
=============================================================================
