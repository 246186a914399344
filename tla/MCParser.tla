------------------------------ MODULE MCParser ------------------------------
(***************************************************************************)
(* The parser for TLC.  Once it has ended nothing changes any more, and    *)
(* its properties were checked in the state before: ended states are told  *)
(* apart by their outcome only.                                            *)
(***************************************************************************)
EXTENDS CodeRefinement

View == IF outcome = "running" THEN <<vars>> ELSE <<outcome>>
=============================================================================
