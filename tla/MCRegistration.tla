--------------------------- MODULE MCRegistration ---------------------------
(***************************************************************************)
(* Two tablets and a class of two students.                                *)
(***************************************************************************)
EXTENDS Registration, TLC

CONSTANTS t1, t2

MCClasses ==
  { <<[name |-> "an", sid |-> 1], [name |-> "bo", sid |-> 2]>> }

Swapped == Permutations(Tablets)
=============================================================================
