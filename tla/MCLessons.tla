------------------------------ MODULE MCLessons ------------------------------
(* An instance of Lessons for TLC. *)
EXTENDS Lessons, TLC

Wordings == Permutations(Texts)
=============================================================================
