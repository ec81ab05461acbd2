--------------------------- MODULE MCStackAccess ---------------------------
(* Small instances of StackAccess for TLC. *)
EXTENDS StackAccess, TLC

RequestSymmetry == Permutations(Requests)
=============================================================================
