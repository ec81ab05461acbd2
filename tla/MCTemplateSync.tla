--------------------------- MODULE MCTemplateSync ---------------------------
(* Small instances of TemplateSync for TLC. *)
EXTENDS TemplateSync, TLC

Symmetry == Permutations(Registrations) \cup Permutations(Refs) \cup Permutations(Valid)
=============================================================================
