----------------------------- MODULE MCRunStore -----------------------------
(* Small instances of RunStore for TLC. *)
EXTENDS RunStore, TLC

\* No two steps differ here, and no two runs before they are inserted.
Symmetry == Permutations(Runs) \cup Permutations(Steps)
=============================================================================
