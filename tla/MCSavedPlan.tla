---------------------------- MODULE MCSavedPlan -----------------------------
(* Small instances of SavedPlan for TLC. *)
EXTENDS SavedPlan, TLC

Symmetry == Permutations(Runs) \cup Permutations(Hosts) \cup Permutations(Versions)
=============================================================================
