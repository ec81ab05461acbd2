---------------------------- MODULE MCRunService ----------------------------
(* Small instances of RunService for TLC. *)
EXTENDS RunService, TLC

CONSTANTS v1, v2, region

\* The second revision no longer has a default for its one variable.
OneVariable  == {region}
BothDeclare  == [v \in Revisions |-> {region}]
SecondRequires == (v1 :> {}) @@ (v2 :> {region})
AllSnapshots == Revisions \X SUBSET Variables

RequestSymmetry == Permutations(Requests)
=============================================================================
