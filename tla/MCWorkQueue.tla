---------------------------- MODULE MCWorkQueue ----------------------------
(* Small instances of WorkQueue for TLC. *)
EXTENDS WorkQueue, TLC

CONSTANTS desired, job

\* One key of each mode.
MCMode == (desired :> "reconcile") @@ (job :> "job")

\* Delivering the desired state asks for a job, or no delivery asks for more.
ReconcileOnly == desired :> "reconcile"

ThenAJob   == (desired :> {job}) @@ (job :> {})
NoFollowUp == [k \in Keys |-> {}]

ControllerSymmetry == Permutations(Controllers)
=============================================================================
