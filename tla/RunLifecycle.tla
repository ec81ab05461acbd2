---------------------------- MODULE RunLifecycle ----------------------------
(***************************************************************************)
(* What a template run promises the people watching it, with no tables,    *)
(* executions or workflows: the phases a run goes through, who may end it  *)
(* in each, and that a stack template has one unfinished run at a time.    *)
(* RunStore implements it (RunStore!Lifecycle).                            *)
(*                                                                         *)
(* "running" is split in two, planning and applying: the status column has *)
(* one word for both, and the rules differ.                                *)
(***************************************************************************)
CONSTANTS Runs, StackTemplates

VARIABLES
  phase,     \* where each run is
  of,        \* the stack template each run is for
  permitted  \* runs whose apply somebody permitted: approved, or auto-approved

vars == <<phase, of, permitted>>

RunPhases == {"absent", "queued", "planning", "waiting_approval", "approved",
              "applying", "completed", "failed", "canceled"}
Unfinished == {"queued", "planning", "waiting_approval", "approved", "applying"}

Init ==
  /\ phase = [r \in Runs |-> "absent"]
  /\ of \in [Runs -> StackTemplates]
  /\ permitted = {}

\* A new run takes the stack template's one slot; auto-approving it permits
\* its apply in advance.
Start(r, t) ==
  /\ phase[r] = "absent"
  /\ \A q \in Runs : of[q] = t => phase[q] \notin Unfinished
  /\ phase' = [phase EXCEPT ![r] = "queued"]
  /\ of' = [of EXCEPT ![r] = t]
  /\ permitted' \in {permitted, permitted \cup {r}}

Move(r, from, to) ==
  /\ phase[r] \in from
  /\ phase' = [phase EXCEPT ![r] = to]
  /\ UNCHANGED <<of, permitted>>

Plan(r)     == Move(r, {"queued"}, "planning")
Wait(r)     == Move(r, {"planning"}, "waiting_approval")
Discard(r)  == Move(r, {"waiting_approval", "approved"}, "canceled")
Complete(r) == Move(r, {"planning", "applying"}, "completed")
Fail(r)     == Move(r, Unfinished, "failed")

Approve(r) ==
  /\ phase[r] = "waiting_approval"
  /\ phase' = [phase EXCEPT ![r] = "approved"]
  /\ permitted' = permitted \cup {r}
  /\ UNCHANGED of

Apply(r) == r \in permitted /\ Move(r, {"queued", "approved"}, "applying")

Next ==
  \E r \in Runs :
    \/ \E t \in StackTemplates : Start(r, t)
    \/ Plan(r) \/ Wait(r) \/ Approve(r) \/ Discard(r) \/ Apply(r)
    \/ Complete(r) \/ Fail(r)

Spec == Init /\ [][Next]_vars
=============================================================================
