---------------------------- MODULE RunWorkflows ----------------------------
(***************************************************************************)
(* TemplatePlanWorkflow and TemplateApplyWorkflow carrying template runs   *)
(* through RunStore, with the service transactions that start, approve and *)
(* discard runs.                                                           *)
(*                                                                         *)
(* A workflow is a program: the sequence of calls its lifecycle makes, one *)
(* after another.  A call on the control plane is one RunStore transaction *)
(* scheduled as a Temporal activity with a single attempt, so it can be    *)
(* lost before its commit, lose its acknowledgement after it, or, when     *)
(* LateWrites, commit after the workflow gave up on it.  In each case the  *)
(* workflow sees an error, closes its workspace and records the run        *)
(* failed.  MaxFaults bounds how many calls go wrong in a behaviour.       *)
(*                                                                         *)
(* The executor's work can fail at every step.  Its effects outside        *)
(* Postgres are two: saved, the plan files in the artifact store, and      *)
(* deployed, the run whose snapshot the template's infrastructure is in.   *)
(***************************************************************************)
EXTENDS RunStore, Sequences

CONSTANTS MaxFaults,   \* bound on control calls that go wrong
          LateWrites,  \* whether a call given up on may still commit
          Unknown      \* infrastructure an interrupted apply left half done

ASSUME FaultsAssumption == MaxFaults \in Nat /\ LateWrites \in BOOLEAN
ASSUME UnknownAssumption == Unknown \notin Runs \cup {NoRun}
ASSUME StepsAssumption ==
  {"waiting_for_executor", "preparing_workspace", "fetching_source", "restoring_plan",
   "initializing", "selecting_workspace", "planning", "saving_plan", "applying"} \subseteq Steps

VARIABLES
  intents,     \* start intents committed to the work queue: <<run, phase>>
  at,          \* where each run's two workflows are
  late,        \* calls given up on that may still commit
  faults,      \* calls that went wrong so far
  unrecorded,  \* runs a workflow could not record as failed
  saved,       \* runs with a saved plan in the artifact store
  deployed     \* per stack template: the run whose snapshot is live

workflowVars == <<intents, at, late, faults, unrecorded, saved, deployed>>
allVars == <<vars, workflowVars>>

-----------------------------------------------------------------------------
(* The programs.                                                           *)

Do(call)     == [do |-> call, arg |-> "none"]
Step(s)      == [do |-> "step", arg |-> s]
Event(e)     == [do |-> "event", arg |-> e]

When(condition, calls) == IF condition THEN calls ELSE <<>>

\* inSession up to the open workspace, and ready().
Open == <<Step("waiting_for_executor"), Step("preparing_workspace")>>
Ready(restorePlan) ==
  <<Step("fetching_source")>>
  \o When(restorePlan, <<Do("read_key"), Step("restoring_plan")>>)
  \o <<Step("initializing"), Step("selecting_workspace")>>

\* Mutant: completed is recorded before the plan is finished.
PlanProgram_CompletesFirst(r, changes) ==
  LET waits == changes /\ operation[r] # "plan"
  IN <<Do("running")>> \o Open \o Ready(FALSE) \o <<Step("planning")>>
     \o When(waits, <<Do("create_key"), Step("saving_plan")>>)
     \o <<Do("close")>>
     \o When(~changes /\ operation[r] = "destroy", <<Event("destroyed")>>)
     \o When(~waits, <<Do("completed")>>)
     \o <<Do("finish")>>

\* planWorkflow.lifecycle and plan.
PlanProgram(r, changes) ==
  LET waits == changes /\ operation[r] # "plan"
  IN <<Do("running")>> \o Open \o Ready(FALSE) \o <<Step("planning")>>
     \o When(waits, <<Do("create_key"), Step("saving_plan")>>)
     \o <<Do("close"), Do("finish")>>
     \o When(~changes /\ operation[r] = "destroy", <<Event("destroyed")>>)
     \o When(~waits, <<Do("completed")>>)

\* Mutant: the applied event is forgotten.
ApplyProgram_NoEvent(r) ==
  LET destroy == operation[r] = "destroy"
  IN <<Do("claim")>> \o Open \o Ready(~autoApprove[r])
     \o When(destroy, <<Event("destroying")>>) \o <<Step("applying")>>
     \o When(destroy, <<Event("destroyed")>>) \o <<Do("close"), Do("completed")>>

\* applyWorkflow.lifecycle and apply.
ApplyProgram(r) ==
  LET destroy == operation[r] = "destroy"
  IN <<Do("claim")>> \o Open \o Ready(~autoApprove[r])
     \o When(destroy, <<Event("destroying")>>)
     \o <<Step("applying"), Event(IF destroy THEN "destroyed" ELSE "applied"),
          Do("close"), Do("completed")>>

Program(r, p) == IF p = "plan" THEN PlanProgram(r, at[r][p].changes)
                               ELSE ApplyProgram(r)

\* carries: the workflow's own check that the run is one of its kind.
Carries(r, p) ==
  IF p = "plan" THEN ~autoApprove[r]
                ELSE operation[r] # "plan" /\ (operation[r] = "destroy" => ~autoApprove[r])

Modes == {"idle", "calling", "working", "closing", "failing", "done"}

\* The call the workflow is making: the next of its program, or, once an
\* error ended that, recording the run failed.
Current(r, p) == IF at[r][p].mode = "failing" THEN Do("failed")
                                              ELSE Program(r, p)[at[r][p].next]

IsStoreCall(r, p) ==
  \/ at[r][p].mode = "failing"
  \/ at[r][p].mode = "calling" /\ Current(r, p).do # "close"

\* The steps of the run whose write was given up on and may be under way.  One
\* that commits as the run ends finds nothing to do when it lands again.
StepsUnderWay(r) == {s \in Steps : \E l \in late : l.run = r /\ l.call = Step(s)}

StoreCall(r, p, call, changes, reply) ==
  \/ call.do \in {"running", "completed", "failed"}
     /\ RecordTemplateRunStatus(r, p, call.do, StepsUnderWay(r), reply)
  \/ call.do = "step" /\ RecordTemplateRunStep(r, call.arg, reply)
  \/ call.do = "event"
     /\ RecordTemplateRunEvent(r, call.arg, call.arg # "destroying" /\ p = "apply", reply)
  \/ call.do = "create_key" /\ CreatePlanKey(r, reply)
  \/ call.do = "read_key" /\ Rejected(reply, IF planKey[r] THEN "ok" ELSE "error")
  \/ call.do = "finish" /\ FinishTemplatePlan(r, changes, reply)
  \/ call.do = "claim" /\ BeginTemplateApply(r, reply)

-----------------------------------------------------------------------------
(* Moving through a program.                                               *)

Goto(r, p, mode, next) ==
  at' = [at EXCEPT ![r][p].mode = mode, ![r][p].next = next]

\* The workspace is open between the end of preparing_workspace, the third
\* call of either program, and close.
WorkspaceOpen(r, p) ==
  /\ at[r][p].mode \in {"calling", "working"}
  /\ at[r][p].next > 3
  /\ \E n \in at[r][p].next .. Len(Program(r, p)) : Program(r, p)[n].do = "close"

\* An error: inSession's deferred close, then failOnError.  Recording the
\* failure is the last thing a workflow does, whether it succeeds or not.
Error(r, p) ==
  Goto(r, p, CASE at[r][p].mode = "failing" -> "done"
               [] WorkspaceOpen(r, p) -> "closing"
               [] OTHER -> "failing", at[r][p].next)

Advance(r, p) ==
  IF at[r][p].next = Len(Program(r, p)) THEN Goto(r, p, "done", at[r][p].next)
                                        ELSE Goto(r, p, "calling", at[r][p].next + 1)

\* What a workflow does with a reply.  A lost claim ends it quietly.
Resume(r, p, reply) ==
  \/ reply = "error" /\ Error(r, p)
  \/ reply = "lost_claim" /\ Goto(r, p, "done", at[r][p].next)
  \/ /\ reply \notin {"error", "lost_claim"}
     /\ \/ at[r][p].mode = "failing" /\ Error(r, p)
        \/ at[r][p].mode = "calling" /\ Current(r, p).do = "step"
           /\ Goto(r, p, "working", at[r][p].next)
        \/ at[r][p].mode = "calling" /\ Current(r, p).do # "step" /\ Advance(r, p)

\* The call commits and its reply arrives.
Call(r, p) ==
  /\ IsStoreCall(r, p)
  /\ \E reply \in Replies :
       /\ StoreCall(r, p, Current(r, p), at[r][p].changes, reply)
       /\ Resume(r, p, reply)
       /\ unrecorded' = IF at[r][p].mode = "failing" /\ reply = "error"
                        THEN unrecorded \cup {r} ELSE unrecorded
  /\ UNCHANGED <<intents, late, faults, saved, deployed>>

Fault == faults < MaxFaults /\ faults' = faults + 1

\* A failure nobody managed to record.
Unrecorded(r, p) ==
  unrecorded' = IF at[r][p].mode = "failing" THEN unrecorded \cup {r} ELSE unrecorded

\* The control worker dies, or times out, before the call commits.
LoseCall(r, p) ==
  /\ IsStoreCall(r, p) /\ Fault
  /\ Error(r, p) /\ Unrecorded(r, p)
  /\ UNCHANGED <<vars, intents, late, saved, deployed>>

\* ... after it commits, before Temporal has its result.
LoseAcknowledgement(r, p) ==
  /\ IsStoreCall(r, p) /\ Fault
  /\ \E reply \in Replies : StoreCall(r, p, Current(r, p), at[r][p].changes, reply)
  /\ Error(r, p)
  /\ UNCHANGED <<intents, late, unrecorded, saved, deployed>>

\* ... or the call times out while it is still on its way to the database.
DelayCall(r, p) ==
  /\ LateWrites
  /\ IsStoreCall(r, p) /\ Fault
  /\ late' = late \cup {[run |-> r, phase |-> p, call |-> Current(r, p),
                         changes |-> at[r][p].changes]}
  /\ Error(r, p) /\ Unrecorded(r, p)
  /\ UNCHANGED <<vars, intents, saved, deployed>>

LandLateCall ==
  \E l \in late, reply \in Replies :
    /\ StoreCall(l.run, l.phase, l.call, l.changes, reply)
    /\ late' = late \ {l}
    /\ UNCHANGED <<intents, at, faults, unrecorded, saved, deployed>>

-----------------------------------------------------------------------------
(* The executor's work.                                                    *)

\* Whether a plan may report changes.  It may report none only when the
\* infrastructure already is what the run asks for; and it may report some even
\* then, when somebody has changed the infrastructure behind Terraform's back.
PlanMayFind(r) ==
  LET live == deployed[template[r]]
  IN IF operation[r] = "destroy" THEN {live # NoRun}
     ELSE IF live \in Runs /\ snapshot[live] = snapshot[r] THEN BOOLEAN
     ELSE {TRUE}

Deploy(r) == [deployed EXCEPT ![template[r]] =
                IF operation[r] = "destroy" THEN NoRun ELSE r]

\* The work of a recorded step succeeds.
Work(r, p) ==
  LET s == Current(r, p).arg
  IN /\ at[r][p].mode = "working"
     /\ s = "restoring_plan" => r \in saved
     /\ IF s = "planning"
        THEN \E changes \in PlanMayFind(r) :
               at' = [at EXCEPT ![r][p] = [mode |-> "calling", changes |-> changes,
                                           next |-> at[r][p].next + 1]]
        ELSE Advance(r, p)
     /\ saved' = IF s = "saving_plan" THEN saved \cup {r} ELSE saved
     /\ deployed' = IF s = "applying" THEN Deploy(r) ELSE deployed
     /\ UNCHANGED <<vars, intents, late, faults, unrecorded>>

\* It fails, or the executor is gone: Terraform may have done some of its
\* work, all of it, or none.
WorkFails(r, p) ==
  LET s == Current(r, p).arg
  IN /\ at[r][p].mode = "working"
     /\ Error(r, p)
     /\ saved' \in IF s = "saving_plan" THEN {saved, saved \cup {r}} ELSE {saved}
     /\ deployed' \in IF s = "applying"
                      THEN {deployed, Deploy(r), [deployed EXCEPT ![template[r]] = Unknown]}
                      ELSE {deployed}
     /\ UNCHANGED <<vars, intents, late, faults, unrecorded>>

\* Mutants: closing after an error swallows it; closing a plan deletes its file.
Close_Swallows(r, p) ==
  /\ \/ at[r][p].mode = "closing" /\ Goto(r, p, "done", at[r][p].next)
     \/ at[r][p].mode = "calling" /\ Current(r, p).do = "close" /\ Advance(r, p)
  /\ saved' \in IF p = "apply" THEN {saved, saved \ {r}} ELSE {saved}
  /\ UNCHANGED <<vars, intents, late, faults, unrecorded, deployed>>
Close_DeletesPlan(r, p) ==
  /\ \/ at[r][p].mode = "closing" /\ Goto(r, p, "failing", at[r][p].next)
     \/ at[r][p].mode = "calling" /\ Current(r, p).do = "close" /\ Advance(r, p)
  /\ saved' \in {saved, saved \ {r}}
  /\ UNCHANGED <<vars, intents, late, faults, unrecorded, deployed>>

\* close: best effort, and an apply's deletes the saved plan.
Close(r, p) ==
  /\ \/ at[r][p].mode = "closing" /\ Goto(r, p, "failing", at[r][p].next)
     \/ at[r][p].mode = "calling" /\ Current(r, p).do = "close" /\ Advance(r, p)
  /\ saved' \in IF p = "apply" THEN {saved, saved \ {r}} ELSE {saved}
  /\ UNCHANGED <<vars, intents, late, faults, unrecorded, deployed>>

-----------------------------------------------------------------------------
(* The service's transactions, and starting workflows from their intents.  *)

\* StartTemplateRun's transaction.  What it read of the stack template before
\* it may be out of date by now, so any snapshot can be the run's.
StartTemplateRun(r) ==
  /\ \E t \in StackTemplates, o \in Operations, auto \in BOOLEAN, snap \in Snapshots :
       /\ auto => o = "apply"
       /\ CreateTemplateRun(r, t, o, auto, snap, "ok")
       /\ intents' = intents \cup {<<r, IF auto THEN "apply" ELSE "plan">>}
  /\ UNCHANGED <<at, late, faults, unrecorded, saved, deployed>>

\* ApproveRun's transaction.
ApproveRun(r) ==
  /\ ApproveTemplateRun(r, "ok")
  /\ intents' = intents \cup {<<r, "apply">>}
  /\ UNCHANGED <<at, late, faults, unrecorded, saved, deployed>>

\* DiscardRun's transaction.
DiscardRun(r) ==
  /\ DiscardTemplateRun(r, "ok")
  /\ UNCHANGED workflowVars

\* An intent is delivered at least once; the workflow ID, which Temporal
\* refuses to reuse, makes every delivery after the first do nothing.
StartWorkflow(r, p) ==
  /\ <<r, p>> \in intents
  /\ at[r][p].mode = "idle"
  /\ Goto(r, p, IF Carries(r, p) THEN "calling" ELSE "failing", 1)
  /\ UNCHANGED <<vars, intents, late, faults, unrecorded, saved, deployed>>

-----------------------------------------------------------------------------
WorkflowsInit ==
  /\ Init
  /\ intents = {}
  /\ at = [r \in Runs |-> [p \in Phases |->
             [mode |-> "idle", next |-> 0, changes |-> FALSE]]]
  /\ late = {}
  /\ faults = 0
  /\ unrecorded = {}
  /\ saved = {}
  /\ deployed = [t \in StackTemplates |-> NoRun]

\* What a workflow does when nothing goes wrong around it.
Progress(r, p) ==
  \/ StartWorkflow(r, p) \/ Call(r, p) \/ Work(r, p) \/ WorkFails(r, p) \/ Close(r, p)

WorkflowsNext ==
  \/ \E r \in Runs :
       \/ StartTemplateRun(r) \/ ApproveRun(r) \/ DiscardRun(r)
       \/ \E p \in Phases :
            Progress(r, p) \/ LoseCall(r, p) \/ LoseAcknowledgement(r, p) \/ DelayCall(r, p)
  \/ LandLateCall

\* The queue keeps delivering an intent until it is handled, and Temporal
\* keeps a started workflow moving.  Nobody is obliged to start, approve or
\* discard a run, and nothing has to go wrong.
WorkflowsSpec ==
  /\ WorkflowsInit /\ [][WorkflowsNext]_allVars
  /\ \A r \in Runs, p \in Phases : WF_allVars(Progress(r, p))

-----------------------------------------------------------------------------
(* Properties.                                                             *)

WorkflowsTypeOK ==
  /\ TypeOK
  /\ intents \subseteq Runs \X Phases
  /\ at \in [Runs -> [Phases -> [mode : Modes, next : 0..20, changes : BOOLEAN]]]
  /\ faults \in 0..MaxFaults
  /\ unrecorded \subseteq Runs /\ saved \subseteq Runs
  /\ deployed \in [StackTemplates -> Runs \cup {NoRun, Unknown}]

\* A plan someone may approve can be applied: its file is in the artifact
\* store and its key in the run's row, through every failure and late write.
ReviewablePlanCanBeApplied ==
  \A r \in Runs : status[r] \in {"waiting_approval", "approved"} =>
    planKey[r] /\ r \in saved

\* A run that completes has done what it was for: an apply run's snapshot is
\* live and recorded as the last applied, a destroy run has left nothing
\* deployed and its stack template destroyed.  The record alone can be taken
\* meanwhile, by a late write of a run that is over: FinishTemplatePlan for a
\* plan without changes reads no status.
CompletedRunDidItsWork ==
  [][\A r \in Runs : status[r] = "running" /\ status'[r] = "completed" =>
       LET t == template[r] IN
       /\ operation[r] = "apply" =>
            /\ \/ lastAppliedRun'[t] = r
               \/ LateWrites /\ lastAppliedRun'[t] \in {q \in Runs : status[q] \in Terminal}
            /\ deployed'[t] \in Runs /\ snapshot[deployed'[t]] = snapshot[r]
       /\ operation[r] = "destroy" =>
            lifecycle'[t] = "destroyed" /\ deployed'[t] = NoRun]_allVars

\* A review ends by a person or by the apply it let through, never by the plan
\* workflow: one that lost its FinishPlan acknowledgement fails afterwards, and
\* its failure reaches neither the waiting run nor the apply that claimed it.
PlanFailureNeverEndsAReview ==
  [][\A r \in Runs :
       /\ status[r] = "waiting_approval" =>
            status'[r] \in {"waiting_approval", "approved", "canceled"}
       /\ status[r] = "approved" /\ status'[r] = "failed" =>
            at[r]["apply"].mode \in {"failing", "done"}
       /\ Carrying(r, "apply") /\ status'[r] = "failed" =>
            at[r]["apply"].mode \in {"failing", "done"}]_allVars

\* A run that is over does not become what its stack template last applied
\* (recordStackTemplateLastApplied: "a run that has already moved on cannot
\* become live").
OverRunsNeverGoLive ==
  [][\A t \in StackTemplates : lastAppliedRun'[t] # lastAppliedRun[t] =>
       status[lastAppliedRun'[t]] \in InFlight]_allVars

\* Every run whose workflow has ended is out of running, unless the failure
\* itself could not be recorded; and its stack template reads destroying only
\* while a destroy run is applying, interrupted or not.
EndedWorkflowLeavesNothingRunning ==
  /\ \A r \in Runs, p \in Phases :
       at[r][p].mode = "done" /\ Carrying(r, p) => r \in unrecorded
  /\ \A t \in StackTemplates : lifecycle[t] = "destroying" =>
       \E r \in Runs : /\ template[r] = t /\ operation[r] = "destroy"
                       /\ status[r] = "running" /\ Carrying(r, "apply")

Unsettled(r) == status[r] \in {"queued", "running", "approved"}

\* Every run that starts, and every run that is approved, comes to an end or
\* to a person's decision, unless its failure could not be recorded.
RunsSettle == \A r \in Runs : Unsettled(r) ~> ~Unsettled(r) \/ r \in unrecorded
=============================================================================
