------------------------------ MODULE RunStore ------------------------------
(***************************************************************************)
(* The tables a template run lives in (template_runs,                      *)
(* template_run_approvals, template_run_workflow_executions,               *)
(* template_run_step_executions and the run columns of stack_templates)    *)
(* and every transaction of src/internal/postgres that writes them.        *)
(*                                                                         *)
(* One operator is one transaction, with everything it calls.  Its last    *)
(* parameter, reply, is what the transaction returns; a transaction that   *)
(* rolls back replies "error" and changes nothing.  Next is the most       *)
(* general client: any caller, in any order, any number of times, so what  *)
(* holds here does not depend on the workflows behaving.  RunWorkflows     *)
(* gives the callers their real order.                                     *)
(*                                                                         *)
(* A snapshot is a (template revision, config) pair as one value.  The     *)
(* revision and config columns beside pending_plan_run_id and              *)
(* last_applied_run_id are copied from the run named there by the same     *)
(* statement, and a run's own snapshot never changes, so they are read     *)
(* through the run here.  Resource counts keep only their guards.          *)
(***************************************************************************)
EXTENDS Naturals

CONSTANTS Runs,            \* run IDs, each used by at most one insert
          StackTemplates,  \* installed stack templates
          Snapshots,       \* (revision, config) pairs
          Steps,           \* step names
          NoRun            \* the empty run ID of an unset column

ASSUME NoRunAssumption == NoRun \notin Runs
ASSUME NonEmptyAssumption == StackTemplates # {} /\ Snapshots # {}

VARIABLES
  \* template_runs; status is "absent" until the row is inserted
  status, operation, autoApprove, template, snapshot, planKey,
  \* template_run_approvals
  approvals,
  \* template_run_workflow_executions and template_run_step_executions
  execution, step,
  \* stack_templates
  lifecycle, desired, pendingRun, lastAppliedRun

runVars      == <<status, operation, autoApprove, template, snapshot, planKey>>
executionVars == <<execution, step>>
templateVars == <<lifecycle, desired, pendingRun, lastAppliedRun>>
vars == <<status, operation, autoApprove, template, snapshot, planKey,
          approvals, execution, step,
          lifecycle, desired, pendingRun, lastAppliedRun>>

Phases     == {"plan", "apply"}
Operations == {"plan", "apply", "destroy"}
Statuses   == {"absent", "queued", "running", "waiting_approval", "approved",
               "completed", "failed", "canceled"}
Terminal   == {"completed", "failed", "canceled"}
InFlight   == {"queued", "running", "waiting_approval", "approved"}
ExecutionStatuses == {"none", "running", "succeeded", "failed"}
Lifecycles == {"active", "destroying", "destroyed", "failed"}
Events     == {"applied", "destroying", "destroyed"}
Replies    == {"ok", "error", "in_flight", "claimed", "lost_claim",
               "no_changes", "planned", "waiting"}

TypeOK ==
  /\ status \in [Runs -> Statuses]
  /\ operation \in [Runs -> Operations]
  /\ autoApprove \in [Runs -> BOOLEAN]
  /\ template \in [Runs -> StackTemplates]
  /\ snapshot \in [Runs -> Snapshots]
  /\ planKey \in [Runs -> BOOLEAN]
  /\ approvals \subseteq Runs
  /\ execution \in [Runs -> [Phases -> ExecutionStatuses]]
  /\ step \in [Runs -> [Phases -> [Steps -> ExecutionStatuses]]]
  /\ lifecycle \in [StackTemplates -> Lifecycles]
  /\ desired \in [StackTemplates -> Snapshots]
  /\ pendingRun \in [StackTemplates -> Runs \cup {NoRun}]
  /\ lastAppliedRun \in [StackTemplates -> Runs \cup {NoRun}]

-----------------------------------------------------------------------------
(* Executions and steps: helpers that run inside a caller's transaction.   *)

Carrying(r, p) == execution[r][p] = "running"
SomeCarrying(r) == \E p \in Phases : Carrying(r, p)

\* The step before ends well as the next one starts.
StartStep(r, p, s) ==
  step' = [step EXCEPT ![r][p] =
    [x \in Steps |-> IF x = s THEN "running"
                     ELSE IF step[r][p][x] = "running" THEN "succeeded"
                     ELSE step[r][p][x]]]

EndStep(r, p, outcome) ==
  step' = [step EXCEPT ![r][p] =
    IF Carrying(r, p)
    THEN [s \in Steps |-> IF step[r][p][s] = "running" THEN outcome
                          ELSE step[r][p][s]]
    ELSE @]

\* finishRunningExecution: end the steps of the phase's running execution, then
\* that execution.  Does nothing when the phase is not running.  Of the steps
\* whose own write is under way, one may commit between the two statements: the
\* first has not seen it, the second waits for it, and it stays running.
FinishRunningExecution(r, p, outcome, underWay) ==
  /\ execution' = [execution EXCEPT ![r][p] = IF @ = "running" THEN outcome ELSE @]
  /\ \/ EndStep(r, p, outcome)
     \/ \E s \in underWay :
          Carrying(r, p) /\ step[r][p][s] = "none" /\ StartStep(r, p, s)

\* insertWorkflowExecution: on conflict (run, phase) do nothing.
InsertExecution(r, p, as) ==
  /\ execution' = [execution EXCEPT ![r][p] = IF @ = "none" THEN as ELSE @]
  /\ UNCHANGED step

\* The one-running index refuses a second running execution of the run; the
\* insert's conflict clause does not cover it, so the transaction rolls back.
SecondRunning(r, p) == execution[r][p] = "none" /\ SomeCarrying(r)

\* Mutant: the pending plan is forgotten.
ReleaseRunPlan_KeepsPending(r) ==
  /\ planKey' = [planKey EXCEPT ![r] = FALSE]
  /\ UNCHANGED pendingRun

\* releaseRunPlan: drop the plan key, and stop being the pending plan.
ReleaseRunPlan(r) ==
  /\ planKey' = [planKey EXCEPT ![r] = FALSE]
  /\ pendingRun' = [t \in StackTemplates |->
                      IF pendingRun[t] = r THEN NoRun ELSE pendingRun[t]]

Rejected(reply, as) == reply = as /\ UNCHANGED vars

-----------------------------------------------------------------------------
(* The transactions.                                                       *)

\* Mutant: no in-flight index.
CreateTemplateRun_NoIndex(r, t, o, auto, snap, reply) ==
  /\ status[r] = "absent"
  /\ reply = "ok"
  /\ status' = [status EXCEPT ![r] = "queued"]
  /\ operation' = [operation EXCEPT ![r] = o]
  /\ autoApprove' = [autoApprove EXCEPT ![r] = auto]
  /\ template' = [template EXCEPT ![r] = t]
  /\ snapshot' = [snapshot EXCEPT ![r] = snap]
  /\ UNCHANGED <<planKey, approvals, executionVars, templateVars>>

\* createTemplateRun.  The in-flight index is the gate: the insert is refused
\* while another run of the stack template is not terminal.  Nothing here
\* looks at the stack template's lifecycle or desired state.
CreateTemplateRun(r, t, o, auto, snap, reply) ==
  /\ status[r] = "absent"
  /\ \/ /\ \E q \in Runs : template[q] = t /\ status[q] \in InFlight
        /\ Rejected(reply, "in_flight")
     \/ /\ \A q \in Runs : template[q] = t => status[q] \notin InFlight
        /\ reply = "ok"
        /\ status' = [status EXCEPT ![r] = "queued"]
        /\ operation' = [operation EXCEPT ![r] = o]
        /\ autoApprove' = [autoApprove EXCEPT ![r] = auto]
        /\ template' = [template EXCEPT ![r] = t]
        /\ snapshot' = [snapshot EXCEPT ![r] = snap]
        /\ UNCHANGED <<planKey, approvals, executionVars, templateVars>>

\* workflowStatusSources.
WorkflowStatusSources(to) ==
  CASE to = "running"   -> {"queued"}
    [] to = "completed" -> {"running"}
    [] to = "failed"    -> InFlight

\* RecordTemplateRunStatus to running: only the plan workflow records it, and
\* the plan's execution starts with it.
RecordRunning(r, p, reply) ==
  \/ /\ SecondRunning(r, p)
     /\ Rejected(reply, "error")
  \/ /\ ~SecondRunning(r, p)
     /\ reply = "ok"
     /\ status' = [status EXCEPT ![r] = "running"]
     /\ InsertExecution(r, p, "running")
     /\ UNCHANGED <<operation, autoApprove, template, snapshot, planKey,
                    approvals, templateVars>>

\* Mutant: once nothing is running, a failure is any workflow's to record.
Carried_EvenEnded(r, p, to) == Carrying(r, p) \/ (to = "failed" /\ ~SomeCarrying(r))

\* endWorkflowExecution: whether the terminal write is this workflow's to
\* make.  Its phase is running; or nothing is, the run fails, and the phase
\* has no execution yet.
Carried(r, p, to) ==
  \/ Carrying(r, p)
  \/ to = "failed" /\ ~SomeCarrying(r) /\ execution[r][p] = "none"

\* endWorkflowExecution: a run can only complete with an execution running.
NothingToComplete(r, to) == to = "completed" /\ ~SomeCarrying(r)

EndWorkflowExecution(r, p, to, underWay) ==
  IF Carrying(r, p)
  THEN FinishRunningExecution(r, p, IF to = "failed" THEN "failed" ELSE "succeeded",
                              underWay)
  ELSE InsertExecution(r, p, "failed")

\* Mutant: an interrupted destroy is not noticed.
InterruptedDestroy_Unnoticed(r, to) == lifecycle' = lifecycle

\* recordInterruptedDestroyLifecycle.
InterruptedDestroy(r, to) ==
  lifecycle' = IF /\ to = "failed"
                  /\ operation[r] = "destroy"
                  /\ lifecycle[template[r]] = "destroying"
               THEN [lifecycle EXCEPT ![template[r]] = "failed"]
               ELSE lifecycle

\* RecordTemplateRunStatus to completed or failed.  It locks the run's row; a
\* step's write locks only the execution's, so it may be under way meanwhile.
RecordTerminal(r, p, to, underWay, reply) ==
  \/ NothingToComplete(r, to) /\ Rejected(reply, "error")
  \/ /\ ~NothingToComplete(r, to) /\ ~Carried(r, p, to)
     /\ Rejected(reply, "ok")
  \/ /\ Carried(r, p, to)
     /\ reply = "ok"
     /\ EndWorkflowExecution(r, p, to, underWay)
     /\ status' = [status EXCEPT ![r] = to]
     /\ InterruptedDestroy(r, to)
     /\ ReleaseRunPlan(r)
     /\ UNCHANGED <<operation, autoApprove, template, snapshot, approvals,
                    desired, lastAppliedRun>>

RecordTemplateRunStatus(r, p, to, underWay, reply) ==
  /\ status[r] # "absent"
  /\ \/ status[r] = to /\ Rejected(reply, "ok")
     \/ /\ status[r] # to /\ status[r] \notin WorkflowStatusSources(to)
        /\ Rejected(reply, "error")
     \/ /\ status[r] # to /\ status[r] \in WorkflowStatusSources(to)
        /\ IF to = "running" THEN RecordRunning(r, p, reply)
                             ELSE RecordTerminal(r, p, to, underWay, reply)

\* RecordTemplateRunStep: a step starts in the run's running execution, and
\* ends the step before it.  The step the execution is already on is a retry
\* and changes nothing; a step that already ended is refused.
RecordTemplateRunStep(r, s, reply) ==
  \/ /\ ~(status[r] = "running" /\ SomeCarrying(r))
     /\ Rejected(reply, "error")
  \/ \E p \in Phases :
       /\ status[r] = "running" /\ Carrying(r, p)
       /\ \/ step[r][p][s] = "running" /\ Rejected(reply, "ok")
          \/ step[r][p][s] \in {"succeeded", "failed"} /\ Rejected(reply, "error")
          \/ /\ step[r][p][s] = "none"
             /\ reply = "ok" /\ StartStep(r, p, s)
             /\ UNCHANGED <<runVars, approvals, execution, templateVars>>

\* templateRunEventOperations.
EventOperation(event) == IF event = "applied" THEN "apply" ELSE "destroy"

\* RecordTemplateRunEvent: what a running run did to its stack template.  With
\* counts, it needs a running execution to put them on.
RecordTemplateRunEvent(r, event, counts, reply) ==
  LET t == template[r]
      accepted == /\ operation[r] = EventOperation(event)
                  /\ status[r] = "running"
                  /\ counts => SomeCarrying(r)
  IN \/ ~accepted /\ Rejected(reply, "error")
     \/ /\ accepted
        /\ reply = "ok"
        /\ IF event = "applied"
           THEN /\ lastAppliedRun' = [lastAppliedRun EXCEPT ![t] = r]
                /\ UNCHANGED lifecycle
           ELSE /\ lifecycle' = [lifecycle EXCEPT ![t] = event]
                /\ UNCHANGED lastAppliedRun
        /\ UNCHANGED <<runVars, approvals, executionVars, desired, pendingRun>>

\* Mutant: a run that is over gets a key too.
CreatePlanKey_AnyStatus(r, reply) ==
  /\ reply = "ok"
  /\ planKey' = [planKey EXCEPT ![r] = TRUE]
  /\ UNCHANGED <<status, operation, autoApprove, template, snapshot,
                 approvals, executionVars, templateVars>>

\* CreatePlanKey: make the key unless the run is terminal; the key made first
\* is the one everybody reads.  PlanKey, which only reads, is its guard.
CreatePlanKey(r, reply) ==
  \/ planKey[r] /\ Rejected(reply, "ok")
  \/ /\ ~planKey[r] /\ status[r] \notin InFlight
     /\ Rejected(reply, "error")
  \/ /\ ~planKey[r] /\ status[r] \in InFlight
     /\ reply = "ok"
     /\ planKey' = [planKey EXCEPT ![r] = TRUE]
     /\ UNCHANGED <<status, operation, autoApprove, template, snapshot,
                    approvals, executionVars, templateVars>>

\* FinishTemplatePlan, one operator per branch.  A plan with no changes makes
\* the run's snapshot the last applied one, and reads no status first.
FinishWithoutChanges(r, reply) ==
  /\ reply = "no_changes"
  /\ lastAppliedRun' = IF operation[r] = "destroy" THEN lastAppliedRun
                       ELSE [lastAppliedRun EXCEPT ![template[r]] = r]
  /\ UNCHANGED <<runVars, approvals, executionVars, lifecycle, desired, pendingRun>>

\* Mutant: the counts are recorded last.
UnderWayAfterCounts_CountsLast == Steps

\* Recording the counts has locked the execution's row, so no step's write is
\* under way after it.
UnderWayAfterCounts == {}

\* recordPlanCounts: counts go on the plan execution, running or not.
FinishPlanRun(r, reply) ==
  IF execution[r]["plan"] = "none" THEN Rejected(reply, "error")
                                   ELSE Rejected(reply, "planned")

\* The plan's execution ends as the run starts to wait.  A run already waiting
\* is this write retried; any other run without a running plan is refused.
FinishWithChanges(r, reply) ==
  LET accepted == /\ execution[r]["plan"] # "none"
                  /\ Carrying(r, "plan") \/ status[r] = "waiting_approval"
  IN \/ ~accepted /\ Rejected(reply, "error")
     \/ /\ accepted
        /\ reply = "waiting"
        /\ status' = [status EXCEPT ![r] = "waiting_approval"]
        /\ pendingRun' = [pendingRun EXCEPT ![template[r]] = r]
        /\ FinishRunningExecution(r, "plan", "succeeded", UnderWayAfterCounts)
        /\ UNCHANGED <<operation, autoApprove, template, snapshot, planKey,
                       approvals, lifecycle, desired, lastAppliedRun>>

FinishTemplatePlan(r, changes, reply) ==
  /\ status[r] # "absent"
  /\ \/ ~changes /\ FinishWithoutChanges(r, reply)
     \/ changes /\ operation[r] = "plan" /\ FinishPlanRun(r, reply)
     \/ changes /\ operation[r] # "plan" /\ FinishWithChanges(r, reply)

\* BeginTemplateApply: claim the run for its apply, from approved, or queued
\* when auto-approved.  A run already running is the claim retried.
BeginTemplateApply(r, reply) ==
  LET from == IF autoApprove[r] THEN "queued" ELSE "approved"
  IN \/ status[r] \notin {from, "running"} /\ Rejected(reply, "lost_claim")
     \/ /\ status[r] \in {from, "running"} /\ SecondRunning(r, "apply")
        /\ Rejected(reply, "error")
     \/ /\ status[r] \in {from, "running"} /\ ~SecondRunning(r, "apply")
        /\ reply = "claimed"
        /\ status' = [status EXCEPT ![r] = "running"]
        /\ InsertExecution(r, "apply", "running")
        /\ UNCHANGED <<operation, autoApprove, template, snapshot, planKey,
                       approvals, templateVars>>

\* approveTemplateRun.
ApproveTemplateRun(r, reply) ==
  \/ status[r] # "waiting_approval" /\ Rejected(reply, "error")
  \/ /\ status[r] = "waiting_approval"
     /\ reply = "ok"
     /\ status' = [status EXCEPT ![r] = "approved"]
     /\ approvals' = approvals \cup {r}
     /\ UNCHANGED <<operation, autoApprove, template, snapshot, planKey,
                    executionVars, templateVars>>

\* discardTemplateRun.
DiscardTemplateRun(r, reply) ==
  \/ status[r] \notin {"waiting_approval", "approved"} /\ Rejected(reply, "error")
  \/ /\ status[r] \in {"waiting_approval", "approved"}
     /\ reply = "ok"
     /\ status' = [status EXCEPT ![r] = "canceled"]
     /\ ReleaseRunPlan(r)
     /\ UNCHANGED <<operation, autoApprove, template, snapshot, approvals,
                    executionVars, lifecycle, desired, lastAppliedRun>>

\* UpdateStackTemplateConfig and UpdateStackTemplateDesiredRevision: the
\* update has no condition beside the row's identity.
UpdateDesired(t, snap) ==
  /\ desired' = [desired EXCEPT ![t] = snap]
  /\ UNCHANGED <<runVars, approvals, executionVars, lifecycle, pendingRun,
                 lastAppliedRun>>

-----------------------------------------------------------------------------
(* The most general client.                                                *)

\* Unset columns of a row not inserted yet hold an arbitrary value.
Init ==
  /\ status = [r \in Runs |-> "absent"]
  /\ operation = [r \in Runs |-> "plan"]
  /\ autoApprove = [r \in Runs |-> FALSE]
  /\ template = [r \in Runs |-> CHOOSE t \in StackTemplates : TRUE]
  /\ snapshot = [r \in Runs |-> CHOOSE s \in Snapshots : TRUE]
  /\ planKey = [r \in Runs |-> FALSE]
  /\ approvals = {}
  /\ execution = [r \in Runs |-> [p \in Phases |-> "none"]]
  /\ step = [r \in Runs |-> [p \in Phases |-> [s \in Steps |-> "none"]]]
  /\ lifecycle = [t \in StackTemplates |-> "active"]
  /\ desired \in [StackTemplates -> Snapshots]
  /\ pendingRun = [t \in StackTemplates |-> NoRun]
  /\ lastAppliedRun = [t \in StackTemplates |-> NoRun]

\* The one thing asked of the callers: running is recorded for the plan phase
\* only, and only an apply run is auto-approved (validateStartTemplateRunCommand).
\* Any step's write may be under way.
StoreStep(r, reply) ==
  \/ \E t \in StackTemplates, o \in Operations, auto \in BOOLEAN, snap \in Snapshots :
       (auto => o = "apply") /\ CreateTemplateRun(r, t, o, auto, snap, reply)
  \/ RecordTemplateRunStatus(r, "plan", "running", Steps, reply)
  \/ \E p \in Phases, to \in {"completed", "failed"} :
       RecordTemplateRunStatus(r, p, to, Steps, reply)
  \/ \E s \in Steps : RecordTemplateRunStep(r, s, reply)
  \/ \E event \in Events, counts \in BOOLEAN :
       RecordTemplateRunEvent(r, event, counts, reply)
  \/ CreatePlanKey(r, reply)
  \/ \E changes \in BOOLEAN : FinishTemplatePlan(r, changes, reply)
  \/ BeginTemplateApply(r, reply)
  \/ ApproveTemplateRun(r, reply)
  \/ DiscardTemplateRun(r, reply)

Next ==
  \/ \E r \in Runs, reply \in Replies : StoreStep(r, reply)
  \/ \E t \in StackTemplates, snap \in Snapshots : UpdateDesired(t, snap)

Spec == Init /\ [][Next]_vars

-----------------------------------------------------------------------------
(* Properties.                                                             *)

\* A run is running exactly when one of its workflow executions is, and never
\* two of them: the two tables are moved together by every transaction
\* (run_executions.go says so of itself).
RunningExactlyWhenCarried ==
  \A r \in Runs :
    /\ status[r] = "running" <=> SomeCarrying(r)
    /\ ~(Carrying(r, "plan") /\ Carrying(r, "apply"))

\* A run someone can still approve or discard is its stack template's pending
\* plan, its plan execution has ended well and no apply has begun; and a
\* pending plan is never a run that is queued or over, nor another template's.
PendingPlanIsReviewable ==
  /\ \A r \in Runs : status[r] \in {"waiting_approval", "approved"} =>
       /\ pendingRun[template[r]] = r
       /\ execution[r]["plan"] = "succeeded"
       /\ execution[r]["apply"] = "none"
  /\ \A t \in StackTemplates : pendingRun[t] # NoRun =>
       /\ template[pendingRun[t]] = t
       /\ status[pendingRun[t]] \in {"waiting_approval", "approved", "running"}

\* Once a run is over its saved plan can never be opened again: every path
\* that makes it terminal drops the key, and none makes a new one.
PlanKeyDroppedWhenOver ==
  \A r \in Runs : planKey[r] => status[r] \in InFlight

\* An apply runs, or ran to its end, only for a run somebody approved or one
\* started with auto-approve.  An apply that failed to claim its run leaves a
\* failed execution, which applied nothing.
AppliedOnlyWhenApproved ==
  \A r \in Runs : execution[r]["apply"] \in {"running", "succeeded"} =>
    autoApprove[r] \/ r \in approvals

\* The step timeline: an execution is on one step at a time, and a step that
\* outlives its execution is one of a run that a workflow has ended.  A run
\* waiting for its review, or in its apply, has no step of its plan running.
StepsFollowTheRun ==
  \A r \in Runs, p \in Phases, s \in Steps : step[r][p][s] = "running" =>
    /\ Carrying(r, p) \/ status[r] \in {"completed", "failed"}
    /\ \A x \in Steps : step[r][p][x] = "running" => x = s

\* The tables are moved together: what the run row, its executions, its steps
\* and its approvals say of a run is one story, whoever writes late or twice.
TablesAgree ==
  RunningExactlyWhenCarried /\ StepsFollowTheRun /\ AppliedOnlyWhenApproved

\* History is append-only.  A run that is over keeps its status, and an
\* execution that ended keeps its outcome, whatever late or repeated write
\* arrives from either workflow.
OverIsOver ==
  [][\A r \in Runs :
       /\ status[r] \in Terminal => status'[r] = status[r]
       /\ \A p \in Phases : execution[r][p] \in {"succeeded", "failed"} =>
            execution'[r][p] = execution[r][p]]_vars

\* The run lifecycle as its watchers see it: a running run is planning or
\* applying by which of its executions is running.
RunPhase(r) ==
  IF status[r] # "running" THEN status[r]
  ELSE IF Carrying(r, "plan") THEN "planning" ELSE "applying"

Permitted ==
  approvals \cup {r \in Runs : autoApprove[r] /\ status[r] # "absent"}

Lifecycle == INSTANCE RunLifecycle WITH
  phase <- [r \in Runs |-> RunPhase(r)],
  of <- template,
  permitted <- Permitted

\* Every transaction, called by anyone at any time, is a step of the run
\* lifecycle or no step of it: one unfinished run per stack template, only the
\* moves listed there, and an apply only for a run permitted to apply.
FollowsLifecycle == Lifecycle!Spec
=============================================================================
