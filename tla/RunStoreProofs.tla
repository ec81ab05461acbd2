--------------------------- MODULE RunStoreProofs ---------------------------
(***************************************************************************)
(* What RunStore guarantees whatever its callers do, proved for any runs,  *)
(* stack templates, snapshots and steps.                                   *)
(***************************************************************************)
EXTENDS RunStore, TLAPS

-----------------------------------------------------------------------------
(* The inductive invariant.                                                *)

\* The in-flight index: a stack template has one unfinished run.
OneUnfinishedRun ==
  \A q, r \in Runs :
    template[q] = template[r] /\ status[q] \in InFlight /\ status[r] \in InFlight
      => q = r

\* No execution exists of a run that has not begun.
NothingBeforeTheRun ==
  \A r \in Runs : status[r] \in {"absent", "queued"} =>
    execution[r]["plan"] = "none" /\ execution[r]["apply"] = "none"

\* An apply execution never precedes the end of the plan's.
ApplyFollowsPlan ==
  \A r \in Runs : Carrying(r, "plan") => execution[r]["apply"] = "none"

\* A run is approved by an approval.
ApprovedByApproval ==
  \A r \in Runs : status[r] = "approved" => r \in approvals

IInv ==
  /\ TypeOK
  /\ RunningExactlyWhenCarried
  /\ PendingPlanIsReviewable
  /\ PlanKeyDroppedWhenOver
  /\ AppliedOnlyWhenApproved
  /\ StepsFollowTheRun
  /\ OneUnfinishedRun
  /\ NothingBeforeTheRun
  /\ ApplyFollowsPlan
  /\ ApprovedByApproval
-----------------------------------------------------------------------------
(* The helpers, run by run.                                                *)

LEMMA InsertedExecution ==
  ASSUME TypeOK, NEW r \in Runs, NEW p \in Phases, NEW as \in ExecutionStatuses,
         InsertExecution(r, p, as)
  PROVE  /\ execution' \in [Runs -> [Phases -> ExecutionStatuses]]
         /\ step' = step
         /\ \A q \in Runs \ {r} : execution'[q] = execution[q]
         /\ \A x \in Phases \ {p} : execution'[r][x] = execution[r][x]
         /\ execution'[r][p] = IF execution[r][p] = "none" THEN as ELSE execution[r][p]
  BY DEF InsertExecution, TypeOK

\* What is left of execution p's steps once it has ended: none is running, or
\* the one whose write was under way is.
NoStepLeft(r, p)     == \A s \in Steps : step'[r][p][s] # "running"
OneStepLeft(r, p, s) == \A x \in Steps : step'[r][p][x] = "running" <=> x = s

LEMMA FinishedExecution ==
  ASSUME TypeOK, NEW r \in Runs, NEW p \in Phases,
         NEW outcome \in {"succeeded", "failed"}, NEW underWay \in SUBSET Steps,
         FinishRunningExecution(r, p, outcome, underWay), Carrying(r, p)
  PROVE  /\ execution' \in [Runs -> [Phases -> ExecutionStatuses]]
         /\ step' \in [Runs -> [Phases -> [Steps -> ExecutionStatuses]]]
         /\ \A q \in Runs \ {r} : execution'[q] = execution[q] /\ step'[q] = step[q]
         /\ \A x \in Phases \ {p} : execution'[r][x] = execution[r][x] /\ step'[r][x] = step[r][x]
         /\ execution'[r][p] = outcome
         /\ NoStepLeft(r, p) \/ \E s \in underWay : OneStepLeft(r, p, s)
<1>1. /\ execution' \in [Runs -> [Phases -> ExecutionStatuses]]
      /\ \A q \in Runs \ {r} : execution'[q] = execution[q]
      /\ \A x \in Phases \ {p} : execution'[r][x] = execution[r][x]
      /\ execution'[r][p] = outcome
  BY DEF FinishRunningExecution, TypeOK, ExecutionStatuses, Carrying
<1>2. CASE EndStep(r, p, outcome)
  <2>1. /\ step' \in [Runs -> [Phases -> [Steps -> ExecutionStatuses]]]
        /\ \A q \in Runs \ {r} : step'[q] = step[q]
        /\ \A x \in Phases \ {p} : step'[r][x] = step[r][x]
        /\ NoStepLeft(r, p)
    BY <1>2 DEF EndStep, NoStepLeft, TypeOK, ExecutionStatuses
  <2> QED
    BY <1>1, <2>1
<1>3. CASE \E s \in underWay : StartStep(r, p, s)
  <2>1. PICK s \in underWay : StartStep(r, p, s)
    BY <1>3
  <2>2. /\ step' \in [Runs -> [Phases -> [Steps -> ExecutionStatuses]]]
        /\ \A q \in Runs \ {r} : step'[q] = step[q]
        /\ \A x \in Phases \ {p} : step'[r][x] = step[r][x]
        /\ OneStepLeft(r, p, s)
    BY <2>1 DEF StartStep, OneStepLeft, TypeOK, ExecutionStatuses
  <2> QED
    BY <1>1, <2>2
<1> QED
  BY <1>2, <1>3 DEF FinishRunningExecution

LEMMA ReleasedPlan ==
  ASSUME TypeOK, NEW r \in Runs, ReleaseRunPlan(r)
  PROVE  /\ planKey' \in [Runs -> BOOLEAN]
         /\ pendingRun' \in [StackTemplates -> Runs \cup {NoRun}]
         /\ ~planKey'[r]
         /\ \A q \in Runs \ {r} : planKey'[q] = planKey[q]
         /\ \A t \in StackTemplates :
              pendingRun'[t] = IF pendingRun[t] = r THEN NoRun ELSE pendingRun[t]
  BY DEF ReleaseRunPlan, TypeOK

-----------------------------------------------------------------------------
(* The moves of one run that the transactions come down to.                *)

\* What a transaction about r leaves alone: every other run.
OtherRunsKept(r) ==
  \A q \in Runs \ {r} :
    /\ status'[q] = status[q]
    /\ template'[q] = template[q]
    /\ autoApprove'[q] = autoApprove[q]
    /\ planKey'[q] = planKey[q]
    /\ execution'[q] = execution[q]
    /\ step'[q] = step[q]
    /\ q \in approvals' <=> q \in approvals

IdentityKept(r)   == template'[r] = template[r] /\ autoApprove'[r] = autoApprove[r]
ApprovalsKept     == approvals' = approvals
ExecutionsKept(r) == execution'[r] = execution[r] /\ step'[r] = step[r]
PlanKept(r)       == planKey'[r] = planKey[r] /\ pendingRun' = pendingRun
PlanReleased(r) ==
  /\ ~planKey'[r]
  /\ \A t \in StackTemplates :
       pendingRun'[t] = IF pendingRun[t] = r THEN NoRun ELSE pendingRun[t]

\* Execution p of r becomes outcome.
ExecutionEnds(r, p, outcome) ==
  /\ execution'[r][p] = outcome
  /\ \A x \in Phases \ {p} : execution'[r][x] = execution[r][x] /\ step'[r][x] = step[r][x]

ExecutionAppears(r, p, as) ==
  /\ execution[r][p] = "none" /\ execution'[r][p] = as
  /\ \A x \in Phases \ {p} : execution'[r][x] = execution[r][x]
  /\ step' = step

Queued(r) ==
  /\ status[r] = "absent" /\ status'[r] = "queued"
  /\ \A q \in Runs : template[q] = template'[r] => status[q] \notin InFlight
  /\ ExecutionsKept(r) /\ PlanKept(r) /\ ApprovalsKept

Begun(r, p) ==
  /\ status'[r] = "running" /\ ~SomeCarrying(r)
  /\ \/ p = "plan" /\ status[r] = "queued"
     \/ p = "apply" /\ status[r] = "queued" /\ autoApprove[r]
     \/ p = "apply" /\ status[r] = "approved"
  /\ ExecutionAppears(r, p, "running")
  /\ IdentityKept(r) /\ PlanKept(r) /\ ApprovalsKept

Ended(r, p, to) ==
  /\ status[r] = "running" /\ Carrying(r, p) /\ status'[r] = to
  /\ ExecutionEnds(r, p, IF to = "failed" THEN "failed" ELSE "succeeded")
  /\ NoStepLeft(r, p) \/ \E s \in Steps : OneStepLeft(r, p, s)
  /\ IdentityKept(r) /\ PlanReleased(r) /\ ApprovalsKept

FailedBefore(r, p) ==
  /\ status[r] \in InFlight /\ ~SomeCarrying(r) /\ status'[r] = "failed"
  /\ ExecutionAppears(r, p, "failed")
  /\ IdentityKept(r) /\ PlanReleased(r) /\ ApprovalsKept

StepStarted(r, p, s) ==
  /\ status'[r] = status[r] /\ execution'[r] = execution[r] /\ Carrying(r, p)
  /\ \A x \in Phases \ {p} : step'[r][x] = step[r][x]
  /\ \A x \in Steps : step'[r][p][x] = "running" <=> x = s
  /\ IdentityKept(r) /\ PlanKept(r) /\ ApprovalsKept

KeyMade(r) ==
  /\ status[r] \in InFlight /\ status'[r] = status[r] /\ pendingRun' = pendingRun
  /\ ExecutionsKept(r) /\ IdentityKept(r) /\ ApprovalsKept

Waits(r) ==
  /\ status[r] = "running" /\ Carrying(r, "plan") /\ status'[r] = "waiting_approval"
  /\ ExecutionEnds(r, "plan", "succeeded") /\ NoStepLeft(r, "plan")
  /\ planKey'[r] = planKey[r]
  /\ \A t \in StackTemplates :
       pendingRun'[t] = IF t = template[r] THEN r ELSE pendingRun[t]
  /\ IdentityKept(r) /\ ApprovalsKept

Approved(r) ==
  /\ status[r] = "waiting_approval" /\ status'[r] = "approved"
  /\ approvals' = approvals \cup {r}
  /\ ExecutionsKept(r) /\ IdentityKept(r) /\ PlanKept(r)

Discarded(r) ==
  /\ status[r] \in {"waiting_approval", "approved"} /\ status'[r] = "canceled"
  /\ ExecutionsKept(r) /\ IdentityKept(r) /\ PlanReleased(r) /\ ApprovalsKept

\* Nothing about any run changes, whatever happens to its stack template.
RunsKept(r) ==
  /\ status'[r] = status[r]
  /\ ExecutionsKept(r) /\ IdentityKept(r) /\ PlanKept(r) /\ ApprovalsKept

Move(r) ==
  /\ OtherRunsKept(r)
  /\ \/ Queued(r)
     \/ \E p \in Phases : Begun(r, p)
     \/ \E p \in Phases, to \in {"completed", "failed"} : Ended(r, p, to)
     \/ \E p \in Phases : FailedBefore(r, p)
     \/ \E p \in Phases, s \in Steps : StepStarted(r, p, s)
     \/ KeyMade(r) \/ Waits(r) \/ Approved(r) \/ Discarded(r) \/ RunsKept(r)

-----------------------------------------------------------------------------
(* Each transaction is one of the moves.                                   *)

LEMMA CreateMoves ==
  ASSUME IInv, NEW r \in Runs, NEW reply, NEW t \in StackTemplates,
         NEW o \in Operations, NEW auto \in BOOLEAN, NEW snap \in Snapshots,
         CreateTemplateRun(r, t, o, auto, snap, reply), vars' # vars
  PROVE  TypeOK' /\ Move(r)
<1>1. /\ status[r] = "absent"
      /\ \A q \in Runs : template[q] = t => status[q] \notin InFlight
      /\ status' = [status EXCEPT ![r] = "queued"]
      /\ operation' = [operation EXCEPT ![r] = o]
      /\ autoApprove' = [autoApprove EXCEPT ![r] = auto]
      /\ template' = [template EXCEPT ![r] = t]
      /\ snapshot' = [snapshot EXCEPT ![r] = snap]
      /\ UNCHANGED <<planKey, approvals, executionVars, templateVars>>
  BY DEF CreateTemplateRun, Rejected
<1>2. status' \in [Runs -> Statuses]
  BY <1>1 DEF IInv, TypeOK, Statuses
<1>3. operation' \in [Runs -> Operations]
  BY <1>1 DEF IInv, TypeOK
<1>4. autoApprove' \in [Runs -> BOOLEAN]
  BY <1>1 DEF IInv, TypeOK
<1>5. template' \in [Runs -> StackTemplates] /\ snapshot' \in [Runs -> Snapshots]
  BY <1>1 DEF IInv, TypeOK
<1>6. TypeOK'
  BY <1>1, <1>2, <1>3, <1>4, <1>5 DEF IInv, TypeOK, executionVars, templateVars
<1>7. OtherRunsKept(r)
  BY <1>1 DEF IInv, TypeOK, OtherRunsKept, executionVars
<1>8. Queued(r)
  BY <1>1 DEF IInv, TypeOK, Queued, ExecutionsKept, PlanKept, ApprovalsKept,
              executionVars, templateVars
<1> QED
  BY <1>6, <1>7, <1>8 DEF Move

LEMMA RecordRunningMoves ==
  ASSUME IInv, NEW r \in Runs, NEW reply,
         RecordTemplateRunStatus(r, "plan", "running", Steps, reply), vars' # vars
  PROVE  TypeOK' /\ Move(r)
<1>1. /\ status[r] = "queued"
      /\ ~SecondRunning(r, "plan")
      /\ status' = [status EXCEPT ![r] = "running"]
      /\ InsertExecution(r, "plan", "running")
      /\ UNCHANGED <<operation, autoApprove, template, snapshot, planKey,
                     approvals, templateVars>>
  BY DEF RecordTemplateRunStatus, WorkflowStatusSources, RecordRunning, Rejected
<1>2. /\ "plan" \in Phases /\ "running" \in ExecutionStatuses /\ TypeOK
      /\ execution[r]["plan"] = "none" /\ ~SomeCarrying(r)
  BY <1>1 DEF IInv, Phases, ExecutionStatuses, NothingBeforeTheRun, SomeCarrying, Carrying
<1>3. /\ execution' \in [Runs -> [Phases -> ExecutionStatuses]]
      /\ step' = step
      /\ \A q \in Runs \ {r} : execution'[q] = execution[q]
      /\ \A x \in Phases \ {"plan"} : execution'[r][x] = execution[r][x]
      /\ execution'[r]["plan"] = "running"
  BY <1>1, <1>2, InsertedExecution, Zenon
<1>4. status' \in [Runs -> Statuses]
  BY <1>1, <1>2 DEF TypeOK, Statuses
<1>5. TypeOK'
  BY <1>1, <1>2, <1>3, <1>4 DEF TypeOK, templateVars
<1>6. OtherRunsKept(r)
  BY <1>1, <1>2, <1>3 DEF TypeOK, OtherRunsKept
<1>7. Begun(r, "plan")
  BY <1>1, <1>2, <1>3 DEF TypeOK, Begun, ExecutionAppears, IdentityKept, PlanKept,
                          ApprovalsKept, templateVars
<1> QED
  BY <1>2, <1>5, <1>6, <1>7 DEF Move

LEMMA RecordTerminalMoves ==
  ASSUME IInv, NEW r \in Runs, NEW reply, NEW p \in Phases,
         NEW to \in {"completed", "failed"},
         RecordTemplateRunStatus(r, p, to, Steps, reply), vars' # vars
  PROVE  TypeOK' /\ Move(r)
<1>1. /\ Carried(r, p, to)
      /\ status[r] \in IF to = "failed" THEN InFlight ELSE {"running"}
      /\ EndWorkflowExecution(r, p, to, Steps)
      /\ status' = [status EXCEPT ![r] = to]
      /\ InterruptedDestroy(r, to)
      /\ ReleaseRunPlan(r)
      /\ UNCHANGED <<operation, autoApprove, template, snapshot, approvals,
                     desired, lastAppliedRun>>
  BY DEF RecordTemplateRunStatus, WorkflowStatusSources, RecordTerminal, Rejected
<1>2. TypeOK /\ "failed" \in ExecutionStatuses /\ "succeeded" \in ExecutionStatuses
  BY DEF IInv, ExecutionStatuses
<1>3. /\ planKey' \in [Runs -> BOOLEAN]
      /\ pendingRun' \in [StackTemplates -> Runs \cup {NoRun}]
      /\ PlanReleased(r)
      /\ \A q \in Runs \ {r} : planKey'[q] = planKey[q]
  BY <1>1, <1>2, ReleasedPlan, Zenon DEF PlanReleased
<1>4. status' \in [Runs -> Statuses] /\ lifecycle' \in [StackTemplates -> Lifecycles]
  BY <1>1, <1>2 DEF TypeOK, Statuses, InterruptedDestroy, Lifecycles
<1>5. IdentityKept(r) /\ ApprovalsKept
  BY <1>1 DEF IdentityKept, ApprovalsKept
<1>6. CASE Carrying(r, p)
  <2> DEFINE outcome == IF to = "failed" THEN "failed" ELSE "succeeded"
  <2>1. outcome \in {"succeeded", "failed"} /\ FinishRunningExecution(r, p, outcome, Steps)
    BY <1>1, <1>2, <1>6 DEF EndWorkflowExecution
  <2>2. /\ execution' \in [Runs -> [Phases -> ExecutionStatuses]]
        /\ step' \in [Runs -> [Phases -> [Steps -> ExecutionStatuses]]]
        /\ \A q \in Runs \ {r} : execution'[q] = execution[q] /\ step'[q] = step[q]
        /\ \A x \in Phases \ {p} : execution'[r][x] = execution[r][x] /\ step'[r][x] = step[r][x]
        /\ execution'[r][p] = outcome
        /\ NoStepLeft(r, p) \/ \E s \in Steps : OneStepLeft(r, p, s)
    <3> HIDE DEF outcome
    <3>1. Steps \in SUBSET Steps
      OBVIOUS
    <3> QED BY <1>2, <1>6, <2>1, <3>1, FinishedExecution, Zenon
  <2>3. ExecutionEnds(r, p, outcome)
    BY <2>2 DEF ExecutionEnds
  <2>4. status[r] = "running"
    BY <1>6, <1>2 DEF IInv, RunningExactlyWhenCarried, SomeCarrying
  <2>5. TypeOK'
    BY <1>1, <1>2, <1>3, <1>4, <2>2 DEF TypeOK
  <2>6. OtherRunsKept(r)
    BY <1>1, <1>2, <1>3, <2>2 DEF TypeOK, OtherRunsKept
  <2>7. Ended(r, p, to)
    BY <1>1, <1>2, <1>3, <1>5, <1>6, <2>2, <2>3, <2>4 DEF TypeOK, Ended
  <2> QED
    BY <2>5, <2>6, <2>7 DEF Move
<1>7. CASE ~Carrying(r, p)
  <2>1. /\ to = "failed" /\ ~SomeCarrying(r) /\ execution[r][p] = "none"
        /\ InsertExecution(r, p, "failed")
    BY <1>1, <1>7 DEF Carried, EndWorkflowExecution
  <2>2. /\ execution' \in [Runs -> [Phases -> ExecutionStatuses]]
        /\ step' = step
        /\ \A q \in Runs \ {r} : execution'[q] = execution[q]
        /\ \A x \in Phases \ {p} : execution'[r][x] = execution[r][x]
        /\ execution'[r][p] = "failed"
    BY <1>2, <2>1, InsertedExecution, Zenon
  <2>5. TypeOK'
    BY <1>1, <1>2, <1>3, <1>4, <2>2 DEF TypeOK
  <2>6. OtherRunsKept(r)
    BY <1>1, <1>2, <1>3, <2>2 DEF TypeOK, OtherRunsKept
  <2>7. FailedBefore(r, p)
    BY <1>1, <1>2, <1>3, <1>5, <2>1, <2>2 DEF TypeOK, FailedBefore, ExecutionAppears
  <2> QED
    BY <2>5, <2>6, <2>7 DEF Move
<1> QED
  BY <1>6, <1>7

LEMMA RecordStepMoves ==
  ASSUME IInv, NEW r \in Runs, NEW reply, NEW s \in Steps,
         RecordTemplateRunStep(r, s, reply), vars' # vars
  PROVE  TypeOK' /\ Move(r)
<1>1. PICK p \in Phases :
        /\ status[r] = "running" /\ Carrying(r, p)
        /\ StartStep(r, p, s)
        /\ UNCHANGED <<runVars, approvals, execution, templateVars>>
  BY DEF RecordTemplateRunStep, Rejected
<1>2. step' \in [Runs -> [Phases -> [Steps -> ExecutionStatuses]]]
  BY <1>1 DEF IInv, TypeOK, ExecutionStatuses, StartStep
<1>3. TypeOK'
  BY <1>1, <1>2 DEF IInv, TypeOK, runVars, templateVars
<1>4. OtherRunsKept(r)
  BY <1>1 DEF IInv, TypeOK, OtherRunsKept, StartStep, runVars
<1>5. StepStarted(r, p, s)
  BY <1>1 DEF IInv, TypeOK, StepStarted, StartStep, IdentityKept, PlanKept, ApprovalsKept,
              runVars, templateVars
<1> QED
  BY <1>3, <1>4, <1>5 DEF Move

LEMMA RecordEventMoves ==
  ASSUME IInv, NEW r \in Runs, NEW reply, NEW event \in Events, NEW counts \in BOOLEAN,
         RecordTemplateRunEvent(r, event, counts, reply), vars' # vars
  PROVE  TypeOK' /\ Move(r)
<1>1. UNCHANGED <<runVars, approvals, executionVars, desired, pendingRun>>
  BY DEF RecordTemplateRunEvent, Rejected
<1>2. lifecycle' \in [StackTemplates -> Lifecycles]
  BY DEF IInv, TypeOK, RecordTemplateRunEvent, Rejected, Events, Lifecycles
<1>3. lastAppliedRun' \in [StackTemplates -> Runs \cup {NoRun}]
  BY DEF IInv, TypeOK, RecordTemplateRunEvent, Rejected
<1>4. TypeOK'
  BY <1>1, <1>2, <1>3 DEF IInv, TypeOK, runVars, executionVars
<1>5. OtherRunsKept(r) /\ RunsKept(r)
  BY <1>1 DEF OtherRunsKept, RunsKept, ExecutionsKept, IdentityKept, PlanKept,
              ApprovalsKept, runVars, executionVars
<1> QED
  BY <1>4, <1>5 DEF Move

LEMMA CreateKeyMoves ==
  ASSUME IInv, NEW r \in Runs, NEW reply, CreatePlanKey(r, reply), vars' # vars
  PROVE  TypeOK' /\ Move(r)
<1>1. /\ status[r] \in InFlight
      /\ planKey' = [planKey EXCEPT ![r] = TRUE]
      /\ UNCHANGED <<status, operation, autoApprove, template, snapshot,
                     approvals, executionVars, templateVars>>
  BY DEF CreatePlanKey, Rejected
<1>2. TypeOK'
  BY <1>1 DEF IInv, TypeOK, executionVars, templateVars
<1>3. OtherRunsKept(r) /\ KeyMade(r)
  BY <1>1 DEF IInv, TypeOK, OtherRunsKept, KeyMade, ExecutionsKept, IdentityKept,
              ApprovalsKept, executionVars, templateVars
<1> QED
  BY <1>2, <1>3 DEF Move

LEMMA FinishPlanMoves ==
  ASSUME IInv, NEW r \in Runs, NEW reply, NEW changes \in BOOLEAN,
         FinishTemplatePlan(r, changes, reply), vars' # vars
  PROVE  TypeOK' /\ Move(r)
<1>1. CASE FinishWithoutChanges(r, reply)
  <2>1. UNCHANGED <<runVars, approvals, executionVars, lifecycle, desired, pendingRun>>
    BY <1>1 DEF FinishWithoutChanges
  <2>2. lastAppliedRun' \in [StackTemplates -> Runs \cup {NoRun}]
    BY <1>1 DEF FinishWithoutChanges, IInv, TypeOK
  <2>3. TypeOK'
    BY <2>1, <2>2 DEF IInv, TypeOK, runVars, executionVars
  <2>4. OtherRunsKept(r) /\ RunsKept(r)
    BY <2>1 DEF OtherRunsKept, RunsKept, ExecutionsKept, IdentityKept, PlanKept,
                ApprovalsKept, runVars, executionVars
  <2> QED
    BY <2>3, <2>4 DEF Move
<1>2. CASE FinishWithChanges(r, reply)
  <2>1. /\ Carrying(r, "plan") \/ status[r] = "waiting_approval"
        /\ status' = [status EXCEPT ![r] = "waiting_approval"]
        /\ pendingRun' = [pendingRun EXCEPT ![template[r]] = r]
        /\ FinishRunningExecution(r, "plan", "succeeded", {})
        /\ UNCHANGED <<operation, autoApprove, template, snapshot, planKey,
                       approvals, lifecycle, desired, lastAppliedRun>>
    BY <1>2 DEF FinishWithChanges, Rejected, UnderWayAfterCounts
  <2>2. TypeOK /\ "plan" \in Phases /\ {} \in SUBSET Steps
    BY DEF IInv, Phases
  <2>3. Carrying(r, "plan") =>
        /\ execution' \in [Runs -> [Phases -> ExecutionStatuses]]
        /\ step' \in [Runs -> [Phases -> [Steps -> ExecutionStatuses]]]
        /\ \A q \in Runs \ {r} : execution'[q] = execution[q] /\ step'[q] = step[q]
        /\ \A x \in Phases \ {"plan"} : execution'[r][x] = execution[r][x] /\ step'[r][x] = step[r][x]
        /\ execution'[r]["plan"] = "succeeded"
        /\ NoStepLeft(r, "plan")
    BY <2>1, <2>2, FinishedExecution, Zenon
  <2>4. status' \in [Runs -> Statuses] /\ pendingRun' \in [StackTemplates -> Runs \cup {NoRun}]
    BY <2>1, <2>2 DEF TypeOK, Statuses
  <2>7. CASE Carrying(r, "plan")
    <3>3. TypeOK'
      BY <2>1, <2>2, <2>3, <2>4, <2>7 DEF TypeOK
    <3>4. OtherRunsKept(r)
      BY <2>1, <2>2, <2>3, <2>7 DEF TypeOK, OtherRunsKept
    <3>1. status[r] = "running"
      BY <2>2, <2>7 DEF IInv, RunningExactlyWhenCarried, SomeCarrying
    <3>2. ExecutionEnds(r, "plan", "succeeded")
      BY <2>3, <2>7 DEF ExecutionEnds
    <3>5. Waits(r)
      BY <2>1, <2>2, <2>3, <2>7, <3>1, <3>2 DEF TypeOK, Waits, IdentityKept, ApprovalsKept
    <3> QED
      BY <3>3, <3>4, <3>5 DEF Move
  <2>8. CASE ~Carrying(r, "plan")
    <3>1. status' = status /\ pendingRun' = pendingRun
      BY <2>1, <2>2, <2>8 DEF IInv, TypeOK, PendingPlanIsReviewable
    <3>2. execution' = execution /\ step' = step
      <4>1. /\ EndStep(r, "plan", "succeeded")
            /\ execution' = [execution EXCEPT ![r]["plan"] =
                               IF @ = "running" THEN "succeeded" ELSE @]
        BY <2>1, <2>8 DEF FinishRunningExecution
      <4>2. execution' = execution
        BY <2>2, <2>8, <4>1 DEF TypeOK, Carrying
      <4>3. step' = step
        BY <2>2, <2>8, <4>1 DEF TypeOK, EndStep
      <4> QED
        BY <4>2, <4>3
    <3> QED
      BY <2>1, <3>1, <3>2 DEF vars
  <2> QED
    BY <2>7, <2>8
<1> QED
  BY <1>1, <1>2 DEF FinishTemplatePlan, FinishPlanRun, Rejected

LEMMA BeginApplyMoves ==
  ASSUME IInv, NEW r \in Runs, NEW reply, BeginTemplateApply(r, reply), vars' # vars
  PROVE  TypeOK' /\ Move(r)
<1>1. /\ status[r] \in {IF autoApprove[r] THEN "queued" ELSE "approved", "running"}
      /\ ~SecondRunning(r, "apply")
      /\ status' = [status EXCEPT ![r] = "running"]
      /\ InsertExecution(r, "apply", "running")
      /\ UNCHANGED <<operation, autoApprove, template, snapshot, planKey,
                     approvals, templateVars>>
  BY DEF BeginTemplateApply, Rejected
<1>2. TypeOK /\ "apply" \in Phases /\ "running" \in ExecutionStatuses
  BY DEF IInv, Phases, ExecutionStatuses
<1>3. /\ execution' \in [Runs -> [Phases -> ExecutionStatuses]]
      /\ step' = step
      /\ \A q \in Runs \ {r} : execution'[q] = execution[q]
      /\ \A x \in Phases \ {"apply"} : execution'[r][x] = execution[r][x]
      /\ execution'[r]["apply"] = IF execution[r]["apply"] = "none" THEN "running" ELSE execution[r]["apply"]
  BY <1>1, <1>2, InsertedExecution, Zenon
<1>4. status' \in [Runs -> Statuses]
  BY <1>1, <1>2 DEF TypeOK, Statuses
<1>5. TypeOK'
  BY <1>1, <1>2, <1>3, <1>4 DEF TypeOK, templateVars
<1>6. OtherRunsKept(r)
  BY <1>1, <1>2, <1>3 DEF TypeOK, OtherRunsKept
<1>7. IdentityKept(r) /\ PlanKept(r) /\ ApprovalsKept
  BY <1>1 DEF IdentityKept, PlanKept, ApprovalsKept, templateVars
<1>8. CASE status[r] = "running"
  <2>1. execution[r]["apply"] # "none"
    BY <1>1, <1>8 DEF SecondRunning, IInv, RunningExactlyWhenCarried
  <2>2. execution' = execution /\ status' = status
    BY <1>1, <1>2, <1>8, <2>1 DEF TypeOK, InsertExecution
  <2> QED
    BY <1>1, <1>3, <2>2 DEF vars, templateVars
<1>9. CASE status[r] # "running"
  <2>1. execution[r]["apply"] = "none" /\ ~SomeCarrying(r)
    BY <1>1, <1>9 DEF IInv, RunningExactlyWhenCarried, NothingBeforeTheRun,
                      PendingPlanIsReviewable
  <2>2. Begun(r, "apply")
    BY <1>1, <1>2, <1>3, <1>7, <1>9, <2>1 DEF TypeOK, Begun, ExecutionAppears
  <2> QED
    BY <1>2, <1>5, <1>6, <2>2 DEF Move
<1> QED
  BY <1>8, <1>9

LEMMA ApproveMoves ==
  ASSUME IInv, NEW r \in Runs, NEW reply, ApproveTemplateRun(r, reply), vars' # vars
  PROVE  TypeOK' /\ Move(r)
<1>1. /\ status[r] = "waiting_approval"
      /\ status' = [status EXCEPT ![r] = "approved"]
      /\ approvals' = approvals \cup {r}
      /\ UNCHANGED <<operation, autoApprove, template, snapshot, planKey,
                     executionVars, templateVars>>
  BY DEF ApproveTemplateRun, Rejected
<1>2. TypeOK'
  BY <1>1 DEF IInv, TypeOK, Statuses, executionVars, templateVars
<1>3. OtherRunsKept(r) /\ Approved(r)
  BY <1>1 DEF IInv, TypeOK, OtherRunsKept, Approved, ExecutionsKept, IdentityKept,
              PlanKept, executionVars, templateVars
<1> QED
  BY <1>2, <1>3 DEF Move

LEMMA DiscardMoves ==
  ASSUME IInv, NEW r \in Runs, NEW reply, DiscardTemplateRun(r, reply), vars' # vars
  PROVE  TypeOK' /\ Move(r)
<1>1. /\ status[r] \in {"waiting_approval", "approved"}
      /\ status' = [status EXCEPT ![r] = "canceled"]
      /\ ReleaseRunPlan(r)
      /\ UNCHANGED <<operation, autoApprove, template, snapshot, approvals,
                     executionVars, lifecycle, desired, lastAppliedRun>>
  BY DEF DiscardTemplateRun, Rejected
<1>2. TypeOK
  BY DEF IInv
<1>3. /\ planKey' \in [Runs -> BOOLEAN]
      /\ pendingRun' \in [StackTemplates -> Runs \cup {NoRun}]
      /\ PlanReleased(r)
      /\ \A q \in Runs \ {r} : planKey'[q] = planKey[q]
  BY <1>1, <1>2, ReleasedPlan, Zenon DEF PlanReleased
<1>4. TypeOK'
  BY <1>1, <1>2, <1>3 DEF TypeOK, Statuses, executionVars
<1>5. OtherRunsKept(r) /\ Discarded(r)
  BY <1>1, <1>2, <1>3 DEF TypeOK, OtherRunsKept, Discarded, ExecutionsKept,
                          IdentityKept, ApprovalsKept, executionVars
<1> QED
  BY <1>4, <1>5 DEF Move

-----------------------------------------------------------------------------
(* The invariant is inductive.                                             *)


\* What the invariant says of one run, apart from the others.
RunInvariant(q) ==
  /\ status[q] = "running" <=> Carrying(q, "plan") \/ Carrying(q, "apply")
  /\ ~(Carrying(q, "plan") /\ Carrying(q, "apply"))
  /\ status[q] \in {"waiting_approval", "approved"} =>
       execution[q]["plan"] = "succeeded" /\ execution[q]["apply"] = "none"
  /\ planKey[q] => status[q] \in InFlight
  /\ execution[q]["apply"] \in {"running", "succeeded"} =>
       autoApprove[q] \/ q \in approvals
  /\ status[q] \in {"absent", "queued"} =>
       execution[q]["plan"] = "none" /\ execution[q]["apply"] = "none"
  /\ Carrying(q, "plan") => execution[q]["apply"] = "none"
  /\ status[q] = "approved" => q \in approvals

StepInvariant(q) ==
  \A p \in Phases, s \in Steps : step[q][p][s] = "running" =>
    /\ Carrying(q, p) \/ status[q] \in {"completed", "failed"}
    /\ \A x \in Steps : step[q][p][x] = "running" => x = s

PendingInvariant ==
  /\ \A q \in Runs : status[q] \in {"waiting_approval", "approved"} =>
       pendingRun[template[q]] = q
  /\ \A t \in StackTemplates : pendingRun[t] # NoRun =>
       /\ template[pendingRun[t]] = t
       /\ status[pendingRun[t]] \in {"waiting_approval", "approved", "running"}

LEMMA InvariantByRun ==
  IInv <=> /\ TypeOK /\ OneUnfinishedRun /\ PendingInvariant
           /\ \A q \in Runs : RunInvariant(q) /\ StepInvariant(q)
<1>1. RunningExactlyWhenCarried <=>
        \A q \in Runs :
          /\ status[q] = "running" <=> Carrying(q, "plan") \/ Carrying(q, "apply")
          /\ ~(Carrying(q, "plan") /\ Carrying(q, "apply"))
  BY DEF RunningExactlyWhenCarried, SomeCarrying, Phases
<1>2. StepsFollowTheRun <=> \A q \in Runs : StepInvariant(q)
  BY Zenon DEF StepsFollowTheRun, StepInvariant
<1> QED
  BY <1>1, <1>2, Zenon DEF IInv, PendingPlanIsReviewable, PlanKeyDroppedWhenOver, AppliedOnlyWhenApproved,
     NothingBeforeTheRun, ApplyFollowsPlan, ApprovedByApproval, RunInvariant, PendingInvariant

LEMMA MoveKeepsRun ==
  ASSUME IInv, NEW r \in Runs, TypeOK', Move(r)
  PROVE  RunInvariant(r)' /\ StepInvariant(r)'
<1>1. TypeOK /\ RunInvariant(r) /\ StepInvariant(r)
  BY InvariantByRun
<1> USE <1>1 DEF RunInvariant, StepInvariant, IdentityKept, ApprovalsKept, ExecutionsKept,
        PlanKept, Carrying, SomeCarrying, Phases, InFlight
<1>2. CASE Queued(r)
  BY <1>2 DEF Queued
<1>3. CASE \E p \in Phases : Begun(r, p)
  BY <1>3 DEF Begun, ExecutionAppears
<1>4. CASE \E p \in Phases, to \in {"completed", "failed"} : Ended(r, p, to)
  BY <1>4 DEF Ended, ExecutionEnds, NoStepLeft, OneStepLeft, PlanReleased
<1>5. CASE \E p \in Phases : FailedBefore(r, p)
  BY <1>5 DEF FailedBefore, ExecutionAppears, PlanReleased
<1>6. CASE \E p \in Phases, s \in Steps : StepStarted(r, p, s)
  BY <1>6 DEF StepStarted
<1>7. CASE KeyMade(r)
  BY <1>7 DEF KeyMade
<1>8. CASE Waits(r)
  BY <1>8 DEF Waits, ExecutionEnds, NoStepLeft
<1>9. CASE Approved(r)
  BY <1>9 DEF Approved
<1>10. CASE Discarded(r)
  BY <1>10 DEF Discarded, PlanReleased
<1>11. CASE RunsKept(r)
  BY <1>11 DEF RunsKept
<1> QED
  BY <1>2, <1>3, <1>4, <1>5, <1>6, <1>7, <1>8, <1>9, <1>10, <1>11 DEF Move

\* Only a new run becomes unfinished, and it is alone in its stack template.
LEMMA MoveKeepsOneUnfinished ==
  ASSUME IInv, NEW r \in Runs, Move(r)
  PROVE  OneUnfinishedRun'
<1>1. CASE Queued(r)
  BY <1>1 DEF Move, OtherRunsKept, Queued, IInv, OneUnfinishedRun
<1>2. CASE ~Queued(r)
  <2>1. template'[r] = template[r] /\ (status'[r] \in InFlight => status[r] \in InFlight)
    BY <1>2 DEF Move, Begun, Ended, FailedBefore, StepStarted, KeyMade, Waits, Approved,
                Discarded, RunsKept, IdentityKept, InFlight
  <2> QED
    BY <2>1 DEF Move, OtherRunsKept, IInv, OneUnfinishedRun
<1> QED
  BY <1>1, <1>2

LEMMA MoveKeepsPending ==
  ASSUME IInv, NEW r \in Runs, TypeOK', Move(r)
  PROVE  PendingInvariant'
<1>1. /\ TypeOK /\ PendingInvariant /\ OneUnfinishedRun /\ RunInvariant(r)
      /\ OtherRunsKept(r)
  BY InvariantByRun DEF Move
<1>2. /\ pendingRun \in [StackTemplates -> Runs \cup {NoRun}]
      /\ pendingRun' \in [StackTemplates -> Runs \cup {NoRun}]
      /\ template \in [Runs -> StackTemplates] /\ template' \in [Runs -> StackTemplates]
  BY <1>1 DEF TypeOK
<1> USE <1>1, <1>2, NoRunAssumption
        DEF PendingInvariant, OtherRunsKept, IdentityKept, PlanKept
<1>3. CASE Queued(r)
  BY <1>3 DEF Queued
<1>4. CASE \E p \in Phases : Begun(r, p)
  BY <1>4 DEF Begun
<1>5. CASE \E p \in Phases, to \in {"completed", "failed"} : Ended(r, p, to)
  BY <1>5 DEF Ended, PlanReleased
<1>6. CASE \E p \in Phases : FailedBefore(r, p)
  BY <1>6 DEF FailedBefore, PlanReleased
<1>7. CASE \E p \in Phases, s \in Steps : StepStarted(r, p, s)
  BY <1>7 DEF StepStarted
<1>8. CASE KeyMade(r)
  BY <1>8 DEF KeyMade
<1>9. CASE Waits(r)
  BY <1>9 DEF Waits, OneUnfinishedRun, InFlight
<1>10. CASE Approved(r)
  BY <1>10 DEF Approved
<1>11. CASE Discarded(r)
  BY <1>11 DEF Discarded, PlanReleased
<1>12. CASE RunsKept(r)
  BY <1>12 DEF RunsKept
<1> QED
  BY <1>3, <1>4, <1>5, <1>6, <1>7, <1>8, <1>9, <1>10, <1>11, <1>12 DEF Move

LEMMA StoreStepMoves ==
  ASSUME IInv, NEW r \in Runs, NEW reply \in Replies, StoreStep(r, reply), vars' # vars
  PROVE  TypeOK' /\ Move(r)
  BY CreateMoves, RecordRunningMoves, RecordTerminalMoves, RecordStepMoves,
     RecordEventMoves, CreateKeyMoves, FinishPlanMoves, BeginApplyMoves, ApproveMoves,
     DiscardMoves, Zenon
  DEF StoreStep

LEMMA MoveKeepsInvariant ==
  ASSUME IInv, NEW r \in Runs, TypeOK', Move(r)
  PROVE  IInv'
<1>1. \A q \in Runs \ {r} : RunInvariant(q)' /\ StepInvariant(q)'
  BY InvariantByRun DEF Move, OtherRunsKept, RunInvariant, StepInvariant, Carrying
<1>2. RunInvariant(r)' /\ StepInvariant(r)'
  BY MoveKeepsRun
<1>3. OneUnfinishedRun' /\ PendingInvariant'
  BY MoveKeepsOneUnfinished, MoveKeepsPending
<1>4. (/\ TypeOK /\ OneUnfinishedRun /\ PendingInvariant
       /\ \A q \in Runs : RunInvariant(q) /\ StepInvariant(q))'
  BY <1>1, <1>2, <1>3
<1> QED
  BY <1>4, InvariantByRun, PTL

LEMMA InitInvariant == Init => IInv
  BY NonEmptyAssumption, NoRunAssumption
  DEF Init, IInv, TypeOK, Statuses, Operations, ExecutionStatuses, Lifecycles, Phases,
      RunningExactlyWhenCarried, PendingPlanIsReviewable, PlanKeyDroppedWhenOver,
      AppliedOnlyWhenApproved, StepsFollowTheRun, OneUnfinishedRun,
      NothingBeforeTheRun, ApplyFollowsPlan, ApprovedByApproval, Carrying,
      SomeCarrying, InFlight

-----------------------------------------------------------------------------
(* The theorems.                                                           *)

LEMMA UpdateDesiredKeeps ==
  ASSUME IInv, NEW t \in StackTemplates, NEW snap \in Snapshots, UpdateDesired(t, snap)
  PROVE  TypeOK' /\ \A r \in Runs : OtherRunsKept(r) /\ RunsKept(r)
<1>1. UNCHANGED <<runVars, approvals, executionVars, lifecycle, pendingRun, lastAppliedRun>>
  BY DEF UpdateDesired
<1>2. TypeOK'
  BY <1>1 DEF IInv, TypeOK, UpdateDesired, runVars, executionVars
<1> QED
  BY <1>1, <1>2 DEF OtherRunsKept, RunsKept, ExecutionsKept, IdentityKept, PlanKept,
                    ApprovalsKept, runVars, executionVars

\* A step that changes anything is a move of some run.
LEMMA NextMoves ==
  ASSUME IInv, Next, vars' # vars
  PROVE  TypeOK' /\ ((\E r \in Runs : Move(r)) \/ Runs = {})
<1>1. CASE \E r \in Runs, reply \in Replies : StoreStep(r, reply)
  BY <1>1, StoreStepMoves
<1>2. CASE \E t \in StackTemplates, snap \in Snapshots : UpdateDesired(t, snap)
  <2>1. TypeOK' /\ \A r \in Runs : Move(r)
    BY <1>2, UpdateDesiredKeeps DEF Move
  <2> QED
    BY <2>1
<1> QED
  BY <1>1, <1>2 DEF Next

LEMMA Inductive ==
  ASSUME IInv, [Next]_vars
  PROVE  IInv'
<1>1. CASE vars' = vars
  BY <1>1 DEF vars, IInv, TypeOK, RunningExactlyWhenCarried, PendingPlanIsReviewable,
              PlanKeyDroppedWhenOver, AppliedOnlyWhenApproved, StepsFollowTheRun,
              OneUnfinishedRun, NothingBeforeTheRun, ApplyFollowsPlan, ApprovedByApproval,
              Carrying, SomeCarrying
<1>2. CASE TypeOK' /\ \E r \in Runs : Move(r)
  BY <1>2, MoveKeepsInvariant
<1>3. CASE TypeOK' /\ Runs = {}
  BY <1>3 DEF IInv, TypeOK, RunningExactlyWhenCarried, PendingPlanIsReviewable,
              PlanKeyDroppedWhenOver, AppliedOnlyWhenApproved, StepsFollowTheRun,
              OneUnfinishedRun, NothingBeforeTheRun, ApplyFollowsPlan, ApprovedByApproval
<1> QED
  BY <1>1, <1>2, <1>3, NextMoves

\* Everything the invariant says holds of every reachable state.
THEOREM Invariant == Spec => []IInv
<1>1. IInv /\ [Next]_vars => IInv'
  BY Inductive
<1> QED
  BY <1>1, InitInvariant, PTL DEF Spec

\* Every column holds a value of its type.
THEOREM TypeCorrect == Spec => []TypeOK
  BY Invariant, PTL DEF IInv

\* status and the execution table agree: a run is running exactly when one of
\* its executions is, and never two.
THEOREM RunningAgrees == Spec => []RunningExactlyWhenCarried
  BY Invariant, PTL DEF IInv

\* A plan still to be approved or discarded is its template's pending plan and
\* its plan has ended well; and a pending plan is one that waits, is approved or
\* is being applied, never one that is queued or over, nor another template's.
THEOREM PendingAgrees == Spec => []PendingPlanIsReviewable
  BY Invariant, PTL DEF IInv

\* A run that is over has no plan key.
THEOREM KeysDropped == Spec => []PlanKeyDroppedWhenOver
  BY Invariant, PTL DEF IInv

\* No apply execution without an approval or auto-approve.
THEOREM ApprovalNeeded == Spec => []AppliedOnlyWhenApproved
  BY Invariant, PTL DEF IInv

\* An execution is on one step at a time, and only a step of a run that a
\* workflow has ended outlives its execution: a run waiting for its review, or
\* in its apply, has no step of its plan running.
THEOREM StepsFollow == Spec => []StepsFollowTheRun
  BY Invariant, PTL DEF IInv

\* A run's row, executions, steps and approvals tell one story.
THEOREM Agreement == Spec => []TablesAgree
  BY Invariant, PTL DEF IInv, TablesAgree

LEMMA MoveKeepsHistory ==
  ASSUME IInv, NEW r \in Runs, Move(r)
  PROVE  /\ status[r] \in Terminal => status'[r] = status[r]
         /\ \A p \in Phases : execution[r][p] \in {"succeeded", "failed"} =>
              execution'[r][p] = execution[r][p]
<1>1. OtherRunsKept(r) 
  BY DEF Move
<1> USE DEF Phases, Terminal, InFlight, Carrying, ExecutionsKept
<1>2. CASE \E p \in Phases : Begun(r, p)
  BY <1>2 DEF Begun, ExecutionAppears
<1>3. CASE \E p \in Phases, to \in {"completed", "failed"} : Ended(r, p, to)
  BY <1>3 DEF Ended, ExecutionEnds
<1>4. CASE \E p \in Phases : FailedBefore(r, p)
  BY <1>4 DEF FailedBefore, ExecutionAppears
<1>5. CASE Waits(r)
  BY <1>5 DEF Waits, ExecutionEnds
<1> QED
  BY <1>2, <1>3, <1>4, <1>5
  DEF Move, Queued, StepStarted, KeyMade, Approved, Discarded, RunsKept

\* A run that is over keeps its status and an ended execution its outcome.
THEOREM HistoryKept == Spec => OverIsOver
<1>1. ASSUME IInv, [Next]_vars
      PROVE  \A r \in Runs :
               /\ status[r] \in Terminal => status'[r] = status[r]
               /\ \A p \in Phases : execution[r][p] \in {"succeeded", "failed"} =>
                    execution'[r][p] = execution[r][p]
  <2>1. CASE vars' = vars
    BY <2>1 DEF vars
  <2>2. CASE \E q \in Runs : Move(q)
    <3>1. PICK q \in Runs : Move(q)
      BY <2>2
    <3> QED
      BY <1>1, <3>1, MoveKeepsHistory DEF Move, OtherRunsKept
  <2> QED
    BY <1>1, <2>1, <2>2, NextMoves
<1> QED
  BY <1>1, Invariant, PTL DEF Spec, OverIsOver

-----------------------------------------------------------------------------
(* Refinement: each move is a step of the run lifecycle, or none.          *)

PhaseOf == [q \in Runs |-> RunPhase(q)]

LEMMA PhaseChange ==
  ASSUME NEW r \in Runs, OtherRunsKept(r)
  PROVE  PhaseOf' = [PhaseOf EXCEPT ![r] = RunPhase(r)']
<1>1. \A q \in Runs \ {r} : RunPhase(q)' = RunPhase(q)
  BY DEF OtherRunsKept, RunPhase, Carrying
<1> QED
  BY <1>1 DEF PhaseOf

LEMMA PhaseKept ==
  ASSUME NEW r \in Runs, OtherRunsKept(r), RunPhase(r)' = RunPhase(r)
  PROVE  PhaseOf' = PhaseOf
  BY PhaseChange DEF PhaseOf

LEMMA IdentityKeptByMove ==
  ASSUME TypeOK, TypeOK', NEW r \in Runs, OtherRunsKept(r), IdentityKept(r)
  PROVE  template' = template
  BY DEF TypeOK, OtherRunsKept, IdentityKept

LEMMA PermittedKept ==
  ASSUME TypeOK, TypeOK', NEW r \in Runs, OtherRunsKept(r), IdentityKept(r), ApprovalsKept,
         status[r] = "absent" <=> status'[r] = "absent"
  PROVE  Permitted' = Permitted
  BY DEF OtherRunsKept, IdentityKept, ApprovalsKept, Permitted

LEMMA LifecycleMove ==
  ASSUME TypeOK, TypeOK', NEW r \in Runs, NEW from, NEW to, OtherRunsKept(r),
         IdentityKept(r), ApprovalsKept, status[r] # "absent", status'[r] # "absent",
         RunPhase(r) \in from, RunPhase(r)' = to
  PROVE  Lifecycle!Move(r, from, to)
<1>1. template' = template /\ Permitted' = Permitted
  BY IdentityKeptByMove, PermittedKept
<1> QED
  BY <1>1, PhaseChange DEF Lifecycle!Move, PhaseOf

LEMMA MoveFollowsLifecycle ==
  ASSUME IInv, TypeOK', NEW r \in Runs, Move(r)
  PROVE  [Lifecycle!Next]_(Lifecycle!vars)
<1>1. TypeOK /\ OtherRunsKept(r) /\ RunInvariant(r)
  BY InvariantByRun DEF Move
<1>2. CASE Queued(r)
  <2>1. /\ template'[r] \in StackTemplates
        /\ template' = [template EXCEPT ![r] = template'[r]]
    BY <1>1 DEF TypeOK, OtherRunsKept
  <2>2. PhaseOf' = [PhaseOf EXCEPT ![r] = "queued"] /\ PhaseOf[r] = "absent"
    BY <1>1, <1>2, PhaseChange DEF Queued, RunPhase, PhaseOf
  <2>3. \A q \in Runs : template[q] = template'[r] => PhaseOf[q] \notin Lifecycle!Unfinished
    <3>1. ASSUME NEW q \in Runs, status[q] \notin InFlight
          PROVE  RunPhase(q) \notin Lifecycle!Unfinished
      BY <1>1, <3>1 DEF RunPhase, Lifecycle!Unfinished, InFlight, TypeOK, Statuses
    <3> QED
      BY <1>2, <3>1 DEF Queued, PhaseOf
  <2>4. Permitted' \in {Permitted, Permitted \cup {r}}
    BY <1>1, <1>2 DEF Queued, ApprovalsKept, OtherRunsKept, Permitted
  <2>5. Lifecycle!Start(r, template'[r])
    BY <2>1, <2>2, <2>3, <2>4 DEF Lifecycle!Start, PhaseOf
  <2> QED
    BY <2>1, <2>5 DEF Lifecycle!Next
<1>3. CASE Begun(r, "plan")
  <2>1. RunPhase(r) \in {"queued"} /\ RunPhase(r)' = "planning"
    BY <1>3 DEF Begun, ExecutionAppears, Carrying, RunPhase
  <2>2. Lifecycle!Plan(r)
    BY <1>1, <1>3, <2>1, LifecycleMove DEF Lifecycle!Plan, Begun
  <2> QED
    BY <2>2 DEF Lifecycle!Next
<1>4. CASE Begun(r, "apply")
  <2>1. RunPhase(r) \in {"queued", "approved"} /\ RunPhase(r)' = "applying"
    BY <1>1, <1>4 DEF Begun, ExecutionAppears, Carrying, RunPhase, SomeCarrying, Phases
  <2>2. r \in Permitted
    BY <1>1, <1>4 DEF Begun, RunInvariant, Permitted
  <2>3. Lifecycle!Apply(r)
    BY <1>1, <1>4, <2>1, <2>2, LifecycleMove DEF Lifecycle!Apply, Begun
  <2> QED
    BY <2>3 DEF Lifecycle!Next
<1>5. ASSUME NEW p \in Phases, NEW to \in {"completed", "failed"}, Ended(r, p, to)
      PROVE  Lifecycle!Next
  <2>1. RunPhase(r) \in {"planning", "applying"} /\ RunPhase(r)' = to
    BY <1>5 DEF Ended, RunPhase
  <2>2. Lifecycle!Complete(r) \/ Lifecycle!Fail(r)
    BY <1>1, <1>5, <2>1, LifecycleMove
       DEF Lifecycle!Complete, Lifecycle!Fail, Lifecycle!Unfinished, Ended
  <2> QED
    BY <2>2 DEF Lifecycle!Next
<1>6. ASSUME NEW p \in Phases, FailedBefore(r, p)
      PROVE  Lifecycle!Next
  <2>1. RunPhase(r) \in Lifecycle!Unfinished /\ RunPhase(r)' = "failed"
    BY <1>6 DEF FailedBefore, RunPhase, Lifecycle!Unfinished, InFlight
  <2>2. Lifecycle!Fail(r)
    BY <1>1, <1>6, <2>1, LifecycleMove DEF Lifecycle!Fail, FailedBefore, InFlight
  <2> QED
    BY <2>2 DEF Lifecycle!Next
<1>7. CASE Waits(r)
  <2>1. RunPhase(r) \in {"planning"} /\ RunPhase(r)' = "waiting_approval"
    BY <1>7 DEF Waits, RunPhase
  <2>2. Lifecycle!Wait(r)
    BY <1>1, <1>7, <2>1, LifecycleMove DEF Lifecycle!Wait, Waits
  <2> QED
    BY <2>2 DEF Lifecycle!Next
<1>8. CASE Approved(r)
  <2>1. PhaseOf' = [PhaseOf EXCEPT ![r] = "approved"] /\ PhaseOf[r] = "waiting_approval"
    BY <1>1, <1>8, PhaseChange DEF Approved, RunPhase, PhaseOf
  <2>2. template' = template
    BY <1>1, <1>8, IdentityKeptByMove DEF Approved
  <2>3. Permitted' = Permitted \cup {r}
    BY <1>1, <1>8 DEF Approved, IdentityKept, OtherRunsKept, Permitted
  <2>4. Lifecycle!Approve(r)
    BY <2>1, <2>2, <2>3 DEF Lifecycle!Approve, PhaseOf
  <2> QED
    BY <2>4 DEF Lifecycle!Next
<1>9. CASE Discarded(r)
  <2>1. RunPhase(r) \in {"waiting_approval", "approved"} /\ RunPhase(r)' = "canceled"
    BY <1>9 DEF Discarded, RunPhase
  <2>2. Lifecycle!Discard(r)
    BY <1>1, <1>9, <2>1, LifecycleMove DEF Lifecycle!Discard, Discarded
  <2> QED
    BY <2>2 DEF Lifecycle!Next
<1>10. CASE (\E p \in Phases, s \in Steps : StepStarted(r, p, s)) \/ KeyMade(r) \/ RunsKept(r)
  <2>1. /\ status'[r] = status[r] /\ execution'[r] = execution[r]
        /\ IdentityKept(r) /\ ApprovalsKept
    BY <1>10 DEF StepStarted, KeyMade, RunsKept, ExecutionsKept
  <2>2. PhaseOf' = PhaseOf
    BY <1>1, <2>1, PhaseKept DEF RunPhase, Carrying
  <2>3. template' = template /\ Permitted' = Permitted
    BY <1>1, <2>1, IdentityKeptByMove, PermittedKept
  <2> QED
    BY <2>2, <2>3 DEF Lifecycle!vars, PhaseOf
<1> QED
  BY <1>2, <1>3, <1>4, <1>5, <1>6, <1>7, <1>8, <1>9, <1>10 DEF Move, Phases

LEMMA InitFollowsLifecycle == Init => Lifecycle!Init
  BY NonEmptyAssumption DEF Init, Lifecycle!Init, RunPhase, Permitted

\* RunStore implements RunLifecycle: whoever calls the transactions, in
\* whatever order, each is a step the run lifecycle allows or none of it.
THEOREM Refinement == Spec => FollowsLifecycle
<1>1. ASSUME IInv, [Next]_vars
      PROVE  [Lifecycle!Next]_(Lifecycle!vars)
  <2>1. CASE vars' = vars
    <3>1. PhaseOf' = PhaseOf /\ Permitted' = Permitted /\ template' = template
      BY <2>1 DEF vars, PhaseOf, RunPhase, Carrying, Permitted
    <3> QED
      BY <3>1 DEF Lifecycle!vars, PhaseOf
  <2>2. CASE Next /\ vars' # vars
    <3>1. TypeOK' /\ ((\E r \in Runs : Move(r)) \/ Runs = {})
      BY <1>1, <2>2, NextMoves
    <3>2. CASE Runs = {}
      <4>1. PhaseOf' = PhaseOf
        BY <3>2 DEF PhaseOf
      <4>2. template' = template
        BY <1>1, <3>1, <3>2 DEF IInv, TypeOK
      <4>3. Permitted' = {} /\ Permitted = {}
        <5>1. approvals = {} /\ approvals' = {}
          BY <1>1, <3>1, <3>2 DEF IInv, TypeOK
        <5> QED
          BY <3>2, <5>1 DEF Permitted
      <4> QED
        BY <4>1, <4>2, <4>3 DEF Lifecycle!vars, PhaseOf
    <3> QED
      BY <1>1, <3>1, <3>2, MoveFollowsLifecycle
  <2> QED
    BY <1>1, <2>1, <2>2
<1> QED
  BY <1>1, InitFollowsLifecycle, Invariant, PTL DEF Spec, FollowsLifecycle, Lifecycle!Spec
=============================================================================
