-------------------------- MODULE RunServiceProofs --------------------------
(***************************************************************************)
(* What the service's reads and checks guarantee, proved for any runs,     *)
(* stack templates, revisions and any number of open requests.             *)
(***************************************************************************)
EXTENDS RunService, RunStoreProofs

-----------------------------------------------------------------------------
(* The inductive invariant.                                                *)

Seen == [desired : Snapshots, lifecycle : Lifecycles]

\* What a request carries, by how far it has come.
ReadRequests ==
  [stage : {"read"}, for : {"start", "config", "upgrade"},
   template : StackTemplates, seen : Seen]
CheckedEdits ==
  [stage : {"checked"}, for : {"config", "upgrade"},
   template : StackTemplates, seen : Seen, known : SUBSET Runs]
CheckedApprovals ==
  [stage : {"checked"}, for : {"approve"},
   template : StackTemplates, run : Runs, seen : Seen]

ServiceTypeOK ==
  /\ request \in [Requests -> {Idle} \cup ReadRequests \cup CheckedEdits \cup CheckedApprovals]
  /\ stale \in BOOLEAN

\* A request went on from its read because the stack template was active.
ReadWhenActive ==
  \A q \in Requests : request[q] \in ReadRequests => request[q].seen.lifecycle = "active"

\* The runs an edit knows of exist, and those of its stack template are over.
KnownRunsAreOver ==
  \A q \in Requests : request[q] \in CheckedEdits =>
    \A r \in request[q].known :
      /\ status[r] # "absent"
      /\ template[r] = request[q].template => status[r] \notin InFlight

\* A run being approved is of the desired state its approver read.
ApprovalsAreOfWhatWasSeen ==
  \A q \in Requests : request[q] \in CheckedApprovals =>
    LET r == request[q].run IN
    /\ status[r] # "absent"
    /\ template[r] = request[q].template
    /\ snapshot[r] = request[q].seen.desired

SInv ==
  /\ IInv
  /\ ServiceTypeOK
  /\ ReadWhenActive
  /\ KnownRunsAreOver
  /\ ApprovalsAreOfWhatWasSeen
  /\ FreshRequestsAgree

-----------------------------------------------------------------------------
(* What the transactions leave of a run.                                   *)

\* Only an insert gives a run its snapshot and operation.
LEMMA StoreStepKeepsRun ==
  ASSUME NEW q \in Runs, NEW reply \in Replies, StoreStep(q, reply),
         TypeOK, NEW r \in Runs, status[r] # "absent"
  PROVE  snapshot'[r] = snapshot[r] /\ operation'[r] = operation[r]
<1>1. CASE \E t \in StackTemplates, o \in Operations, auto \in BOOLEAN, snap \in Snapshots :
             CreateTemplateRun(q, t, o, auto, snap, reply)
  BY <1>1 DEF CreateTemplateRun, Rejected, vars, TypeOK
<1>2. CASE \/ RecordTemplateRunStatus(q, "plan", "running", Steps, reply)
           \/ \E p \in Phases, to \in {"completed", "failed"} :
                RecordTemplateRunStatus(q, p, to, Steps, reply)
  BY <1>2 DEF RecordTemplateRunStatus, RecordRunning, RecordTerminal, Rejected, vars
<1>3. CASE \E s \in Steps : RecordTemplateRunStep(q, s, reply)
  BY <1>3 DEF RecordTemplateRunStep, Rejected, vars, runVars
<1>4. CASE \E event \in Events, counts \in BOOLEAN :
             RecordTemplateRunEvent(q, event, counts, reply)
  BY <1>4 DEF RecordTemplateRunEvent, Rejected, vars, runVars
<1>5. CASE \E changes \in BOOLEAN : FinishTemplatePlan(q, changes, reply)
  BY <1>5 DEF FinishTemplatePlan, FinishWithoutChanges, FinishPlanRun, FinishWithChanges,
              Rejected, vars, runVars
<1>6. CASE CreatePlanKey(q, reply) \/ BeginTemplateApply(q, reply)
  BY <1>6 DEF CreatePlanKey, BeginTemplateApply, Rejected, vars
<1>7. CASE ApproveTemplateRun(q, reply) \/ DiscardTemplateRun(q, reply)
  BY <1>7 DEF ApproveTemplateRun, DiscardTemplateRun, Rejected, vars
<1> QED
  BY <1>1, <1>2, <1>3, <1>4, <1>5, <1>6, <1>7 DEF StoreStep

\* Nothing that happens to a run takes it back, moves it or revives it.
LEMMA RunsStay ==
  ASSUME IInv, [Next]_vars, NEW r \in Runs, status[r] # "absent"
  PROVE  /\ status'[r] # "absent"
         /\ status[r] \notin InFlight => status'[r] \notin InFlight
         /\ template'[r] = template[r]
         /\ snapshot'[r] = snapshot[r]
         /\ operation'[r] = operation[r]
<1>1. TypeOK
  BY DEF IInv
<1>2. CASE vars' = vars
  BY <1>2 DEF vars
<1>3. CASE Next /\ vars' # vars
  <2>1. PICK q \in Runs : Move(q)
    BY <1>3, NextMoves
  <2>2. status'[r] # "absent" /\ template'[r] = template[r]
    BY <2>1 DEF Move, OtherRunsKept, Queued, Begun, Ended, FailedBefore, StepStarted,
                KeyMade, Waits, Approved, Discarded, RunsKept, IdentityKept
  <2>3. status[r] \notin InFlight => status'[r] = status[r]
    <3>1. status[r] \notin InFlight => status[r] \in Terminal
      BY <1>1 DEF TypeOK, Statuses, InFlight, Terminal
    <3> QED
      BY <2>1, <3>1, MoveKeepsHistory DEF Move, OtherRunsKept
  <2>4. snapshot'[r] = snapshot[r] /\ operation'[r] = operation[r]
    <3>1. CASE \E p \in Runs, reply \in Replies : StoreStep(p, reply)
      BY <1>1, <3>1, StoreStepKeepsRun
    <3>2. CASE \E t \in StackTemplates, snap \in Snapshots : UpdateDesired(t, snap)
      BY <3>2 DEF UpdateDesired, runVars
    <3> QED
      BY <1>3, <3>1, <3>2 DEF Next
  <2> QED
    BY <2>2, <2>3, <2>4
<1> QED
  BY <1>1, <1>2, <1>3

-----------------------------------------------------------------------------
(* Every step is one of the store's.                                       *)

LEMMA DesiredIsPair ==
  ASSUME TypeOK, NEW t \in StackTemplates
  PROVE  RevisionOf(desired[t]) \in Revisions
  BY RevisionsAssumption DEF TypeOK, RevisionOf

\* The writes a request may make, by their transaction.
LEMMA EditIsUpdate ==
  ASSUME SInv, NEW q \in Requests, UpdateConfig(q) \/ Upgrade(q)
  PROVE  /\ request[q] \in CheckedEdits
         /\ \E snap \in Snapshots :
              /\ UpdateDesired(request[q].template, snap)
              /\ Fits(ConfigOf(snap), RevisionOf(snap))
                 \/ /\ RevisionOf(snap) = RevisionOf(desired[request[q].template])
                    /\ Fits(ConfigOf(snap), RevisionOf(request[q].seen.desired))
         /\ stale' = (stale \/ (IsStale(q) /\ vars' # vars))
         /\ Close(q)
<1>1. request[q] \in CheckedEdits
  BY DEF SInv, ServiceTypeOK, UpdateConfig, Upgrade, Idle, ReadRequests, CheckedEdits,
         CheckedApprovals
<1>2. request[q].template \in StackTemplates
  BY <1>1 DEF CheckedEdits
<1>3. CASE UpdateConfig(q)
  <2>1. PICK c \in SUBSET Variables :
          /\ Fits(c, RevisionOf(request[q].seen.desired))
          /\ Write(q, UpdateDesired(request[q].template,
                                    <<RevisionOf(desired[request[q].template]), c>>))
    BY <1>3 DEF UpdateConfig
  <2> DEFINE snap == <<RevisionOf(desired[request[q].template]), c>>
  <2>2. snap \in Snapshots
    BY <1>2, DesiredIsPair, RevisionsAssumption DEF SInv, IInv
  <2> QED
    BY <1>1, <2>1, <2>2 DEF Write, RevisionOf, ConfigOf
<1>4. CASE Upgrade(q)
  <2>0. PICK v \in Revisions : \E c \in UpgradeConfigs(request[q].seen, v) :
          Write(q, UpdateDesired(request[q].template, <<v, c>>))
    BY <1>4 DEF Upgrade
  <2>1. PICK c \in UpgradeConfigs(request[q].seen, v) :
          Write(q, UpdateDesired(request[q].template, <<v, c>>))
    BY <2>0
  <2>2. Fits(c, v) /\ c \in SUBSET Variables
    BY <2>1, RevisionsAssumption DEF UpgradeConfigs, Fits
  <2>3. <<v, c>> \in Snapshots
    BY <2>2, RevisionsAssumption
  <2> QED
    BY <1>1, <2>1, <2>2, <2>3 DEF Write, RevisionOf, ConfigOf
<1> QED
  BY <1>3, <1>4

\* A start inserts a run of what it read, or is refused.
LEMMA StartIsCreate ==
  ASSUME SInv, NEW q \in Requests, StartTemplateRun(q)
  PROVE  /\ request[q] \in ReadRequests
         /\ \E r \in Runs, reply \in Replies :
              /\ StoreStep(r, reply)
              /\ UNCHANGED templateVars
              /\ vars' = vars \/ /\ status[r] = "absent"
                                 /\ template'[r] = request[q].template
                                 /\ snapshot'[r] = request[q].seen.desired
                                 /\ \A x \in Runs \ {r} : status'[x] = status[x]
         /\ approvals' = approvals
         /\ stale' = (stale \/ (IsStale(q) /\ vars' # vars))
         /\ Close(q)
<1>1. request[q] \in ReadRequests
  BY DEF SInv, ServiceTypeOK, StartTemplateRun, Idle, ReadRequests, CheckedEdits,
         CheckedApprovals
<1>2. request[q].template \in StackTemplates /\ request[q].seen.desired \in Snapshots
  BY <1>1 DEF ReadRequests, Seen
<1>3. PICK r \in Runs, o \in Operations, auto \in BOOLEAN, reply \in {"ok", "in_flight"} :
        /\ auto => o = "apply"
        /\ Write(q, CreateTemplateRun(r, request[q].template, o, auto,
                                      request[q].seen.desired, reply))
  BY DEF StartTemplateRun
<1>4. CreateTemplateRun(r, request[q].template, o, auto, request[q].seen.desired, reply)
  BY <1>3 DEF Write
<1>5. StoreStep(r, reply) /\ reply \in Replies
  BY <1>2, <1>3, <1>4 DEF StoreStep, Replies
<1>6. /\ UNCHANGED templateVars
      /\ approvals' = approvals
      /\ vars' = vars \/ /\ status[r] = "absent"
                         /\ template'[r] = request[q].template
                         /\ snapshot'[r] = request[q].seen.desired
                         /\ \A x \in Runs \ {r} : status'[x] = status[x]
  BY <1>4 DEF CreateTemplateRun, Rejected, vars, templateVars, SInv, IInv, TypeOK
<1> QED
  BY <1>1, <1>3, <1>5, <1>6 DEF Write
LEMMA ApproveIsApprove ==
  ASSUME SInv, NEW q \in Requests, ApproveRun(q)
  PROVE  /\ request[q] \in CheckedApprovals
         /\ \E reply \in Replies : StoreStep(request[q].run, reply)
         /\ UNCHANGED <<templateVars, template, snapshot>>
         /\ approvals' \subseteq approvals \cup {request[q].run}
         /\ \A x \in Runs : status'[x] \in InFlight => status[x] \in InFlight
         /\ stale' = (stale \/ (IsStale(q) /\ vars' # vars))
         /\ Close(q)
<1>1. request[q] \in CheckedApprovals
  BY DEF SInv, ServiceTypeOK, ApproveRun, Idle, ReadRequests, CheckedEdits, CheckedApprovals
<1>2. PICK reply \in Replies : Write(q, ApproveTemplateRun(request[q].run, reply))
  BY DEF ApproveRun
<1>3. request[q].run \in Runs
  BY <1>1 DEF CheckedApprovals
<1>4. /\ UNCHANGED <<templateVars, template, snapshot>>
      /\ approvals' \subseteq approvals \cup {request[q].run}
      /\ \A x \in Runs : status'[x] \in InFlight => status[x] \in InFlight
  BY <1>2, <1>3 DEF Write, ApproveTemplateRun, Rejected, vars, templateVars, SInv, IInv,
                    TypeOK, InFlight
<1> QED
  BY <1>1, <1>2, <1>4 DEF Write, StoreStep

LEMMA ServiceStepsAreStoreSteps ==
  ASSUME SInv, ServiceNext
  PROVE  [Next]_vars
<1>1. ASSUME NEW q \in Requests, UpdateConfig(q) \/ Upgrade(q)
      PROVE  Next
  <2>1. request[q].template \in StackTemplates
    BY <1>1, EditIsUpdate DEF CheckedEdits
  <2> QED
    BY <1>1, <2>1, EditIsUpdate DEF Next
<1>2. ASSUME NEW q \in Requests, StartTemplateRun(q)
      PROVE  Next
  BY <1>2, StartIsCreate DEF Next
<1>3. ASSUME NEW q \in Requests, ApproveRun(q)
      PROVE  Next
  <2>1. request[q].run \in Runs
    BY <1>3, ApproveIsApprove DEF CheckedApprovals
  <2> QED
    BY <1>3, <2>1, ApproveIsApprove DEF Next
<1>4. CASE Elsewhere
  BY <1>4 DEF Elsewhere, Next
<1>5. ASSUME NEW q \in Requests,
             \/ ReadStackTemplate(q) \/ RequireNoRunInFlight(q) \/ ReadPlan(q) \/ GiveUp(q)
      PROVE  vars' = vars
  BY <1>5 DEF ReadStackTemplate, RequireNoRunInFlight, ReadPlan, GiveUp
<1> QED
  BY <1>1, <1>2, <1>3, <1>4, <1>5 DEF ServiceNext

-----------------------------------------------------------------------------
(* What becomes of a request.                                              *)

Opened(q) ==
  /\ request'[q] \in ReadRequests
  /\ request'[q].seen.lifecycle = "active"

Looked(q) ==
  /\ request'[q] \in CheckedEdits
  /\ \A r \in request'[q].known :
       /\ status[r] # "absent"
       /\ template[r] = request'[q].template => status[r] \notin InFlight

Reviewed(q) ==
  /\ request'[q] \in CheckedApprovals
  /\ status[request'[q].run] # "absent"
  /\ template[request'[q].run] = request'[q].template
  /\ snapshot[request'[q].run] = request'[q].seen.desired

Goes(q) ==
  \/ request'[q] = Idle
  \/ vars' = vars /\ (Opened(q) \/ Looked(q) \/ Reviewed(q))

OthersWait(q) == request' = [x \in Requests |-> IF x = q THEN request'[q] ELSE request[x]]

LEMMA Closed ==
  ASSUME SInv, NEW q \in Requests, Close(q)
  PROVE  Goes(q) /\ OthersWait(q)
  BY DEF SInv, ServiceTypeOK, Close, Goes, OthersWait

LEMMA RequestGoes ==
  ASSUME SInv, NEW q \in Requests,
         \/ ReadStackTemplate(q) \/ RequireNoRunInFlight(q) \/ ReadPlan(q)
         \/ StartTemplateRun(q) \/ UpdateConfig(q) \/ Upgrade(q) \/ ApproveRun(q) \/ GiveUp(q)
  PROVE  Goes(q) /\ OthersWait(q) /\ stale' \in BOOLEAN
<1>1. ServiceTypeOK /\ TypeOK
  BY DEF SInv, IInv
<1>2. \A t \in StackTemplates : View(t) \in Seen
  BY <1>1 DEF TypeOK, View, Seen
<1>3. CASE ReadStackTemplate(q)
  <2>1. PICK t \in StackTemplates, for \in {"start", "config", "upgrade"} :
          /\ lifecycle[t] = "active"
          /\ request' = [request EXCEPT ![q] =
               [stage |-> "read", for |-> for, template |-> t, seen |-> View(t)]]
    BY <1>3 DEF ReadStackTemplate
  <2>2. /\ request'[q] = [stage |-> "read", for |-> for, template |-> t, seen |-> View(t)]
        /\ OthersWait(q)
    BY <1>1, <2>1 DEF ServiceTypeOK, OthersWait
  <2>3. Opened(q)
    BY <1>2, <2>1, <2>2 DEF Opened, ReadRequests, View
  <2> QED
    BY <1>1, <1>3, <2>2, <2>3 DEF ReadStackTemplate, Goes, ServiceTypeOK
<1>4. CASE RequireNoRunInFlight(q)
  <2>1. /\ request[q] \in ReadRequests /\ request[q].for \in {"config", "upgrade"}
        /\ vars' = vars /\ stale' = stale
    BY <1>1, <1>4 DEF RequireNoRunInFlight, ServiceTypeOK, Idle, ReadRequests,
                      CheckedEdits, CheckedApprovals
  <2>2. CASE Close(q)
    BY <1>1, <2>1, <2>2, Closed DEF ServiceTypeOK
  <2>3. CASE /\ RunsInFlight(request[q].template) = {}
             /\ request' = [request EXCEPT ![q] =
                  [stage |-> "checked", for |-> @.for, template |-> @.template,
                   seen |-> @.seen, known |-> {r \in Runs : status[r] # "absent"}]]
    <3>1. /\ request'[q] = [stage |-> "checked", for |-> request[q].for,
                            template |-> request[q].template, seen |-> request[q].seen,
                            known |-> {r \in Runs : status[r] # "absent"}]
          /\ OthersWait(q)
      BY <1>1, <2>3 DEF ServiceTypeOK, OthersWait
    <3>2. request'[q] \in CheckedEdits
      BY <2>1, <3>1 DEF ReadRequests, CheckedEdits
    <3>3. Looked(q)
      BY <2>3, <3>1, <3>2 DEF Looked, RunsInFlight
    <3> QED
      BY <1>1, <2>1, <3>1, <3>3 DEF Goes, ServiceTypeOK
  <2> QED
    BY <1>4, <2>2, <2>3 DEF RequireNoRunInFlight
<1>5. CASE ReadPlan(q)
  <2>1. PICK r \in Runs :
          /\ status[r] = "waiting_approval" /\ PlanMatches(r)
          /\ request' = [request EXCEPT ![q] =
               [stage |-> "checked", for |-> "approve", template |-> template[r],
                run |-> r, seen |-> View(template[r])]]
    BY <1>5 DEF ReadPlan
  <2>2. /\ request'[q] = [stage |-> "checked", for |-> "approve", template |-> template[r],
                          run |-> r, seen |-> View(template[r])]
        /\ OthersWait(q)
    BY <1>1, <2>1 DEF ServiceTypeOK, OthersWait
  <2>3. template[r] \in StackTemplates
    BY <1>1 DEF TypeOK
  <2>4. request'[q] \in CheckedApprovals
    BY <1>2, <2>2, <2>3 DEF CheckedApprovals
  <2>5. Reviewed(q)
    BY <2>1, <2>2, <2>4 DEF Reviewed, PlanMatches, View
  <2> QED
    BY <1>1, <1>5, <2>2, <2>5 DEF ReadPlan, Goes, ServiceTypeOK
<1>6. CASE StartTemplateRun(q) \/ UpdateConfig(q) \/ Upgrade(q) \/ ApproveRun(q)
  <2>1. Close(q) /\ stale' \in BOOLEAN
    BY <1>1, <1>6, StartIsCreate, EditIsUpdate, ApproveIsApprove DEF ServiceTypeOK
  <2> QED
    BY <2>1, Closed
<1>7. CASE GiveUp(q)
  BY <1>1, <1>7, Closed DEF GiveUp, ServiceTypeOK
<1> QED
  BY <1>3, <1>4, <1>5, <1>6, <1>7
-----------------------------------------------------------------------------
(* The invariant is kept.                                                  *)

\* What a request carries tells how far it has come.
LEMMA KindsDiffer ==
  /\ Idle \notin ReadRequests \cup CheckedEdits \cup CheckedApprovals
  /\ ReadRequests \cap (CheckedEdits \cup CheckedApprovals) = {}
  /\ CheckedEdits \cap CheckedApprovals = {}
  BY DEF Idle, ReadRequests, CheckedEdits, CheckedApprovals

LEMMA CarriedStaysTrue ==
  ASSUME SInv, ServiceNext,
         \/ \E q \in Requests : Goes(q) /\ OthersWait(q) /\ stale' \in BOOLEAN
         \/ request' = request /\ stale' = stale
  PROVE  ServiceTypeOK' /\ ReadWhenActive' /\ KnownRunsAreOver' /\ ApprovalsAreOfWhatWasSeen'
<1>1. /\ ServiceTypeOK /\ ReadWhenActive /\ KnownRunsAreOver /\ ApprovalsAreOfWhatWasSeen
      /\ IInv /\ [Next]_vars
  BY ServiceStepsAreStoreSteps DEF SInv
<1>2. \A q \in Requests : Goes(q) \/ request'[q] = request[q]
  BY DEF OthersWait
<1>3. \A q \in Requests :
        request'[q] \in {Idle} \cup ReadRequests \cup CheckedEdits \cup CheckedApprovals
  BY <1>1, <1>2 DEF ServiceTypeOK, Goes, Opened, Looked, Reviewed
<1>4. request' = [q \in Requests |-> request'[q]] /\ stale' \in BOOLEAN
  BY <1>1 DEF OthersWait, ServiceTypeOK
<1>5. ServiceTypeOK'
  BY <1>3, <1>4 DEF ServiceTypeOK
<1>6. ReadWhenActive'
  BY <1>1, <1>2, KindsDiffer DEF ReadWhenActive, Goes, Opened, Looked, Reviewed
<1>7. KnownRunsAreOver'
  <2> SUFFICES ASSUME NEW q \in Requests, request'[q] \in CheckedEdits, NEW r \in request'[q].known
               PROVE  /\ status'[r] # "absent"
                      /\ template'[r] = request'[q].template => status'[r] \notin InFlight
    BY DEF KnownRunsAreOver
  <2>1. r \in Runs
    BY DEF CheckedEdits
  <2>2. /\ status[r] # "absent"
        /\ template[r] = request'[q].template => status[r] \notin InFlight
    BY <1>1, <1>2, KindsDiffer DEF KnownRunsAreOver, Goes, Opened, Looked, Reviewed
  <2> QED
    BY <1>1, <2>1, <2>2, RunsStay
<1>8. ApprovalsAreOfWhatWasSeen'
  <2> SUFFICES ASSUME NEW q \in Requests, request'[q] \in CheckedApprovals
               PROVE  /\ status'[request'[q].run] # "absent"
                      /\ template'[request'[q].run] = request'[q].template
                      /\ snapshot'[request'[q].run] = request'[q].seen.desired
    BY DEF ApprovalsAreOfWhatWasSeen
  <2>1. request'[q].run \in Runs
    BY DEF CheckedApprovals
  <2>2. /\ status[request'[q].run] # "absent"
        /\ template[request'[q].run] = request'[q].template
        /\ snapshot[request'[q].run] = request'[q].seen.desired
    BY <1>1, <1>2, KindsDiffer DEF ApprovalsAreOfWhatWasSeen, Goes, Opened, Looked, Reviewed
  <2> QED
    BY <1>1, <2>1, <2>2, RunsStay
<1> QED
  BY <1>5, <1>6, <1>7, <1>8

\* A stack template's lifecycle is changed by the run that is destroying it,
\* and its desired state by no run.
LEMMA OnlyItsDestroyMovesLifecycle ==
  ASSUME NEW q \in Runs, NEW reply \in Replies, StoreStep(q, reply),
         TypeOK, NEW t \in StackTemplates
  PROVE  /\ desired' = desired
         /\ lifecycle'[t] # lifecycle[t] =>
              template[q] = t /\ operation[q] = "destroy" /\ status[q] \in InFlight
<1>1. CASE \E x \in StackTemplates, o \in Operations, auto \in BOOLEAN, snap \in Snapshots :
             CreateTemplateRun(q, x, o, auto, snap, reply)
  BY <1>1 DEF CreateTemplateRun, Rejected, vars, templateVars
<1>2. CASE RecordTemplateRunStatus(q, "plan", "running", Steps, reply)
  BY <1>2 DEF RecordTemplateRunStatus, RecordRunning, RecordTerminal, Rejected, vars, templateVars
<1>3. ASSUME NEW p \in Phases, NEW to \in {"completed", "failed"},
             RecordTemplateRunStatus(q, p, to, Steps, reply)
      PROVE  /\ desired' = desired
             /\ lifecycle'[t] # lifecycle[t] =>
                  template[q] = t /\ operation[q] = "destroy" /\ status[q] \in InFlight
  BY <1>3 DEF RecordTemplateRunStatus, WorkflowStatusSources, RecordTerminal,
              InterruptedDestroy, Rejected, vars, TypeOK, InFlight
<1>4. CASE \E s \in Steps : RecordTemplateRunStep(q, s, reply)
  BY <1>4 DEF RecordTemplateRunStep, Rejected, vars, templateVars
<1>5. CASE \E event \in Events, counts \in BOOLEAN :
             RecordTemplateRunEvent(q, event, counts, reply)
  BY <1>5 DEF RecordTemplateRunEvent, EventOperation, Rejected, vars, TypeOK, InFlight
<1>6. CASE \E changes \in BOOLEAN : FinishTemplatePlan(q, changes, reply)
  BY <1>6 DEF FinishTemplatePlan, FinishWithoutChanges, FinishPlanRun, FinishWithChanges,
              Rejected, vars
<1>7. CASE CreatePlanKey(q, reply) \/ BeginTemplateApply(q, reply)
  BY <1>7 DEF CreatePlanKey, BeginTemplateApply, Rejected, vars, templateVars
<1>8. CASE ApproveTemplateRun(q, reply) \/ DiscardTemplateRun(q, reply)
  BY <1>8 DEF ApproveTemplateRun, DiscardTemplateRun, Rejected, vars, templateVars
<1> QED
  BY <1>1, <1>2, <1>3, <1>4, <1>5, <1>6, <1>7, <1>8 DEF StoreStep
\* What FreshRequestsAgree says while nothing stale has been written.
Agreed ==
  /\ \A r \in Runs : status[r] \in InFlight =>
       /\ snapshot[r] = desired[template[r]]
       /\ lifecycle[template[r]] # "active" => operation[r] = "destroy"
  /\ \A t \in StackTemplates : Fits(ConfigOf(desired[t]), RevisionOf(desired[t]))

LEMMA ElsewhereAgrees ==
  ASSUME SInv, Elsewhere, Agreed
  PROVE  Agreed'
<1>1. PICK q \in Runs, reply \in Replies : status[q] # "absent" /\ StoreStep(q, reply)
  BY DEF Elsewhere
<1>2. IInv /\ [Next]_vars /\ TypeOK
  BY <1>1 DEF SInv, IInv, Next
<1>3. \A r \in Runs : status[r] = "absent" => status'[r] = "absent"
  <2>1. CASE vars' = vars
    BY <2>1 DEF vars
  <2>2. CASE vars' # vars
    <3>1. Move(q)
      BY <1>1, <1>2, <2>2, StoreStepMoves
    <3> QED
      BY <1>1, <3>1 DEF Move, OtherRunsKept
  <2> QED
    BY <2>1, <2>2
<1>4. \A t \in StackTemplates :
        /\ desired' = desired
        /\ lifecycle'[t] # lifecycle[t] =>
             template[q] = t /\ operation[q] = "destroy" /\ status[q] \in InFlight
  BY <1>1, <1>2, OnlyItsDestroyMovesLifecycle
<1>5. desired' = desired
  BY <1>4, NonEmptyAssumption
<1>6. ASSUME NEW r \in Runs, status'[r] \in InFlight
      PROVE  /\ snapshot'[r] = desired'[template'[r]]
             /\ lifecycle'[template'[r]] # "active" => operation'[r] = "destroy"
  <2>1. status[r] # "absent" /\ template[r] \in StackTemplates
    BY <1>2, <1>3, <1>6 DEF TypeOK, InFlight
  <2>2. /\ status[r] \in InFlight /\ template'[r] = template[r]
        /\ snapshot'[r] = snapshot[r] /\ operation'[r] = operation[r]
    BY <1>2, <1>6, <2>1, RunsStay
  <2>3. lifecycle'[template[r]] # lifecycle[template[r]] => q = r
    BY <1>2, <1>4, <2>1, <2>2 DEF IInv, OneUnfinishedRun
  <2> QED
    BY <1>4, <1>5, <2>1, <2>2, <2>3 DEF Agreed
<1> QED
  BY <1>5, <1>6 DEF Agreed

LEMMA StartAgrees ==
  ASSUME SInv, NEW q \in Requests, StartTemplateRun(q), ~IsStale(q), vars' # vars, Agreed
  PROVE  Agreed'
<1>1. /\ request[q] \in ReadRequests /\ UNCHANGED templateVars
      /\ IInv /\ [Next]_vars /\ TypeOK
  BY StartIsCreate, ServiceStepsAreStoreSteps DEF SInv, IInv, ServiceNext
<1>2. PICK r \in Runs :
        /\ status[r] = "absent"
        /\ template'[r] = request[q].template
        /\ snapshot'[r] = request[q].seen.desired
        /\ \A x \in Runs \ {r} : status'[x] = status[x]
  BY StartIsCreate
<1>3. /\ request[q].template \in StackTemplates
      /\ request[q].seen = View(request[q].template)
      /\ request[q].seen.lifecycle = "active"
  BY <1>1 DEF IsStale, SInv, ReadWhenActive, ReadRequests
<1>4. desired' = desired /\ lifecycle' = lifecycle
  BY <1>1 DEF templateVars
<1>5. ASSUME NEW x \in Runs, status'[x] \in InFlight
      PROVE  /\ snapshot'[x] = desired'[template'[x]]
             /\ lifecycle'[template'[x]] # "active" => operation'[x] = "destroy"
  <2>1. CASE x = r
    BY <1>2, <1>3, <1>4, <2>1 DEF View
  <2>2. CASE x # r
    <3>1. status[x] \in InFlight /\ status[x] # "absent"
      BY <1>2, <1>5, <2>2 DEF InFlight
    <3> QED
      BY <1>1, <1>4, <3>1, RunsStay DEF Agreed
  <2> QED
    BY <2>1, <2>2
<1> QED
  BY <1>4, <1>5 DEF Agreed

LEMMA EditAgrees ==
  ASSUME SInv, NEW q \in Requests, UpdateConfig(q) \/ Upgrade(q), ~IsStale(q), Agreed
  PROVE  Agreed'
<1> DEFINE t == request[q].template
<1>1. request[q] \in CheckedEdits
  BY EditIsUpdate
<1>2. PICK snap \in Snapshots :
        /\ UpdateDesired(t, snap)
        /\ Fits(ConfigOf(snap), RevisionOf(snap))
           \/ /\ RevisionOf(snap) = RevisionOf(desired[t])
              /\ Fits(ConfigOf(snap), RevisionOf(request[q].seen.desired))
  BY EditIsUpdate
<1>3. /\ t \in StackTemplates /\ request[q].seen = View(t)
      /\ RunsInFlight(t) \subseteq request[q].known
  BY <1>1 DEF CheckedEdits, IsStale
<1>4. RunsInFlight(t) = {}
  BY <1>1, <1>3 DEF SInv, KnownRunsAreOver, RunsInFlight
<1>5. Fits(ConfigOf(snap), RevisionOf(snap))
  BY <1>2, <1>3 DEF View
<1>6. /\ desired' = [desired EXCEPT ![t] = snap]
      /\ status' = status /\ template' = template /\ snapshot' = snapshot
      /\ operation' = operation /\ lifecycle' = lifecycle
  BY <1>2 DEF UpdateDesired, runVars
<1>7. TypeOK
  BY DEF SInv, IInv
<1>8. \A r \in Runs : status[r] \in InFlight => template[r] # t
  BY <1>4 DEF RunsInFlight
<1> HIDE DEF t
<1> QED
  BY <1>3, <1>5, <1>6, <1>7, <1>8 DEF Agreed, TypeOK

LEMMA ApproveAgrees ==
  ASSUME SInv, NEW q \in Requests, ApproveRun(q), Agreed
  PROVE  Agreed'
<1>1. /\ UNCHANGED <<templateVars, template, snapshot>>
      /\ \A x \in Runs : status'[x] \in InFlight => status[x] \in InFlight
      /\ IInv /\ [Next]_vars
  BY ApproveIsApprove, ServiceStepsAreStoreSteps DEF SInv, ServiceNext
<1>2. \A x \in Runs : status[x] \in InFlight => operation'[x] = operation[x]
  BY <1>1, RunsStay DEF InFlight
<1> QED
  BY <1>1, <1>2 DEF Agreed, templateVars
LEMMA FreshStaysAgreed ==
  ASSUME SInv, ServiceNext
  PROVE  FreshRequestsAgree'
<1> SUFFICES ASSUME ~stale'
             PROVE  Agreed'
  BY DEF FreshRequestsAgree, Agreed
<1>1. ~stale => Agreed
  BY DEF SInv, FreshRequestsAgree, Agreed
<1>2. CASE vars' = vars /\ stale' = stale
  BY <1>1, <1>2 DEF Agreed, Fits, vars
<1>3. ASSUME NEW q \in Requests,
             StartTemplateRun(q) \/ UpdateConfig(q) \/ Upgrade(q) \/ ApproveRun(q)
      PROVE  Agreed'
  <2>1. ~stale /\ ~(IsStale(q) /\ vars' # vars)
    <3>1. stale' = (stale \/ (IsStale(q) /\ vars' # vars))
      BY <1>3, StartIsCreate, EditIsUpdate, ApproveIsApprove
    <3> QED
      BY <3>1
  <2>2. CASE vars' = vars
    BY <1>1, <2>1, <2>2 DEF Agreed, Fits, vars
  <2>3. CASE vars' # vars
    BY <1>1, <1>3, <2>1, <2>3, StartAgrees, EditAgrees, ApproveAgrees
  <2> QED
    BY <2>2, <2>3
<1>4. CASE Elsewhere
  BY <1>1, <1>4, ElsewhereAgrees DEF Elsewhere
<1>5. ASSUME NEW q \in Requests,
             \/ ReadStackTemplate(q) \/ RequireNoRunInFlight(q) \/ ReadPlan(q) \/ GiveUp(q)
      PROVE  vars' = vars /\ stale' = stale
  BY <1>5 DEF ReadStackTemplate, RequireNoRunInFlight, ReadPlan, GiveUp
<1> QED
  BY <1>2, <1>3, <1>4, <1>5 DEF ServiceNext

LEMMA ServiceInductive ==
  ASSUME SInv, [ServiceNext]_serviceVars
  PROVE  SInv'
<1>1. CASE ServiceNext
  <2>1. IInv'
    BY <1>1, ServiceStepsAreStoreSteps, Inductive DEF SInv
  <2>2. \/ \E q \in Requests : Goes(q) /\ OthersWait(q) /\ stale' \in BOOLEAN
        \/ request' = request /\ stale' = stale
    BY <1>1, RequestGoes DEF ServiceNext, Elsewhere
  <2>3. ServiceTypeOK' /\ ReadWhenActive' /\ KnownRunsAreOver' /\ ApprovalsAreOfWhatWasSeen'
    BY <1>1, <2>2, CarriedStaysTrue
  <2> QED
    BY <1>1, <2>1, <2>3, FreshStaysAgreed DEF SInv
<1>2. CASE UNCHANGED serviceVars
  <2>1. vars' = vars /\ request' = request /\ stale' = stale
    BY <1>2 DEF serviceVars
  <2>2. IInv'
    BY <2>1, Inductive DEF SInv
  <2>3. /\ ServiceTypeOK' /\ ReadWhenActive' /\ KnownRunsAreOver' /\ ApprovalsAreOfWhatWasSeen'
        /\ FreshRequestsAgree'
    BY <2>1 DEF SInv, ServiceTypeOK, ReadWhenActive, KnownRunsAreOver,
                ApprovalsAreOfWhatWasSeen, FreshRequestsAgree, vars
  <2> QED
    BY <2>2, <2>3 DEF SInv
<1> QED
  BY <1>1, <1>2

LEMMA ServiceInitInvariant == ServiceInit => SInv
<1> SUFFICES ASSUME ServiceInit
             PROVE  SInv
  OBVIOUS
<1>1. IInv
  BY InitInvariant DEF ServiceInit
<1>2. ServiceTypeOK
  BY DEF ServiceInit, ServiceTypeOK
<1>3. ReadWhenActive /\ KnownRunsAreOver /\ ApprovalsAreOfWhatWasSeen
  BY KindsDiffer DEF ServiceInit, ReadWhenActive, KnownRunsAreOver, ApprovalsAreOfWhatWasSeen
<1>4. FreshRequestsAgree
  BY DEF ServiceInit, Init, FreshRequestsAgree, InFlight
<1> QED
  BY <1>1, <1>2, <1>3, <1>4 DEF SInv

-----------------------------------------------------------------------------
(* The theorems.                                                           *)

\* What the requests carry is as they read it, for any number of them.
THEOREM ServiceInvariant == ServiceSpec => []SInv
  BY ServiceInitInvariant, ServiceInductive, PTL DEF ServiceSpec

\* While no request writes on a stale read, an unfinished run is of the desired
\* state, on a stack template that is active or that it is itself destroying,
\* and a desired config fits its revision.
THEOREM FreshAgree == ServiceSpec => []FreshRequestsAgree
  BY ServiceInvariant, PTL DEF SInv

\* A request that writes is a start, an edit or an approval.
LEMMA WhoWrote ==
  ASSUME ServiceNext, NEW q \in Requests, SInv, Wrote(q)
  PROVE  StartTemplateRun(q) \/ UpdateConfig(q) \/ Upgrade(q) \/ ApproveRun(q)
<1>1. PICK x \in Requests :
        \/ ReadStackTemplate(x) \/ RequireNoRunInFlight(x) \/ ReadPlan(x)
        \/ StartTemplateRun(x) \/ UpdateConfig(x) \/ Upgrade(x) \/ ApproveRun(x) \/ GiveUp(x)
  BY DEF ServiceNext, Elsewhere, Wrote
<1>2. OthersWait(x)
  BY <1>1, RequestGoes
<1>3. x = q
  BY <1>2 DEF OthersWait, Wrote
<1> QED
  BY <1>1, <1>3 DEF Wrote, ReadStackTemplate, RequireNoRunInFlight, ReadPlan, GiveUp

\* The desired state is written by an edit, to the stack template it is about.
LEMMA WhoEdited ==
  ASSUME SInv, ServiceNext, NEW q \in Requests, Wrote(q),
         NEW t \in StackTemplates, desired'[t] # desired[t]
  PROVE  (UpdateConfig(q) \/ Upgrade(q)) /\ t = request[q].template
<1>1. CASE StartTemplateRun(q) \/ ApproveRun(q)
  BY <1>1, StartIsCreate, ApproveIsApprove DEF templateVars
<1>2. CASE UpdateConfig(q) \/ Upgrade(q)
  <2>1. \E snap \in Snapshots : UpdateDesired(request[q].template, snap)
    BY <1>2, EditIsUpdate
  <2> QED
    BY <1>2, <2>1 DEF UpdateDesired, SInv, IInv, TypeOK
<1> QED
  BY <1>1, <1>2, WhoWrote

\* requireNoRunInFlight, for any number of requests and runs: a run in flight
\* when an edit commits was created after the edit looked.
THEOREM EditsMeetLaterRuns == ServiceSpec => EditsOnlyMeetLaterRuns
<1>1. ASSUME SInv, [ServiceNext]_serviceVars, NEW q \in Requests, NEW t \in StackTemplates,
             Wrote(q), desired'[t] # desired[t]
      PROVE  RunsInFlight(t) \cap request[q].known = {}
  <2>1. ServiceNext
    BY <1>1 DEF serviceVars, Wrote
  <2>2. request[q] \in CheckedEdits /\ t = request[q].template
    BY <1>1, <2>1, WhoEdited, EditIsUpdate
  <2> QED
    BY <1>1, <2>2 DEF SInv, KnownRunsAreOver, RunsInFlight
<1>2. SInv /\ [ServiceNext]_serviceVars =>
        \A q \in Requests, t \in StackTemplates :
          Wrote(q) /\ desired'[t] # desired[t] => RunsInFlight(t) \cap request[q].known = {}
  BY <1>1
<1> QED
  BY <1>2, ServiceInvariant, PTL DEF ServiceSpec, EditsOnlyMeetLaterRuns

\* validateTemplateConfig: only an edit that read another revision can leave a
\* config that does not fit.
THEOREM MisfitNeedsOverlap == ServiceSpec => MisfitOnlyByOverlap
<1>1. ASSUME SInv, [ServiceNext]_serviceVars, NEW q \in Requests, NEW t \in StackTemplates,
             Wrote(q), Fits(ConfigOf(desired[t]), RevisionOf(desired[t])),
             ~Fits(ConfigOf(desired'[t]), RevisionOf(desired'[t]))
      PROVE  RevisionOf(request[q].seen.desired) # RevisionOf(desired[t])
  <2>1. ServiceNext /\ desired'[t] # desired[t]
    BY <1>1 DEF serviceVars, Wrote
  <2>2. t = request[q].template /\ (UpdateConfig(q) \/ Upgrade(q))
    BY <1>1, <2>1, WhoEdited
  <2>3. PICK snap \in Snapshots :
          /\ UpdateDesired(t, snap)
          /\ Fits(ConfigOf(snap), RevisionOf(snap))
             \/ /\ RevisionOf(snap) = RevisionOf(desired[t])
                /\ Fits(ConfigOf(snap), RevisionOf(request[q].seen.desired))
    BY <1>1, <2>2, EditIsUpdate
  <2>4. desired'[t] = snap
    BY <1>1, <2>3 DEF UpdateDesired, SInv, IInv, TypeOK
  <2> QED
    BY <1>1, <2>3, <2>4
<1>2. SInv /\ [ServiceNext]_serviceVars =>
        \A q \in Requests, t \in StackTemplates :
          /\ Wrote(q)
          /\ Fits(ConfigOf(desired[t]), RevisionOf(desired[t]))
          /\ ~Fits(ConfigOf(desired'[t]), RevisionOf(desired'[t]))
          => RevisionOf(request[q].seen.desired) # RevisionOf(desired[t])
  BY <1>1
<1> QED
  BY <1>2, ServiceInvariant, PTL DEF ServiceSpec, MisfitOnlyByOverlap

\* PlanState, for any number of requests: an approved plan is of the desired
\* state, or an edit committed while it was being approved.
THEOREM StaleApprovalNeedsOverlap == ServiceSpec => StaleApprovalOnlyByOverlap
<1>1. ASSUME SInv, [ServiceNext]_serviceVars, NEW q \in Requests, NEW r \in Runs,
             Wrote(q), r \in approvals' \ approvals, snapshot[r] # desired[template[r]]
      PROVE  request[q].seen # View(template[r])
  <2>1. ServiceNext
    BY <1>1 DEF serviceVars, Wrote
  <2>2. approvals' = approvals \/ ApproveRun(q)
    <3>1. CASE UpdateConfig(q) \/ Upgrade(q)
      BY <1>1, <3>1, EditIsUpdate DEF UpdateDesired
    <3> QED
      BY <1>1, <2>1, <3>1, WhoWrote, StartIsCreate
  <2>3. request[q] \in CheckedApprovals /\ r = request[q].run
    BY <1>1, <2>2, ApproveIsApprove
  <2>4. snapshot[r] = request[q].seen.desired
    BY <1>1, <2>3 DEF SInv, ApprovalsAreOfWhatWasSeen
  <2> QED
    BY <1>1, <2>4 DEF View
<1>2. SInv /\ [ServiceNext]_serviceVars =>
        \A q \in Requests, r \in Runs :
          /\ Wrote(q) /\ r \in approvals' \ approvals
          /\ snapshot[r] # desired[template[r]]
          => request[q].seen # View(template[r])
  BY <1>1
<1> QED
  BY <1>2, ServiceInvariant, PTL DEF ServiceSpec, StaleApprovalOnlyByOverlap
=============================================================================
