----------------------------- MODULE RunService -----------------------------
(***************************************************************************)
(* The service's requests that decide on a stack template's desired state  *)
(* and its runs: StartTemplateRun, UpdateStackTemplateConfig,              *)
(* UpgradeStackTemplate and ApproveRun.  Each reads and checks first and   *)
(* writes later, and nothing holds what it read until then: other requests *)
(* and the workflows write in between.                                     *)
(*                                                                         *)
(* A request is open from its first read to its write, and carries what it *)
(* read.  A check that fails ends it.  The writes are RunStore's           *)
(* transactions, and so is whatever the workflows do meanwhile.            *)
(*                                                                         *)
(* A config is the set of variables it gives a value; the values are left  *)
(* out.  Every revision there is counts as active.  Authorization and the  *)
(* audit records are left out.                                             *)
(***************************************************************************)
EXTENDS RunStore

CONSTANTS Revisions, Variables,
          Declares,  \* the variables of each revision
          Requires,  \* those of them that have no default
          Requests   \* the requests that may be open at a time

ASSUME RevisionsAssumption ==
  /\ Snapshots = Revisions \X SUBSET Variables
  /\ Declares \in [Revisions -> SUBSET Variables]
  /\ Requires \in [Revisions -> SUBSET Variables]
  /\ \A v \in Revisions : Requires[v] \subseteq Declares[v]

VARIABLES
  request,  \* what each open request is about, has read, and checked
  stale     \* whether a request ever wrote after what it read had changed

serviceVars == <<vars, request, stale>>

RevisionOf(snap) == snap[1]
ConfigOf(snap)   == snap[2]

-----------------------------------------------------------------------------
(* What the requests check.                                                *)

\* validateTemplateConfig: no variable the revision does not declare, and
\* every one it requires.
Fits(config, v) == Requires[v] \subseteq config /\ config \subseteq Declares[v]

\* carryForwardConfig.
CarriedForward(config, v) == config \cap Declares[v]

\* Mutant: what is carried forward is not validated again.
UpgradeConfigs_Carried(seen, v) ==
  {c \in SUBSET Variables : Fits(c, v)} \cup {CarriedForward(ConfigOf(seen.desired), v)}

\* What an upgrade may set: any config of the command's that fits, or the one
\* it read carried forward, if that fits.
UpgradeConfigs(seen, v) ==
  {c \in (SUBSET Variables) \cup {CarriedForward(ConfigOf(seen.desired), v)} : Fits(c, v)}

RunsInFlight(t) == {r \in Runs : template[r] = t /\ status[r] \in InFlight}

\* Mutant: any recorded plan will do.
PlanMatches_AnyPlan(r) == pendingRun[template[r]] = r

\* StackTemplate.PlanState is PlanMatches, for the run to be approved.
PlanMatches(r) ==
  /\ pendingRun[template[r]] = r
  /\ snapshot[r] = desired[template[r]]

\* What a request reads of a stack template.
View(t) == [desired |-> desired[t], lifecycle |-> lifecycle[t]]

-----------------------------------------------------------------------------
(* The requests.                                                           *)

Idle == [stage |-> "idle"]

Close(q) == request' = [request EXCEPT ![q] = Idle]

\* The stack template is read; one that is not active takes no run and no edit.
ReadStackTemplate(q) ==
  /\ request[q] = Idle
  /\ \E t \in StackTemplates, for \in {"start", "config", "upgrade"} :
       /\ lifecycle[t] = "active"
       /\ request' = [request EXCEPT ![q] =
            [stage |-> "read", for |-> for, template |-> t, seen |-> View(t)]]
  /\ UNCHANGED <<vars, stale>>

\* Mutant: only a running run is in the way.
RequireNoRunInFlight_Running(q) ==
  /\ request[q].stage = "read" /\ request[q].for # "start"
  /\ IF \A r \in RunsInFlight(request[q].template) : status[r] # "running"
     THEN request' = [request EXCEPT ![q] =
            [stage |-> "checked", for |-> @.for, template |-> @.template, seen |-> @.seen,
             known |-> {r \in Runs : status[r] # "absent"}]]
     ELSE Close(q)
  /\ UNCHANGED <<vars, stale>>

\* requireNoRunInFlight, by the runs there are by now.
RequireNoRunInFlight(q) ==
  /\ request[q].stage = "read" /\ request[q].for # "start"
  /\ IF RunsInFlight(request[q].template) = {}
     THEN request' = [request EXCEPT ![q] =
            [stage |-> "checked", for |-> @.for, template |-> @.template, seen |-> @.seen,
             known |-> {r \in Runs : status[r] # "absent"}]]
     ELSE Close(q)
  /\ UNCHANGED <<vars, stale>>

\* ApproveRun's reads.  Its read of the run itself adds nothing: a run that is
\* its stack template's pending plan waits, or the approval will find out.
ReadPlan(q) ==
  /\ request[q] = Idle
  /\ \E r \in Runs :
       /\ status[r] = "waiting_approval" /\ PlanMatches(r)
       /\ request' = [request EXCEPT ![q] =
            [stage |-> "checked", for |-> "approve", template |-> template[r],
             run |-> r, seen |-> View(template[r])]]
  /\ UNCHANGED <<vars, stale>>

\* Whether what q goes by is no longer so: the stack template has changed, or,
\* for an edit, a run has been created since it looked for runs.
IsStale(q) ==
  LET t == request[q].template IN
  \/ request[q].seen # View(t)
  \/ request[q].for \in {"config", "upgrade"} /\ ~(RunsInFlight(t) \subseteq request[q].known)

\* The request's write; when it changes nothing it was refused.
Write(q, write) ==
  /\ write
  /\ stale' = (stale \/ (IsStale(q) /\ vars' # vars))
  /\ Close(q)

\* StartTemplateRun's transaction: the run snapshots what was read.
StartTemplateRun(q) ==
  /\ request[q].stage = "read" /\ request[q].for = "start"
  /\ \E r \in Runs, o \in Operations, auto \in BOOLEAN, reply \in {"ok", "in_flight"} :
       /\ auto => o = "apply"
       /\ Write(q, CreateTemplateRun(r, request[q].template, o, auto,
                                     request[q].seen.desired, reply))

\* Mutant: the config is not validated again.
UpdateConfig_Unchecked(q) ==
  /\ request[q].stage = "checked" /\ request[q].for = "config"
  /\ LET t == request[q].template IN
     \E c \in SUBSET Variables :
       Write(q, UpdateDesired(t, <<RevisionOf(desired[t]), c>>))

\* Store.UpdateStackTemplateConfig: the config column only, validated against
\* the revision that was read.
UpdateConfig(q) ==
  /\ request[q].stage = "checked" /\ request[q].for = "config"
  /\ LET t == request[q].template IN
     \E c \in SUBSET Variables :
       /\ Fits(c, RevisionOf(request[q].seen.desired))
       /\ Write(q, UpdateDesired(t, <<RevisionOf(desired[t]), c>>))

\* Store.UpdateStackTemplateDesiredRevision: both columns.
Upgrade(q) ==
  /\ request[q].stage = "checked" /\ request[q].for = "upgrade"
  /\ \E v \in Revisions : \E c \in UpgradeConfigs(request[q].seen, v) :
       Write(q, UpdateDesired(request[q].template, <<v, c>>))

\* ApproveRun's transaction.
ApproveRun(q) ==
  /\ request[q].stage = "checked" /\ request[q].for = "approve"
  /\ \E reply \in Replies : Write(q, ApproveTemplateRun(request[q].run, reply))

\* The request is canceled, fails, or its process dies.
GiveUp(q) ==
  /\ request[q] # Idle
  /\ Close(q)
  /\ UNCHANGED <<vars, stale>>

-----------------------------------------------------------------------------
\* AddTemplateToStack has validated the config it installs.
ServiceInit ==
  /\ Init
  /\ \A t \in StackTemplates : Fits(ConfigOf(desired[t]), RevisionOf(desired[t]))
  /\ request = [q \in Requests |-> Idle]
  /\ stale = FALSE

\* Every other transaction of RunStore that is not rejected, from the workflows
\* and DiscardRun.
Elsewhere ==
  \E r \in Runs, reply \in Replies \ {"error", "lost_claim"} :
    /\ status[r] # "absent"
    /\ StoreStep(r, reply)
    /\ approvals' = approvals
    /\ UNCHANGED <<request, stale>>

ServiceNext ==
  \/ \E q \in Requests :
       \/ ReadStackTemplate(q) \/ RequireNoRunInFlight(q) \/ ReadPlan(q)
       \/ StartTemplateRun(q) \/ UpdateConfig(q) \/ Upgrade(q) \/ ApproveRun(q)
       \/ GiveUp(q)
  \/ Elsewhere

ServiceSpec == ServiceInit /\ [][ServiceNext]_serviceVars

-----------------------------------------------------------------------------
(* Properties.                                                             *)

Wrote(q) == request[q] # Idle /\ request'[q] = Idle /\ vars' # vars

\* As long as no request writes on a stale read, the checks are enough: an
\* unfinished run is of the desired state, on a stack template that is active
\* or that the run itself is destroying; and a desired config fits its revision.
FreshRequestsAgree ==
  ~stale =>
    /\ \A r \in Runs : status[r] \in InFlight =>
         /\ snapshot[r] = desired[template[r]]
         /\ lifecycle[template[r]] # "active" => operation[r] = "destroy"
    /\ \A t \in StackTemplates : Fits(ConfigOf(desired[t]), RevisionOf(desired[t]))

\* What the check for runs in flight does guarantee: the run an edit commits under was created
\* after the edit looked for runs, so no edit reaches a review it could see.
EditsOnlyMeetLaterRuns ==
  [][\A q \in Requests, t \in StackTemplates :
       Wrote(q) /\ desired'[t] # desired[t] =>
         RunsInFlight(t) \cap request[q].known = {}]_serviceVars

\* A config that does not fit its revision comes from two edits that overlap:
\* the one that wrote it had validated it against another revision.
MisfitOnlyByOverlap ==
  [][\A q \in Requests, t \in StackTemplates :
       /\ Wrote(q)
       /\ Fits(ConfigOf(desired[t]), RevisionOf(desired[t]))
       /\ ~Fits(ConfigOf(desired'[t]), RevisionOf(desired'[t]))
       => RevisionOf(request[q].seen.desired) # RevisionOf(desired[t])]_serviceVars

\* The backstop: whoever's run is approved, its plan is of the desired state,
\* unless an edit committed while it was being approved.
StaleApprovalOnlyByOverlap ==
  [][\A q \in Requests, r \in Runs :
       /\ Wrote(q) /\ r \in approvals' \ approvals
       /\ snapshot[r] # desired[template[r]]
       => request[q].seen # View(template[r])]_serviceVars
=============================================================================
