----------------------------- MODULE SavedPlan ------------------------------
(***************************************************************************)
(* A saved plan's way from the executor that made it to the one that       *)
(* applies it: the executor sessions of a run's plan and apply workflows   *)
(* (inSession), the activities they run there (TemplateRunActivities), the *)
(* executor's ring of run keys (KeyRing), its run workspaces on disk, and  *)
(* the artifact store.                                                     *)
(*                                                                         *)
(* RunWorkflows models what these workflows do to the run tables, down to  *)
(* the calls that are lost; here the run's row is its status and its plan  *)
(* key, and what can go wrong is the executor: a process restarts, a       *)
(* session expires, an activity fails, or it goes on after Temporal gave   *)
(* up on it.  A plan is known by the run it was made for and the provider  *)
(* versions it was made with.                                              *)
(***************************************************************************)
EXTENDS Integers, FiniteSets

CONSTANTS
  Runs, Hosts,   \* runs, and executors that share the artifact store
  Versions,      \* of the providers a module asks for
  None,          \* no workspace, no key, no plan, no lock file
  SessionTTL,    \* ExecutionTimeout of a session
  KeyTTL,        \* DefaultKeyTTL
  MaxFaults      \* bound: what goes wrong but for an activity that just fails

ASSUME SavedPlanAssumption ==
  /\ Versions # {}
  /\ {SessionTTL, KeyTTL} \subseteq Nat \ {0} /\ SessionTTL <= KeyTTL
  /\ MaxFaults \in Nat

VARIABLES
  kind,      \* what was asked for: a plan, an apply, or one without approval
  status,    \* of the run
  planKey,   \* the runs that have a plan_artifact_dek
  reviewed,  \* the plan that a run's review is about
  work,      \* the run's workflow and its session
  ring,      \* each executor's KeyRing
  dir,       \* each executor's run workspaces
  object,    \* the artifact store's saved plans
  late,      \* activities that Temporal gave up on and that still run
  faults,    \* counted for their bound
  robbed     \* history: runs whose apply met a late activity of their plan

store == <<planKey, object>>
host  == <<ring, dir>>
vars  == <<kind, status, reviewed, work, store, host, late, faults, robbed>>

Phases == {"plan", "apply"}
Plans  == [of : Runs, with : Versions]

NoWork == [at |-> "idle"]

\* Where a workflow is, in the order of its session.
Places == {"waiting_for_executor", "preparing_workspace", "fetching_source",
           "restoring_plan", "initializing", "terraform", "saving_plan",
           "writing_plan", "releasing_key", "cleaning_up", "finishing"}

Sessions == [at : Places, phase : Phases, host : Hosts \cup {None},
             age : 0 .. SessionTTL, alive : BOOLEAN, ok : BOOLEAN, keep : BOOLEAN]

Bundles == [plan : Plans, run : Runs, whole : BOOLEAN]

\* Past its TTL a key's age tells nothing more.
Keys == [phase : Phases, age : 0 .. KeyTTL + 1]

Workspaces == [lock : Versions \cup {None}, installed : Versions \cup {None},
               plan : Plans \cup {None}]

\* None is none of what it stands for the absence of.
ASSUME NoneAssumption ==
  None \notin Hosts \cup Versions \cup Plans \cup Bundles \cup Keys \cup Workspaces

TypeOK ==
  /\ kind \in [Runs -> {"plan", "apply", "auto"}]
  /\ status \in [Runs -> {"queued", "running", "waiting_approval", "approved", "over"}]
  /\ planKey \subseteq Runs
  /\ reviewed \in [Runs -> Plans \cup {None}]
  /\ work \in [Runs -> {NoWork} \cup Sessions]
  /\ ring \in [Hosts -> [Runs -> {None} \cup Keys]]
  /\ dir \in [Hosts -> [Runs -> {None} \cup Workspaces]]
  /\ object \in [Runs -> Bundles \cup {None}]
  /\ late \subseteq [do : {"UploadPlan", "ReleaseRunKey", "CleanupWorkspace"},
                     run : Runs, phase : Phases, host : Hosts, plan : Plans \cup {None}]
  /\ faults \in 0 .. MaxFaults
  /\ robbed \subseteq Runs

Init ==
  /\ kind \in [Runs -> {"plan", "apply", "auto"}]
  /\ status = [r \in Runs |-> "queued"]
  /\ planKey = {} /\ late = {} /\ robbed = {} /\ faults = 0
  /\ reviewed = [r \in Runs |-> None]
  /\ work = [r \in Runs |-> NoWork]
  /\ ring = [h \in Hosts |-> [r \in Runs |-> None]]
  /\ dir = [h \in Hosts |-> [r \in Runs |-> None]]
  /\ object = [r \in Runs |-> None]

-----------------------------------------------------------------------------
(* The run's row.                                                          *)

Fault == faults < MaxFaults /\ faults' = faults + 1

\* Mutant: the workspace is named for the executor, not for the run.
RunWorkspacePath_Shared(r) == CHOOSE first \in Runs : TRUE

\* Where a run's workspace is on any executor, for its plan and its apply.
RunWorkspacePath(r) == r

\* Where its saved plan is in the artifact store.
PlanKey(r) == r

\* A run that ends loses its plan key with its plan.
SetStatus(r, s) ==
  /\ status' = [status EXCEPT ![r] = s]
  /\ planKey' = IF s = "over" THEN planKey \ {r} ELSE planKey

Begin(r, phase) ==
  /\ work' = [work EXCEPT ![r] =
       [at |-> "waiting_for_executor", phase |-> phase, host |-> None, age |-> 0,
        alive |-> TRUE, ok |-> TRUE, keep |-> FALSE]]
  /\ SetStatus(r, "running")
  /\ UNCHANGED <<kind, reviewed, object, host, late, faults, robbed>>

StartPlan(r) == status[r] = "queued" /\ kind[r] # "auto" /\ Begin(r, "plan")

StartApply(r) ==
  /\ status[r] = (IF kind[r] = "auto" THEN "queued" ELSE "approved")
  /\ Begin(r, "apply")

Decide(r) ==
  /\ \/ status[r] = "waiting_approval" /\ SetStatus(r, "approved")
     \/ status[r] \in {"waiting_approval", "approved"} /\ SetStatus(r, "over")
  /\ UNCHANGED <<kind, reviewed, work, object, host, late, faults, robbed>>

-----------------------------------------------------------------------------
(* A session.                                                              *)

InSession(r, at) == work[r].at = at /\ work[r].alive

Go(r, at) == work' = [work EXCEPT ![r].at = at]

\* The first activity to fail ends the session's work.  Without a workspace
\* there is nothing to close.
Fail(r) ==
  /\ work[r].at \in {"waiting_for_executor", "preparing_workspace", "fetching_source",
                     "restoring_plan", "initializing", "terraform", "saving_plan",
                     "writing_plan"}
  /\ work' = [work EXCEPT ![r].ok = FALSE,
       ![r].at = IF @ \in {"waiting_for_executor", "preparing_workspace"}
                 THEN "finishing" ELSE "releasing_key"]
  /\ UNCHANGED <<kind, status, reviewed, store, host, late, faults, robbed>>

CreateSession(r, h) ==
  /\ work[r].at = "waiting_for_executor"
  /\ work' = [work EXCEPT ![r].at = "preparing_workspace", ![r].host = h]
  /\ UNCHANGED <<kind, status, reviewed, store, host, late, faults, robbed>>

\* Mutant: a ring is for the one run its executor is busy with.
Generate_ForOne(keys, r, phase) ==
  [o \in Runs |-> IF o = r THEN [phase |-> phase, age |-> 0] ELSE None]

\* A key pair of the run's own, in place of an earlier one.  Keys older than
\* the ring's TTL are evicted on the way.
Generate(keys, r, phase) ==
  [o \in Runs |->
    IF o = r THEN [phase |-> phase, age |-> 0]
    ELSE IF keys[o] # None /\ keys[o].age > KeyTTL THEN None ELSE keys[o]]

Forget(keys, r) == [keys EXCEPT ![r] = None]

\* Whether what the control plane sealed to this session's key opens here.
Opens(r) ==
  LET held == ring[work[r].host][r] IN held # None /\ held.phase = work[r].phase

Workspace(r) == dir[work[r].host][RunWorkspacePath(r)]

Writes(r, workspace) == dir' = [dir EXCEPT ![work[r].host][RunWorkspacePath(r)] = workspace]

Kept(workspace) ==
  IF workspace = None THEN [lock |-> None, installed |-> None, plan |-> None] ELSE workspace

\* An existing directory is taken as it is.
PrepareWorkspace(r) ==
  /\ InSession(r, "preparing_workspace")
  /\ Writes(r, Kept(Workspace(r)))
  /\ ring' = [ring EXCEPT ![work[r].host] = Generate(@, r, work[r].phase)]
  /\ Go(r, "fetching_source")
  /\ UNCHANGED <<kind, status, reviewed, store, late, faults, robbed>>

AfterFetch(r) ==
  IF work[r].phase = "apply" /\ kind[r] # "auto" THEN "restoring_plan" ELSE "initializing"

\* CheckoutCommit: the run's commit is put over what is there; a directory that
\* was removed is made again.
Checkout(workspace) == Kept(workspace)

FetchSource(r) ==
  /\ InSession(r, "fetching_source") /\ Opens(r)
  /\ Writes(r, Checkout(Workspace(r)))
  /\ Go(r, AfterFetch(r))
  /\ UNCHANGED <<kind, status, reviewed, store, ring, late, faults, robbed>>

\* RunTerraform opens the sealed credentials, and its log inside the workspace,
\* before it runs a command.
CanRun(r) == Opens(r) /\ Workspace(r) # None

\* tofu init: the lock file, if there is one, says which versions.
Initialize(r) ==
  /\ InSession(r, "initializing") /\ CanRun(r)
  /\ \E v \in Versions :
       /\ Workspace(r).lock \in {None, v}
       /\ Writes(r, [Workspace(r) EXCEPT !.lock = v, !.installed = v])
  /\ Go(r, "terraform")
  /\ UNCHANGED <<kind, status, reviewed, store, ring, late, faults, robbed>>

\* tofu plan -out.  What has no changes, or was asked for as a plan, is not kept.
Plan(r, changes) ==
  /\ InSession(r, "terraform") /\ work[r].phase = "plan" /\ CanRun(r)
  /\ Workspace(r).installed # None
  /\ LET made == [of |-> r, with |-> Workspace(r).installed]
         keep == changes /\ kind[r] # "plan"
     IN /\ Writes(r, [Workspace(r) EXCEPT !.plan = made])
        /\ reviewed' = [reviewed EXCEPT ![r] = made]
        /\ work' = [work EXCEPT ![r].keep = keep,
                                ![r].at = IF keep THEN "saving_plan" ELSE "releasing_key"]
  /\ UNCHANGED <<kind, status, store, ring, late, faults, robbed>>

-----------------------------------------------------------------------------
(* The saved plan.                                                         *)

\* planbundle: the plan file with its lock file, sealed under the run's plan
\* key and bound to the run.
Seal(plan, r) == [plan |-> plan, run |-> r, whole |-> TRUE]

OpensBundle(sealed, r) == sealed # None /\ sealed.whole /\ sealed.run = r

PutObject(r, sealed) == object' = [object EXCEPT ![PlanKey(r)] = sealed]

DeletePlan(r) == PutObject(r, None)

\* SealPlanKey makes the run's plan key if it has none.
SealPlanKey(r) == planKey' = planKey \cup {r}

\* UploadPlan begins: the run has a plan key by now, the files are read and
\* sealed, and the object is truncated.
UploadPlan(r) ==
  /\ InSession(r, "saving_plan") /\ Opens(r)
  /\ Workspace(r) # None /\ Workspace(r).plan # None
  /\ SealPlanKey(r)
  /\ PutObject(r, [Seal(Workspace(r).plan, r) EXCEPT !.whole = FALSE])
  /\ Go(r, "writing_plan")
  /\ UNCHANGED <<kind, status, reviewed, host, late, faults, robbed>>

FinishUpload(r) ==
  /\ InSession(r, "writing_plan")
  /\ object' = [object EXCEPT ![PlanKey(r)].whole = TRUE]
  /\ Go(r, "releasing_key")
  /\ UNCHANGED <<kind, status, reviewed, planKey, host, late, faults, robbed>>

\* DownloadPlan: the plan and its lock file replace what is there.
DownloadPlan(r) ==
  LET sealed == object[PlanKey(r)]
  IN /\ InSession(r, "restoring_plan") /\ Opens(r)
     /\ r \in planKey /\ OpensBundle(sealed, r) /\ Workspace(r) # None
     /\ Writes(r, [Workspace(r) EXCEPT !.plan = sealed.plan, !.lock = sealed.plan.with])
     /\ Go(r, "initializing")
     /\ UNCHANGED <<kind, status, reviewed, store, ring, late, faults, robbed>>

\* tofu apply tfplan refuses a plan made with other providers; an auto-approved
\* run has none to apply.
Apply(r) ==
  /\ InSession(r, "terraform") /\ work[r].phase = "apply" /\ CanRun(r)
  /\ Workspace(r).installed # None
  /\ kind[r] # "auto" =>
       Workspace(r).plan # None /\ Workspace(r).plan.with = Workspace(r).installed
  /\ Go(r, "releasing_key")
  /\ UNCHANGED <<kind, status, reviewed, store, host, late, faults, robbed>>

-----------------------------------------------------------------------------
(* Closing a session.  What its activities say is ignored.                 *)

ReleaseRunKey(r) ==
  /\ InSession(r, "releasing_key")
  /\ Go(r, "cleaning_up")
  /\ ring' = [ring EXCEPT ![work[r].host] = Forget(@, r)]
  /\ UNCHANGED <<kind, status, reviewed, store, dir, late, faults, robbed>>

DeletesPlan(phase) == phase = "apply"

\* Two deletions, the second made whatever came of the first: either may fail.
CleanupWorkspace(r) ==
  /\ InSession(r, "cleaning_up")
  /\ Go(r, "finishing")
  /\ \/ Writes(r, None) /\ UNCHANGED faults
     \/ UNCHANGED dir /\ Fault
  /\ IF DeletesPlan(work[r].phase) THEN DeletePlan(r) ELSE UNCHANGED object
  /\ UNCHANGED <<kind, status, reviewed, planKey, ring, late, robbed>>

\* An activity of a session that is gone is not run.
SkipClosing(r) ==
  /\ work[r].at \in {"releasing_key", "cleaning_up"} /\ ~work[r].alive
  /\ Go(r, "finishing")
  /\ UNCHANGED <<kind, status, reviewed, store, host, late, faults, robbed>>

\* Mutant: a plan with changes waits, saved or not.
Outcome_Waits(r) == IF work[r].phase = "plan" /\ work[r].keep THEN "waiting_approval" ELSE "over"

Outcome(r) ==
  IF work[r].ok /\ work[r].phase = "plan" /\ work[r].keep THEN "waiting_approval" ELSE "over"

\* The session is completed, and the lifecycle says what became of the run.
CompleteSession(r) ==
  /\ work[r].at = "finishing"
  /\ SetStatus(r, Outcome(r))
  /\ work' = [work EXCEPT ![r] = NoWork]
  /\ UNCHANGED <<kind, reviewed, object, host, late, faults, robbed>>

-----------------------------------------------------------------------------
(* What goes wrong.                                                        *)

GivenUp(r, do) ==
  [do |-> do, run |-> r, phase |-> work[r].phase, host |-> work[r].host,
   plan |-> reviewed[r]]

\* Temporal gives up on an activity that runs on: an upload fails the run, the
\* closing activities are not waited for.
GiveUp(r) ==
  /\ Fault /\ work[r].at # "idle" /\ work[r].alive
  /\ \/ /\ work[r].at \in {"saving_plan", "writing_plan"} /\ Opens(r)
        /\ late' = late \cup {GivenUp(r, "UploadPlan")}
        /\ work' = [work EXCEPT ![r].at = "releasing_key", ![r].ok = FALSE]
        /\ SealPlanKey(r)
     \/ /\ work[r].at = "releasing_key"
        /\ late' = late \cup {GivenUp(r, "ReleaseRunKey")}
        /\ Go(r, "cleaning_up") /\ UNCHANGED planKey
     \/ /\ work[r].at = "cleaning_up"
        /\ late' = late \cup {GivenUp(r, "CleanupWorkspace")}
        /\ Go(r, "finishing") /\ UNCHANGED planKey
  /\ UNCHANGED <<kind, status, reviewed, object, host, robbed>>

\* It does its work after all.
RunLate(x) ==
  /\ x \in late /\ late' = late \ {x}
  /\ object' = CASE x.do = "UploadPlan" ->
                      [object EXCEPT ![PlanKey(x.run)] = Seal(x.plan, x.run)]
                 [] x.do = "CleanupWorkspace" /\ DeletesPlan(x.phase) ->
                      [object EXCEPT ![PlanKey(x.run)] = None]
                 [] OTHER -> object
  /\ ring' = IF x.do = "ReleaseRunKey"
             THEN [ring EXCEPT ![x.host] = Forget(@, x.run)] ELSE ring
  /\ dir' = IF x.do = "CleanupWorkspace"
            THEN [dir EXCEPT ![x.host][RunWorkspacePath(x.run)] = None] ELSE dir
  /\ robbed' = IF work[x.run].at # "idle" /\ work[x.run].phase # x.phase
               THEN robbed \cup {x.run} ELSE robbed
  /\ UNCHANGED <<kind, status, reviewed, work, planKey, faults>>

\* The executor process restarts: its keys and its sessions are gone, its disk
\* is not.
Restart(h) ==
  /\ Fault
  /\ ring' = [ring EXCEPT ![h] = [r \in Runs |-> None]]
  /\ work' = [r \in Runs |->
       IF work[r].at # "idle" /\ work[r].host = h
       THEN [work[r] EXCEPT !.alive = FALSE] ELSE work[r]]
  /\ late' = {x \in late : x.host # h}
  /\ UNCHANGED <<kind, status, reviewed, store, dir, robbed>>

InHand(r) == work[r].at # "idle" /\ work[r].host # None /\ work[r].alive

\* A session that has had its time is over, whatever its executor still does.
Expire(r) ==
  /\ InHand(r) /\ work[r].age = SessionTTL /\ Fault
  /\ work' = [work EXCEPT ![r].alive = FALSE]
  /\ UNCHANGED <<kind, status, reviewed, store, host, late, robbed>>

Tick ==
  /\ \A r \in Runs : InHand(r) => work[r].age < SessionTTL
  /\ work' = [r \in Runs |-> IF InHand(r) THEN [work[r] EXCEPT !.age = @ + 1] ELSE work[r]]
  /\ ring' = [h \in Hosts |-> [r \in Runs |->
       IF ring[h][r] # None /\ ring[h][r].age <= KeyTTL
       THEN [ring[h][r] EXCEPT !.age = @ + 1] ELSE ring[h][r]]]
  /\ UNCHANGED <<kind, status, reviewed, store, dir, late, faults, robbed>>

-----------------------------------------------------------------------------
SessionSteps(r) ==
  \/ \E h \in Hosts : CreateSession(r, h)
  \/ PrepareWorkspace(r) \/ FetchSource(r) \/ DownloadPlan(r) \/ Initialize(r)
  \/ \E changes \in BOOLEAN : Plan(r, changes)
  \/ Apply(r) \/ UploadPlan(r) \/ FinishUpload(r)
  \/ Fail(r) \/ ReleaseRunKey(r) \/ CleanupWorkspace(r) \/ SkipClosing(r)
  \/ CompleteSession(r)

Next ==
  \/ \E r \in Runs :
       \/ StartPlan(r) \/ StartApply(r) \/ Decide(r)
       \/ SessionSteps(r)
       \/ GiveUp(r) \/ Expire(r)
  \/ \E x \in late : RunLate(x)
  \/ \E h \in Hosts : Restart(h)
  \/ Tick

Spec == Init /\ [][Next]_vars

-----------------------------------------------------------------------------
(* Properties.                                                             *)

Saves(r) == kind[r] = "apply"

\* Whether a person can still approve the run, or an apply has yet to restore
\* what was approved.
NeedsItsPlan(r) ==
  /\ Saves(r)
  /\ \/ status[r] \in {"waiting_approval", "approved"}
     \/ /\ work[r].at \in {"waiting_for_executor", "preparing_workspace",
                           "fetching_source", "restoring_plan"}
        /\ work[r].phase = "apply"

\* A plan that waits for its review, or is approved and not yet restored, is in
\* the artifact store whole, it is the one the review is about, and its key is
\* there to open it: no failed or late upload, cleanup or restart leaves a run
\* waiting for the approval of a plan that could not be applied.
ReviewableRunsHaveTheirPlan ==
  \A r \in Runs : NeedsItsPlan(r) =>
    /\ OpensBundle(object[PlanKey(r)], r)
    /\ object[PlanKey(r)].plan = reviewed[r]
    /\ r \in planKey

\* What an approved run applies is the plan that was reviewed, with the
\* providers it was made with, whatever an executor's disk held before.
AppliesWhatWasReviewed ==
  [][\A r \in Runs : Saves(r) /\ InSession(r, "terraform") /\ work[r].phase = "apply"
                     /\ work'[r].at = "releasing_key" /\ work'[r].ok =>
       /\ Workspace(r).plan = reviewed[r]
       /\ Workspace(r).installed = reviewed[r].with]_vars

\* A session whose executor lives finds what it needs there.  It can open what
\* is sealed for it: neither another run's key nor the ring's eviction takes
\* its own.  And an apply that reaches tofu finds the reviewed plan and its
\* providers.  Only a late activity of the run's own plan session can take
\* these away, as keys and workspaces are a run's and not a phase's.
SessionFindsWhatItNeeds ==
  \A r \in Runs : InHand(r) /\ r \notin robbed =>
    /\ work[r].at \notin {"preparing_workspace", "cleaning_up", "finishing"} => Opens(r)
    /\ Saves(r) /\ InSession(r, "terraform") /\ work[r].phase = "apply" =>
         /\ Workspace(r) # None
         /\ Workspace(r).plan = reviewed[r]
         /\ Workspace(r).installed = reviewed[r].with
=============================================================================
