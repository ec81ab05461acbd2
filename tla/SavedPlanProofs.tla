-------------------------- MODULE SavedPlanProofs ---------------------------
(***************************************************************************)
(* What a saved plan's way to its apply guarantees, proved for any runs,   *)
(* executors and provider versions, and any number of faults.              *)
(***************************************************************************)
EXTENDS SavedPlan, TLAPS

-----------------------------------------------------------------------------
(* The inductive invariant.                                                *)

Working(r) == work[r].at # "idle"

\* Where a workflow is once its session is being closed.
Closing == {"releasing_key", "cleaning_up", "finishing"}

\* What a run's row and its workflow say of each other.
RowFine(r) ==
  /\ Working(r) <=> status[r] = "running"
  /\ status[r] \in {"waiting_approval", "approved"} => Saves(r)
  /\ Working(r) =>
       /\ work[r].phase = "plan" => kind[r] # "auto"
       /\ work[r].phase = "apply" => kind[r] # "plan"
       /\ work[r].at = "waiting_for_executor" => work[r].host = None
       /\ work[r].at \notin {"waiting_for_executor", "finishing"} => work[r].host \in Hosts
       /\ work[r].at \in {"saving_plan", "writing_plan"} =>
            work[r].keep /\ reviewed[r] \in Plans
       /\ work[r].at = "restoring_plan" => Saves(r) /\ work[r].phase = "apply"
       /\ work[r].keep =>
            /\ Saves(r) /\ work[r].phase = "plan"
            /\ work[r].at \in {"saving_plan", "writing_plan"} \cup Closing
       /\ work[r].at \notin Closing => work[r].ok

\* A plan that is to wait for its review is complete before its session closes.
WillWait(r) == work[r].at \in Closing /\ work[r].keep /\ work[r].ok

PlanFine(r) ==
  /\ NeedsItsPlan(r) \/ WillWait(r) =>
       /\ OpensBundle(object[PlanKey(r)], r)
       /\ object[PlanKey(r)].plan = reviewed[r]
       /\ r \in planKey
  /\ work[r].at = "writing_plan" =>
       /\ object[PlanKey(r)] # None /\ object[PlanKey(r)].run = r
       /\ object[PlanKey(r)].plan = reviewed[r]
       /\ r \in planKey

\* A session's key is no older than the session, so the ring still has it.
KeyFine(r) ==
  InHand(r) /\ r \notin robbed
    /\ work[r].at \notin {"preparing_workspace", "cleaning_up", "finishing"} =>
    /\ ring[work[r].host][r] # None
    /\ ring[work[r].host][r].phase = work[r].phase
    /\ ring[work[r].host][r].age <= work[r].age

\* From its restoring on, a workspace has the reviewed plan and its providers.
Restored(r) ==
  Saves(r) /\ InHand(r) /\ work[r].phase = "apply" /\ work[r].at \in {"initializing", "terraform"}

WorkspaceFine(r) ==
  /\ InHand(r) /\ work[r].at = "saving_plan" =>
       Workspace(r) # None /\ Workspace(r).plan = reviewed[r]
  /\ Restored(r) =>
       \/ Workspace(r) = None /\ r \in robbed
       \/ /\ reviewed[r] \in Plans
          /\ Workspace(r) # None /\ Workspace(r).plan = reviewed[r]
          /\ work[r].at = "initializing" => Workspace(r).lock = reviewed[r].with
          /\ work[r].at = "terraform" => Workspace(r).installed = reviewed[r].with

\* Where the session of an activity that was given up can be when that lands.
Past(do) ==
  CASE do = "UploadPlan"       -> Closing
    [] do = "ReleaseRunKey"    -> {"cleaning_up", "finishing"}
    [] do = "CleanupWorkspace" -> {"finishing"}

Excused(x) ==
  \/ status[x.run] = "over"
  \/ /\ Working(x.run) /\ work[x.run].phase = x.phase
     /\ work[x.run].at \in Past(x.do)
     /\ x.do = "UploadPlan" => ~work[x.run].ok
  \/ /\ x.phase = "plan" /\ x.do # "UploadPlan"
     /\ \/ status[x.run] \in {"waiting_approval", "approved"}
        \/ Working(x.run) /\ work[x.run].phase = "apply" /\ Saves(x.run)

LateFine(x) == (x.do = "UploadPlan" => x.plan \in Plans) /\ Excused(x)

RunFine(r) == RowFine(r) /\ PlanFine(r) /\ KeyFine(r) /\ WorkspaceFine(r)

IInv ==
  /\ TypeOK
  /\ \A r \in Runs : RunFine(r)
  /\ \A x \in late : LateFine(x)

-----------------------------------------------------------------------------
(* Types.                                                                  *)

\* A workflow that is under way has a session's record, and an idle one none.
LEMMA WorkType ==
  ASSUME TypeOK, NEW r \in Runs
  PROVE  /\ work[r].at \in Places \cup {"idle"}
         /\ Working(r) => work[r] \in Sessions
BY DEF TypeOK, Working, NoWork, Sessions, Places

\* What a session can become keeps its shape.
LEMMA SessionType ==
  ASSUME TypeOK, NEW r \in Runs, Working(r),
         NEW w \in Sessions, work' = [work EXCEPT ![r] = w]
  PROVE  work' \in [Runs -> {NoWork} \cup Sessions]
BY DEF TypeOK

\* A workspace on the executor of a session.
LEMMA WorkspaceType ==
  ASSUME TypeOK, NEW r \in Runs, NEW h \in Hosts
  PROVE  /\ dir[h][r] \in {None} \cup Workspaces
         /\ ring[h][r] \in {None} \cup Keys
         /\ Kept(dir[h][r]) \in Workspaces
BY NoneAssumption DEF TypeOK, Kept, Workspaces

LEMMA ObjectType ==
  ASSUME TypeOK, NEW r \in Runs
  PROVE  /\ object[r] \in {None} \cup Bundles
         /\ reviewed[r] \in Plans \cup {None}
BY DEF TypeOK

LEMMA InitialTypes == Init => TypeOK
BY SavedPlanAssumption DEF Init, TypeOK, NoWork

\* The row and the places: no step leaves the types.
LEMMA RowTypes ==
  ASSUME TypeOK, NEW r \in Runs,
         StartPlan(r) \/ StartApply(r) \/ Decide(r)
  PROVE  TypeOK'
<1>1. ASSUME NEW phase \in Phases, Begin(r, phase)
      PROVE  TypeOK'
  <2> DEFINE w == [at |-> "waiting_for_executor", phase |-> phase, host |-> None,
                   age |-> 0, alive |-> TRUE, ok |-> TRUE, keep |-> FALSE]
  <2>1. w \in Sessions
    BY <1>1, SavedPlanAssumption DEF Sessions, Places
  <2>2. work' \in [Runs -> {NoWork} \cup Sessions]
    BY <1>1, <2>1 DEF Begin, TypeOK
  <2>3. status' = [status EXCEPT ![r] = "running"] /\ planKey' = planKey
    BY <1>1 DEF Begin, SetStatus
  <2>. QED BY <1>1, <2>2, <2>3 DEF Begin, TypeOK, host
<1>2. CASE Decide(r)
  BY <1>2 DEF Decide, SetStatus, TypeOK, host
<1>. QED BY <1>1, <1>2 DEF StartPlan, StartApply, Phases

LEMMA MovesAreTyped ==
  ASSUME TypeOK, NEW r \in Runs,
         Fail(r) \/ SkipClosing(r) \/ (\E h \in Hosts : CreateSession(r, h))
  PROVE  TypeOK'
<1>. Working(r)
  BY DEF Fail, SkipClosing, CreateSession, Working
<1>. work[r] \in Sessions
  BY WorkType
<1>1. CASE Fail(r)
  <2> DEFINE at == IF work[r].at \in {"waiting_for_executor", "preparing_workspace"}
                   THEN "finishing" ELSE "releasing_key"
             w == [work[r] EXCEPT !.ok = FALSE, !.at = at]
  <2>1. w \in Sessions
    BY DEF Sessions, Places
  <2>2. work' = [work EXCEPT ![r] = w]
    BY <1>1 DEF Fail, TypeOK, Sessions
  <2>3. work' \in [Runs -> {NoWork} \cup Sessions]
    BY <2>1, <2>2, SessionType
  <2>. QED BY <1>1, <2>3 DEF Fail, TypeOK, store, host
<1>2. CASE SkipClosing(r)
  <2>1. [work[r] EXCEPT !.at = "finishing"] \in Sessions
    BY DEF Sessions, Places
  <2>2. work' \in [Runs -> {NoWork} \cup Sessions]
    BY <1>2, <2>1, SessionType DEF SkipClosing, Go
  <2>. QED BY <1>2, <2>2 DEF SkipClosing, TypeOK, store, host
<1>3. ASSUME NEW h \in Hosts, CreateSession(r, h)
      PROVE  TypeOK'
  <2> DEFINE w == [work[r] EXCEPT !.at = "preparing_workspace", !.host = h]
  <2>1. w \in Sessions
    BY DEF Sessions, Places
  <2>2. work' = [work EXCEPT ![r] = w]
    BY <1>3 DEF CreateSession, TypeOK, Sessions
  <2>3. work' \in [Runs -> {NoWork} \cup Sessions]
    BY <2>1, <2>2, SessionType
  <2>. QED BY <1>3, <2>3 DEF CreateSession, TypeOK, store, host
<1>. QED BY <1>1, <1>2, <1>3

\* A session's next place keeps it a session.
LEMMA GoIsTyped ==
  ASSUME TypeOK, NEW r \in Runs, Working(r), NEW at \in Places, Go(r, at)
  PROVE  /\ work' \in [Runs -> {NoWork} \cup Sessions]
         /\ work'[r] = [work[r] EXCEPT !.at = at]
         /\ work'[r] \in Sessions
<1>1. work[r] \in Sessions
  BY WorkType
<1>2. [work[r] EXCEPT !.at = at] \in Sessions
  BY <1>1 DEF Sessions
<1>. QED BY <1>1, <1>2, SessionType DEF Go, TypeOK

LEMMA WritesIsTyped ==
  ASSUME TypeOK, NEW r \in Runs, NEW w \in {None} \cup Workspaces, Writes(r, w)
  PROVE  dir' \in [Hosts -> [Runs -> {None} \cup Workspaces]]
BY DEF TypeOK, Writes, RunWorkspacePath

LEMMA PutIsTyped ==
  ASSUME TypeOK, NEW r \in Runs, NEW b \in {None} \cup Bundles, PutObject(r, b)
  PROVE  object' \in [Runs -> {None} \cup Bundles]
BY DEF TypeOK, PutObject, PlanKey

\* A place that has an executor.
LEMMA HasHost ==
  ASSUME TypeOK, NEW r \in Runs, RowFine(r),
         work[r].at \notin {"idle", "waiting_for_executor", "finishing"}
  PROVE  /\ Working(r) /\ work[r] \in Sessions /\ work[r].host \in Hosts
         /\ Workspace(r) \in {None} \cup Workspaces
         /\ ring[work[r].host][r] \in {None} \cup Keys
<1>1. Working(r) /\ work[r].host \in Hosts
  BY DEF Working, RowFine
<1>. QED BY <1>1, WorkType, WorkspaceType DEF Workspace, RunWorkspacePath

LEMMA PrepareTypes ==
  ASSUME TypeOK, NEW r \in Runs, RowFine(r), PrepareWorkspace(r)
  PROVE  TypeOK'
<1>1. work[r].host \in Hosts /\ Working(r)
  BY HasHost DEF PrepareWorkspace, InSession
<1>2. work' \in [Runs -> {NoWork} \cup Sessions]
  BY <1>1, GoIsTyped DEF PrepareWorkspace, Places
<1>3. dir' \in [Hosts -> [Runs -> {None} \cup Workspaces]]
  BY <1>1, WritesIsTyped, WorkspaceType
     DEF PrepareWorkspace, Workspace, RunWorkspacePath
<1>4. [phase |-> work[r].phase, age |-> 0] \in Keys
  BY <1>1, WorkType, SavedPlanAssumption DEF Keys, Sessions
<1>5. Generate(ring[work[r].host], r, work[r].phase) \in [Runs -> {None} \cup Keys]
  BY <1>1, <1>4 DEF Generate, TypeOK
<1>6. ring' \in [Hosts -> [Runs -> {None} \cup Keys]]
  BY <1>1, <1>5 DEF PrepareWorkspace, TypeOK
<1>. QED BY <1>2, <1>3, <1>6 DEF PrepareWorkspace, TypeOK, store

LEMMA FetchTypes ==
  ASSUME TypeOK, NEW r \in Runs, RowFine(r), FetchSource(r)
  PROVE  TypeOK'
<1>1. work[r].host \in Hosts /\ Working(r)
  BY HasHost DEF FetchSource, InSession
<1>2. work' \in [Runs -> {NoWork} \cup Sessions]
  BY <1>1, GoIsTyped DEF FetchSource, Places, AfterFetch
<1>3. dir' \in [Hosts -> [Runs -> {None} \cup Workspaces]]
  BY <1>1, WritesIsTyped, WorkspaceType
     DEF FetchSource, Checkout, Workspace, RunWorkspacePath
<1>. QED BY <1>2, <1>3 DEF FetchSource, TypeOK, store

LEMMA InitializeTypes ==
  ASSUME TypeOK, NEW r \in Runs, RowFine(r), Initialize(r)
  PROVE  TypeOK'
<1>1. Workspace(r) \in Workspaces /\ Working(r)
  BY HasHost DEF Initialize, InSession, CanRun
<1>2. work' \in [Runs -> {NoWork} \cup Sessions]
  BY <1>1, GoIsTyped DEF Initialize, Places
<1>3. PICK v \in Versions : Writes(r, [Workspace(r) EXCEPT !.lock = v, !.installed = v])
  BY DEF Initialize
<1>4. [Workspace(r) EXCEPT !.lock = v, !.installed = v] \in Workspaces
  BY <1>1 DEF Workspaces
<1>5. dir' \in [Hosts -> [Runs -> {None} \cup Workspaces]]
  BY <1>3, <1>4, WritesIsTyped
<1>. QED BY <1>2, <1>5 DEF Initialize, TypeOK, store

LEMMA PlanTypes ==
  ASSUME TypeOK, NEW r \in Runs, RowFine(r), NEW changes \in BOOLEAN, Plan(r, changes)
  PROVE  TypeOK'
<1>1. Workspace(r) \in Workspaces /\ Working(r) /\ work[r] \in Sessions
  BY HasHost DEF Plan, InSession, CanRun
<1> DEFINE made == [of |-> r, with |-> Workspace(r).installed]
           keep == changes /\ kind[r] # "plan"
           w == [work[r] EXCEPT !.keep = keep,
                                !.at = IF keep THEN "saving_plan" ELSE "releasing_key"]
<1>2. made \in Plans
  BY <1>1 DEF Plan, Plans, Workspaces
<1>3. keep \in BOOLEAN
  OBVIOUS
<1>4. w \in Sessions
  BY <1>1, <1>3 DEF Sessions, Places
<1>5. work' = [work EXCEPT ![r] = w]
  BY <1>1 DEF Plan, TypeOK, Sessions
<1>6. work' \in [Runs -> {NoWork} \cup Sessions]
  BY <1>1, <1>4, <1>5, SessionType
<1>7. [Workspace(r) EXCEPT !.plan = made] \in Workspaces
  BY <1>1, <1>2 DEF Workspaces
<1>8. dir' \in [Hosts -> [Runs -> {None} \cup Workspaces]]
  BY <1>7, WritesIsTyped DEF Plan
<1>9. reviewed' \in [Runs -> Plans \cup {None}]
  BY <1>2 DEF Plan, TypeOK
<1>. QED BY <1>6, <1>8, <1>9 DEF Plan, TypeOK, store

LEMMA SavingTypes ==
  ASSUME TypeOK, NEW r \in Runs, RowFine(r), PlanFine(r), UploadPlan(r) \/ FinishUpload(r)
  PROVE  TypeOK'
<1>1. CASE UploadPlan(r)
  <2>1. Workspace(r) \in Workspaces /\ Working(r)
    BY <1>1, HasHost DEF UploadPlan, InSession
  <2>2. work' \in [Runs -> {NoWork} \cup Sessions]
    BY <1>1, <2>1, GoIsTyped DEF UploadPlan, Places
  <2>3. Workspace(r).plan \in Plans
    BY <1>1, <2>1 DEF UploadPlan, Workspaces
  <2>4. [Seal(Workspace(r).plan, r) EXCEPT !.whole = FALSE] \in Bundles
    BY <2>3 DEF Seal, Bundles
  <2>5. object' \in [Runs -> {None} \cup Bundles]
    BY <1>1, <2>4, PutIsTyped DEF UploadPlan
  <2>. QED BY <1>1, <2>2, <2>5 DEF UploadPlan, SealPlanKey, TypeOK, host
<1>2. CASE FinishUpload(r)
  <2>1. Working(r)
    BY <1>2, HasHost DEF FinishUpload, InSession
  <2>2. work' \in [Runs -> {NoWork} \cup Sessions]
    BY <1>2, <2>1, GoIsTyped DEF FinishUpload, Places
  <2>3. object[r] \in Bundles
    BY <1>2, ObjectType DEF FinishUpload, InSession, PlanFine, PlanKey
  <2>4. [object[r] EXCEPT !.whole = TRUE] \in Bundles
    BY <2>3 DEF Bundles
  <2>5. object' = [object EXCEPT ![r] = [object[r] EXCEPT !.whole = TRUE]]
    BY <1>2, <2>3 DEF FinishUpload, PlanKey, TypeOK, Bundles
  <2>6. object' \in [Runs -> {None} \cup Bundles]
    BY <2>4, <2>5 DEF TypeOK
  <2>. QED BY <1>2, <2>2, <2>6 DEF FinishUpload, TypeOK, host
<1>. QED BY <1>1, <1>2

LEMMA ApplyingTypes ==
  ASSUME TypeOK, NEW r \in Runs, RowFine(r), DownloadPlan(r) \/ Apply(r)
  PROVE  TypeOK'
<1>1. CASE DownloadPlan(r)
  <2>1. Workspace(r) \in Workspaces /\ Working(r)
    BY <1>1, HasHost DEF DownloadPlan, InSession
  <2>2. work' \in [Runs -> {NoWork} \cup Sessions]
    BY <1>1, <2>1, GoIsTyped DEF DownloadPlan, Places
  <2>3. object[r] \in Bundles
    BY <1>1, ObjectType DEF DownloadPlan, OpensBundle, PlanKey
  <2>4. object[r].plan \in Plans /\ object[r].plan.with \in Versions
    BY <2>3 DEF Bundles, Plans
  <2>5. [Workspace(r) EXCEPT !.plan = object[r].plan, !.lock = object[r].plan.with]
          \in Workspaces
    BY <2>1, <2>4 DEF Workspaces
  <2>6. dir' \in [Hosts -> [Runs -> {None} \cup Workspaces]]
    BY <1>1, <2>5, WritesIsTyped DEF DownloadPlan, PlanKey
  <2>. QED BY <1>1, <2>2, <2>6 DEF DownloadPlan, TypeOK, store
<1>2. CASE Apply(r)
  <2>1. Working(r)
    BY <1>2, HasHost DEF Apply, InSession
  <2>2. work' \in [Runs -> {NoWork} \cup Sessions]
    BY <1>2, <2>1, GoIsTyped DEF Apply, Places
  <2>. QED BY <1>2, <2>2 DEF Apply, TypeOK, store, host
<1>. QED BY <1>1, <1>2

LEMMA ForgetIsTyped ==
  ASSUME TypeOK, NEW r \in Runs, NEW h \in Hosts,
         ring' = [ring EXCEPT ![h] = Forget(@, r)]
  PROVE  ring' \in [Hosts -> [Runs -> {None} \cup Keys]]
<1>1. Forget(ring[h], r) \in [Runs -> {None} \cup Keys]
  BY DEF TypeOK, Forget
<1>. QED BY <1>1 DEF TypeOK

LEMMA FaultIsTyped ==
  ASSUME TypeOK, Fault
  PROVE  faults' \in 0 .. MaxFaults
BY SavedPlanAssumption DEF TypeOK, Fault

LEMMA ClosingTypes ==
  ASSUME TypeOK, NEW r \in Runs, RowFine(r),
         ReleaseRunKey(r) \/ CleanupWorkspace(r) \/ CompleteSession(r)
  PROVE  TypeOK'
<1>1. CASE ReleaseRunKey(r)
  <2>1. work[r].host \in Hosts /\ Working(r)
    BY <1>1, HasHost DEF ReleaseRunKey, InSession
  <2>2. work' \in [Runs -> {NoWork} \cup Sessions]
    BY <1>1, <2>1, GoIsTyped DEF ReleaseRunKey, Places
  <2>3. ring' \in [Hosts -> [Runs -> {None} \cup Keys]]
    BY <1>1, <2>1, ForgetIsTyped DEF ReleaseRunKey
  <2>. QED BY <1>1, <2>2, <2>3 DEF ReleaseRunKey, TypeOK, store
<1>2. CASE CleanupWorkspace(r)
  <2>1. Working(r)
    BY <1>2, HasHost DEF CleanupWorkspace, InSession
  <2>2. work' \in [Runs -> {NoWork} \cup Sessions]
    BY <1>2, <2>1, GoIsTyped DEF CleanupWorkspace, Places
  <2>3. dir' \in [Hosts -> [Runs -> {None} \cup Workspaces]]
    BY <1>2, WritesIsTyped DEF CleanupWorkspace, TypeOK
  <2>4. faults' \in 0 .. MaxFaults
    BY <1>2, FaultIsTyped DEF CleanupWorkspace, TypeOK
  <2>5. object' \in [Runs -> {None} \cup Bundles]
    BY <1>2, PutIsTyped DEF CleanupWorkspace, DeletePlan, TypeOK
  <2>. QED BY <1>2, <2>2, <2>3, <2>4, <2>5 DEF CleanupWorkspace, TypeOK
<1>3. CASE CompleteSession(r)
  BY <1>3 DEF CompleteSession, TypeOK, SetStatus, Outcome, host
<1>. QED BY <1>1, <1>2, <1>3

LEMMA GiveUpTypes ==
  ASSUME TypeOK, NEW r \in Runs, RowFine(r), GiveUp(r)
  PROVE  TypeOK'
<1>1. work[r] \in Sessions /\ Working(r)
  BY WorkType DEF GiveUp, Working
<1>2. work[r].host \in Hosts
  BY HasHost DEF GiveUp
<1>3. \A do \in {"UploadPlan", "ReleaseRunKey", "CleanupWorkspace"} :
        GivenUp(r, do) \in
          [do : {"UploadPlan", "ReleaseRunKey", "CleanupWorkspace"},
           run : Runs, phase : Phases, host : Hosts, plan : Plans \cup {None}]
  BY <1>1, <1>2, ObjectType DEF GivenUp, Sessions
<1>4. late' \subseteq
        [do : {"UploadPlan", "ReleaseRunKey", "CleanupWorkspace"},
         run : Runs, phase : Phases, host : Hosts, plan : Plans \cup {None}]
  BY <1>3 DEF GiveUp, TypeOK
<1>5. planKey' \subseteq Runs
  BY DEF GiveUp, SealPlanKey, TypeOK
<1>6. work' \in [Runs -> {NoWork} \cup Sessions]
  <2>1. [work[r] EXCEPT !.at = "releasing_key", !.ok = FALSE] \in Sessions
    BY <1>1 DEF Sessions, Places
  <2>2. ASSUME work' = [work EXCEPT ![r].at = "releasing_key", ![r].ok = FALSE]
        PROVE  work' \in [Runs -> {NoWork} \cup Sessions]
    <3>1. work' = [work EXCEPT ![r] = [work[r] EXCEPT !.at = "releasing_key", !.ok = FALSE]]
      BY <1>1, <2>2 DEF TypeOK, Sessions
    <3>. QED BY <1>1, <2>1, <3>1, SessionType
  <2>3. ASSUME NEW at \in Places, Go(r, at)
        PROVE  work' \in [Runs -> {NoWork} \cup Sessions]
    BY <1>1, <2>3, GoIsTyped
  <2>. QED BY <2>2, <2>3 DEF GiveUp, Places
<1>. QED BY <1>4, <1>5, <1>6, FaultIsTyped DEF GiveUp, TypeOK, host

LEMMA RunLateTypes ==
  ASSUME TypeOK, NEW x \in late, LateFine(x), RunLate(x)
  PROVE  TypeOK'
<1>1. /\ x.run \in Runs /\ x.host \in Hosts /\ x.phase \in Phases
      /\ x.do \in {"UploadPlan", "ReleaseRunKey", "CleanupWorkspace"}
      /\ x.plan \in Plans \cup {None}
  BY DEF TypeOK
<1>2. late' \subseteq late /\ robbed' \subseteq Runs
  BY <1>1 DEF RunLate, TypeOK
<1>3. dir' \in [Hosts -> [Runs -> {None} \cup Workspaces]]
  BY <1>1 DEF RunLate, TypeOK, RunWorkspacePath
<1>4. ring' \in [Hosts -> [Runs -> {None} \cup Keys]]
  BY <1>1, ForgetIsTyped DEF RunLate, TypeOK
<1>5. object' \in [Runs -> {None} \cup Bundles]
  <2>1. x.do = "UploadPlan" => Seal(x.plan, x.run) \in Bundles
    BY <1>1 DEF LateFine, Seal, Bundles
  <2>. QED BY <1>1, <2>1 DEF RunLate, TypeOK, PlanKey
<1>. QED BY <1>2, <1>3, <1>4, <1>5 DEF RunLate, TypeOK

LEMMA TimeTypes ==
  ASSUME TypeOK, Tick \/ (\E h \in Hosts : Restart(h)) \/ (\E r \in Runs : Expire(r))
  PROVE  TypeOK'
<1>1. CASE Tick
  <2>1. \A r \in Runs : InHand(r) => [work[r] EXCEPT !.age = @ + 1] \in Sessions
    <3> SUFFICES ASSUME NEW r \in Runs, InHand(r)
                 PROVE  [work[r] EXCEPT !.age = @ + 1] \in Sessions
      OBVIOUS
    <3>1. work[r] \in Sessions
      BY WorkType DEF InHand, Working
    <3>2. work[r].age < SessionTTL
      BY <1>1 DEF Tick
    <3>3. work[r].age + 1 \in 0 .. SessionTTL
      BY <3>1, <3>2, SavedPlanAssumption DEF Sessions
    <3>. QED BY <3>1, <3>3 DEF Sessions
  <2>2. work' \in [Runs -> {NoWork} \cup Sessions]
    BY <1>1, <2>1 DEF Tick, TypeOK
  <2>3. \A h \in Hosts, r \in Runs :
          ring[h][r] # None /\ ring[h][r].age <= KeyTTL =>
            [ring[h][r] EXCEPT !.age = @ + 1] \in Keys
    BY WorkspaceType, SavedPlanAssumption DEF Keys
  <2>4. \A h \in Hosts, r \in Runs : ring'[h][r] \in {None} \cup Keys
    BY <1>1, <2>3, WorkspaceType DEF Tick
  <2>5. ring' \in [Hosts -> [Runs -> {None} \cup Keys]]
    BY <1>1, <2>4 DEF Tick
  <2>. QED BY <1>1, <2>2, <2>5 DEF Tick, TypeOK, store
<1>2. ASSUME NEW h \in Hosts, Restart(h)
      PROVE  TypeOK'
  <2>1. \A r \in Runs : Working(r) => [work[r] EXCEPT !.alive = FALSE] \in Sessions
    BY WorkType DEF Sessions
  <2>2. work' \in [Runs -> {NoWork} \cup Sessions]
    BY <1>2, <2>1 DEF Restart, TypeOK, Working
  <2>3. ring' \in [Hosts -> [Runs -> {None} \cup Keys]]
    BY <1>2 DEF Restart, TypeOK
  <2>. QED BY <1>2, <2>2, <2>3, FaultIsTyped DEF Restart, TypeOK, store
<1>3. ASSUME NEW r \in Runs, Expire(r)
      PROVE  TypeOK'
  <2>1. Working(r) /\ work[r] \in Sessions
    BY <1>3, WorkType DEF Expire, InHand, Working
  <2>2. [work[r] EXCEPT !.alive = FALSE] \in Sessions
    BY <2>1 DEF Sessions
  <2>3. work' \in [Runs -> {NoWork} \cup Sessions]
    BY <1>3, <2>1, <2>2, SessionType DEF Expire
  <2>. QED BY <1>3, <2>3, FaultIsTyped DEF Expire, TypeOK, store, host
<1>. QED BY <1>1, <1>2, <1>3

\* Every step keeps the types.
LEMMA StepTypes ==
  ASSUME IInv, [Next]_vars
  PROVE  TypeOK'
<1>. TypeOK
  BY DEF IInv
<1>0. \A r \in Runs : RowFine(r) /\ PlanFine(r)
  BY DEF IInv, RunFine
<1>1. ASSUME NEW r \in Runs, SessionSteps(r)
      PROVE  TypeOK'
  BY <1>0, <1>1, MovesAreTyped, PrepareTypes, FetchTypes, InitializeTypes, PlanTypes,
     SavingTypes, ApplyingTypes, ClosingTypes DEF SessionSteps
<1>2. ASSUME NEW r \in Runs,
             StartPlan(r) \/ StartApply(r) \/ Decide(r) \/ GiveUp(r) \/ Expire(r)
      PROVE  TypeOK'
  BY <1>0, <1>2, RowTypes, GiveUpTypes, TimeTypes
<1>3. ASSUME NEW x \in late, RunLate(x)
      PROVE  TypeOK'
  BY <1>3, RunLateTypes DEF IInv
<1>4. CASE Tick \/ \E h \in Hosts : Restart(h)
  BY <1>4, TimeTypes
<1>5. CASE UNCHANGED vars
  BY <1>5 DEF vars, store, host, TypeOK
<1>. QED BY <1>1, <1>2, <1>3, <1>4, <1>5 DEF Next

-----------------------------------------------------------------------------
(* What a step leaves alone.                                               *)

\* A step of another run leaves all that is a run's own, but for a key that
\* has had its time.
Same(o) ==
  /\ kind'[o] = kind[o] /\ status'[o] = status[o] /\ work'[o] = work[o]
  /\ reviewed'[o] = reviewed[o] /\ object'[o] = object[o]
  /\ (o \in planKey') <=> (o \in planKey)
  /\ (o \in robbed') <=> (o \in robbed)
  /\ \A h \in Hosts :
       /\ dir'[h][o] = dir[h][o]
       /\ ring'[h][o] = ring[h][o] \/ ring[h][o].age > KeyTTL

LEMMA OtherRuns ==
  ASSUME TypeOK, NEW o \in Runs, RunFine(o), Same(o)
  PROVE  RunFine(o)'
<1>1. RowFine(o)'
  BY DEF RunFine, RowFine, Same, Working, Saves
<1>2. PlanFine(o)'
  BY DEF RunFine, PlanFine, NeedsItsPlan, WillWait, Saves, Same, OpensBundle, PlanKey
<1>3. InHand(o) => work[o].host \in Hosts /\ work[o].age <= KeyTTL
  BY WorkType, SavedPlanAssumption DEF InHand, Working, Sessions
<1>4. KeyFine(o)'
  BY <1>3, WorkType, WorkspaceType, SavedPlanAssumption
     DEF RunFine, KeyFine, InHand, Same, Keys, Sessions, Working
<1>5. WorkspaceFine(o)'
  BY <1>3 DEF RunFine, WorkspaceFine, Restored, Saves, InHand, Same, Workspace,
              RunWorkspacePath
<1>. QED BY <1>1, <1>2, <1>4, <1>5 DEF RunFine

LEMMA OtherActivities ==
  ASSUME TypeOK, NEW x \in late, LateFine(x), Same(x.run)
  PROVE  LateFine(x)'
BY DEF LateFine, Excused, Same, Working, Saves

\* An activity that was given up stays excused as its run's session moves on.
LEMMA OnwardActivities ==
  ASSUME TypeOK, NEW x \in late, LateFine(x), RowFine(x.run), Working(x.run),
         kind'[x.run] = kind[x.run], status'[x.run] = status[x.run],
         work'[x.run].at # "idle", work'[x.run].phase = work[x.run].phase,
         ~work[x.run].ok => ~work'[x.run].ok,
         work[x.run].at \in Past(x.do) => work'[x.run].at \in Past(x.do)
  PROVE  LateFine(x)'
<1>1. status[x.run] = "running"
  BY DEF RowFine
<1>. QED BY <1>1 DEF LateFine, Excused, Working, Saves

\* It is enough to look at the run whose step it is, and at what is late now.
LEMMA OneRunStep ==
  ASSUME IInv, TypeOK', NEW r \in Runs, \A o \in Runs \ {r} : Same(o), RunFine(r)',
         \A x \in late' : (x \in late /\ x.run # r) \/ LateFine(x)'
  PROVE  IInv'
<1>1. \A o \in Runs : RunFine(o)'
  BY OtherRuns DEF IInv
<1>2. \A x \in late : x.run \in Runs
  BY DEF IInv, TypeOK
<1>3. \A x \in late' : LateFine(x)'
  BY <1>2, OtherActivities DEF IInv
<1>. QED BY <1>1, <1>3 DEF IInv

\* A step of one run leaves every other as it is.
LEMMA StepsApart ==
  ASSUME TypeOK, NEW r \in Runs, NEW o \in Runs \ {r},
         StartPlan(r) \/ StartApply(r) \/ Decide(r) \/ SessionSteps(r) \/ GiveUp(r)
           \/ Expire(r)
  PROVE  Same(o)
<1>1. ASSUME NEW s, SetStatus(r, s)
      PROVE  status'[o] = status[o] /\ ((o \in planKey') <=> (o \in planKey))
  BY <1>1 DEF SetStatus, TypeOK
<1>2. ASSUME NEW at, Go(r, at)
      PROVE  work'[o] = work[o]
  BY <1>2 DEF Go, TypeOK
<1>3. ASSUME NEW w, Writes(r, w)
      PROVE  \A h \in Hosts : dir'[h][o] = dir[h][o]
  BY <1>3 DEF Writes, RunWorkspacePath, TypeOK
<1>4. ASSUME NEW b, PutObject(r, b)
      PROVE  object'[o] = object[o]
  BY <1>4 DEF PutObject, PlanKey, TypeOK
<1>5. CASE StartPlan(r) \/ StartApply(r) \/ Decide(r)
  <2>1. ASSUME NEW phase, Begin(r, phase)
        PROVE  Same(o)
    BY <1>1, <2>1 DEF Begin, Same, host, TypeOK
  <2>2. CASE Decide(r)
    BY <1>1, <2>2 DEF Decide, Same, host
  <2>. QED BY <1>5, <2>1, <2>2 DEF StartPlan, StartApply
<1>6. CASE Fail(r) \/ SkipClosing(r) \/ (\E h \in Hosts : CreateSession(r, h)) \/ Expire(r)
  BY <1>2, <1>6 DEF Fail, SkipClosing, CreateSession, Expire, Same, store, host, TypeOK
<1>7. CASE PrepareWorkspace(r)
  <2>1. \A h \in Hosts : ring'[h][o] = ring[h][o] \/ ring[h][o].age > KeyTTL
    BY <1>7, WorkspaceType DEF PrepareWorkspace, Generate, TypeOK
  <2>. QED BY <1>2, <1>3, <1>7, <2>1 DEF PrepareWorkspace, Same, store
<1>8. CASE FetchSource(r)
  BY <1>2, <1>3, <1>8 DEF FetchSource, AfterFetch, Same, store
<1>9. CASE DownloadPlan(r)
  BY <1>2, <1>3, <1>9 DEF DownloadPlan, Same, store
<1>10. CASE Initialize(r)
  BY <1>2, <1>3, <1>10 DEF Initialize, Same, store
<1>11. ASSUME NEW changes \in BOOLEAN, Plan(r, changes)
       PROVE  Same(o)
  BY <1>3, <1>11 DEF Plan, Same, store, TypeOK
<1>12. CASE Apply(r)
  BY <1>2, <1>12 DEF Apply, Same, store, host
<1>13. CASE UploadPlan(r)
  BY <1>2, <1>4, <1>13 DEF UploadPlan, SealPlanKey, Same, host
<1>14. CASE FinishUpload(r)
  BY <1>2, <1>14 DEF FinishUpload, PlanKey, Same, host, TypeOK
<1>15. CASE ReleaseRunKey(r)
  <2>1. \A h \in Hosts : ring'[h][o] = ring[h][o]
    BY <1>15 DEF ReleaseRunKey, Forget, TypeOK
  <2>. QED BY <1>2, <1>15, <2>1 DEF ReleaseRunKey, Same, store
<1>16. CASE CleanupWorkspace(r)
  <2>1. object'[o] = object[o]
    BY <1>4, <1>16 DEF CleanupWorkspace, DeletePlan
  <2>2. \A h \in Hosts : dir'[h][o] = dir[h][o]
    BY <1>3, <1>16 DEF CleanupWorkspace
  <2>. QED BY <1>2, <1>16, <2>1, <2>2 DEF CleanupWorkspace, Same
<1>17. CASE CompleteSession(r)
  <2>. QED BY <1>1, <1>17 DEF CompleteSession, Same, host, TypeOK
<1>18. CASE GiveUp(r)
  <2>1. work'[o] = work[o]
    BY <1>2, <1>18 DEF GiveUp, TypeOK
  <2>2. (o \in planKey') <=> (o \in planKey)
    BY <1>18 DEF GiveUp, SealPlanKey
  <2>. QED BY <1>18, <2>1, <2>2 DEF GiveUp, Same, host
<1>. QED
  BY <1>5, <1>6, <1>7, <1>8, <1>9, <1>10, <1>11, <1>12, <1>13, <1>14, <1>15, <1>16,
     <1>17, <1>18 DEF SessionSteps

-----------------------------------------------------------------------------
(* The steps of a run.                                                     *)

LEMMA InitialInvariant == Init => IInv
<1> SUFFICES ASSUME Init PROVE IInv
  OBVIOUS
<1>1. \A r \in Runs : RunFine(r)
  BY DEF Init, RunFine, RowFine, PlanFine, KeyFine, WorkspaceFine, Working, Saves,
         NoWork, NeedsItsPlan, WillWait, InHand, Restored, Closing
<1>. QED BY <1>1, InitialTypes DEF IInv, Init

LEMMA BeginStep ==
  ASSUME IInv, TypeOK', NEW r \in Runs, StartPlan(r) \/ StartApply(r)
  PROVE  IInv'
<1>. TypeOK /\ RunFine(r) /\ \A x \in late : LateFine(x)
  BY DEF IInv
<1>1. PICK phase \in Phases :
        /\ Begin(r, phase)
        /\ phase = "plan" => status[r] = "queued" /\ kind[r] # "auto"
        /\ phase = "apply" =>
             \/ status[r] = "queued" /\ kind[r] = "auto"
             \/ status[r] = "approved" /\ kind[r] # "auto"
  BY DEF StartPlan, StartApply, Phases
<1>2. /\ work'[r] = [at |-> "waiting_for_executor", phase |-> phase, host |-> None,
                     age |-> 0, alive |-> TRUE, ok |-> TRUE, keep |-> FALSE]
      /\ status'[r] = "running" /\ planKey' = planKey
  BY <1>1 DEF Begin, SetStatus, TypeOK
<1>3. kind'[r] = kind[r] /\ object'[r] = object[r] /\ reviewed'[r] = reviewed[r]
  BY <1>1 DEF Begin
<1>4. status[r] = "approved" => Saves(r)
  BY DEF RunFine, RowFine
<1>5. RowFine(r)'
  BY <1>1, <1>2, <1>3, <1>4 DEF RowFine, Working, Saves, Closing, Phases
<1>6. PlanFine(r)'
  BY <1>1, <1>2, <1>3 DEF RunFine, PlanFine, NeedsItsPlan, WillWait, Saves, Closing,
     OpensBundle, PlanKey, Phases
<1>7. KeyFine(r)' /\ WorkspaceFine(r)'
  BY <1>2 DEF KeyFine, WorkspaceFine, InHand, Restored
<1>8. \A x \in late' : x.run # r \/ LateFine(x)'
  BY <1>1, <1>2, <1>3, <1>4 DEF Begin, LateFine, Excused, RunFine, RowFine, Working, Saves,
     Phases
<1>9. late' = late /\ \A o \in Runs \ {r} : Same(o)
  BY <1>1, StepsApart DEF Begin
<1>. QED BY <1>5, <1>6, <1>7, <1>8, <1>9, OneRunStep DEF RunFine

LEMMA DecideStep ==
  ASSUME IInv, TypeOK', NEW r \in Runs, Decide(r)
  PROVE  IInv'
<1>. TypeOK /\ RunFine(r) /\ \A x \in late : LateFine(x)
  BY DEF IInv
<1>1. /\ work' = work /\ kind' = kind /\ object' = object /\ reviewed' = reviewed
      /\ ~Working(r) /\ status[r] \in {"waiting_approval", "approved"}
      /\ \/ status'[r] = "approved" /\ planKey' = planKey
         \/ status'[r] = "over"
  BY DEF Decide, SetStatus, TypeOK, RunFine, RowFine
<1>2. RowFine(r)'
  BY <1>1 DEF RunFine, RowFine, Working, Saves
<1>3. PlanFine(r)'
  BY <1>1 DEF RunFine, PlanFine, NeedsItsPlan, WillWait, Working, Saves, Closing,
     OpensBundle, PlanKey
<1>4. KeyFine(r)' /\ WorkspaceFine(r)'
  BY <1>1 DEF KeyFine, WorkspaceFine, InHand, Restored, Working
<1>5. \A x \in late' : x.run # r \/ LateFine(x)'
  BY <1>1 DEF Decide, LateFine, Excused, Working
<1>6. late' = late /\ \A o \in Runs \ {r} : Same(o)
  BY StepsApart DEF Decide
<1>. QED BY <1>2, <1>3, <1>4, <1>5, <1>6, OneRunStep DEF RunFine

\* A session step keeps the run in its phase and goes on, never back.
Onward(r) ==
  /\ kind' = kind /\ status' = status /\ late' = late
  /\ Working(r) /\ work'[r].at # "idle" /\ work'[r].phase = work[r].phase
  /\ ~work[r].ok => ~work'[r].ok
  /\ work[r].at = "releasing_key" => work'[r].at \in {"cleaning_up", "finishing"}
  /\ work[r].at = "cleaning_up" => work'[r].at = "finishing"
  /\ work[r].at # "finishing"

LEMMA OnwardStep ==
  ASSUME IInv, TypeOK', NEW r \in Runs, SessionSteps(r) \/ Expire(r), Onward(r), RunFine(r)'
  PROVE  IInv'
<1>. TypeOK /\ RunFine(r) /\ \A x \in late : LateFine(x)
  BY DEF IInv
<1>1. ASSUME NEW x \in late, x.run = r
      PROVE  LateFine(x)'
  <2>1. x.do \in {"UploadPlan", "ReleaseRunKey", "CleanupWorkspace"}
    BY DEF TypeOK
  <2>2. work[r].at \in Past(x.do) => work'[r].at \in Past(x.do)
    BY <2>1 DEF Past, Onward, Closing
  <2>. QED BY <1>1, <2>2, OnwardActivities DEF Onward, RunFine
<1>2. late' = late /\ \A o \in Runs \ {r} : Same(o)
  BY StepsApart DEF Onward
<1>. QED BY <1>1, <1>2, OneRunStep

LEMMA CreateSessionStep ==
  ASSUME IInv, TypeOK', NEW r \in Runs, NEW h \in Hosts, CreateSession(r, h)
  PROVE  IInv'
<1>. TypeOK /\ RunFine(r)
  BY DEF IInv
<1>1. Working(r) /\ work[r] \in Sessions
  BY WorkType DEF CreateSession, Working
<1>2. work'[r] = [work[r] EXCEPT !.at = "preparing_workspace", !.host = h]
  BY <1>1 DEF CreateSession, TypeOK, Sessions
<1>3. /\ work[r].at = "waiting_for_executor" /\ work'[r].at = "preparing_workspace"
      /\ work'[r].host = h /\ work'[r].phase = work[r].phase /\ work'[r].ok = work[r].ok
      /\ work'[r].keep = work[r].keep /\ work'[r].alive = work[r].alive
  <2>. ASSUME NEW w \in Sessions
       PROVE  LET v == [w EXCEPT !.at = "preparing_workspace", !.host = h]
              IN /\ v.at = "preparing_workspace" /\ v.host = h /\ v.phase = w.phase
                 /\ v.ok = w.ok /\ v.keep = w.keep /\ v.alive = w.alive
    BY DEF Sessions
  <2>. QED BY <1>1, <1>2 DEF CreateSession
<1>4. UNCHANGED <<kind, status, reviewed, planKey, object, ring, dir, robbed, late>>
  BY DEF CreateSession, store, host
<1>5. RowFine(r)'
  BY <1>3, <1>4 DEF RunFine, RowFine, Working, Saves, Closing
<1>6. PlanFine(r)'
  BY <1>3, <1>4 DEF RunFine, PlanFine, NeedsItsPlan, WillWait, Saves, Closing,
     OpensBundle, PlanKey
<1>7. KeyFine(r)' /\ WorkspaceFine(r)'
  BY <1>3 DEF KeyFine, WorkspaceFine, Restored
<1>8. Onward(r)
  BY <1>1, <1>3, <1>4 DEF Onward
<1>. QED BY <1>5, <1>6, <1>7, <1>8, OnwardStep DEF RunFine, SessionSteps

LEMMA PrepareStep ==
  ASSUME IInv, TypeOK', NEW r \in Runs, PrepareWorkspace(r)
  PROVE  IInv'
<1>. TypeOK /\ RunFine(r)
  BY DEF IInv
<1>1. Working(r) /\ work[r] \in Sessions /\ work[r].host \in Hosts
  BY HasHost DEF RunFine, PrepareWorkspace, InSession
<1>2. work'[r] = [work[r] EXCEPT !.at = "fetching_source"]
  BY <1>1, GoIsTyped DEF PrepareWorkspace, Places
<1>3. /\ work[r].at = "preparing_workspace" /\ work'[r].at = "fetching_source"
      /\ work'[r].host = work[r].host /\ work'[r].phase = work[r].phase
      /\ work'[r].ok = work[r].ok /\ work'[r].keep = work[r].keep
      /\ work'[r].alive = work[r].alive /\ work'[r].age = work[r].age
  BY <1>1, <1>2 DEF PrepareWorkspace, InSession, Sessions
<1>4. UNCHANGED <<kind, status, reviewed, planKey, object, robbed, late>>
  BY DEF PrepareWorkspace, store
<1>5. RowFine(r)'
  BY <1>3, <1>4 DEF RunFine, RowFine, Working, Saves, Closing
<1>6. PlanFine(r)'
  BY <1>3, <1>4 DEF RunFine, PlanFine, NeedsItsPlan, WillWait, Saves, Closing,
     OpensBundle, PlanKey
<1>7. ring'[work[r].host][r] = [phase |-> work[r].phase, age |-> 0]
  BY <1>1 DEF PrepareWorkspace, Generate, TypeOK
<1>8. work[r].age >= 0 /\ [phase |-> work[r].phase, age |-> 0] \in Keys
  BY <1>1, SavedPlanAssumption DEF Sessions, Keys
<1>9. KeyFine(r)'
  BY <1>3, <1>7, <1>8, NoneAssumption DEF KeyFine
<1>10. WorkspaceFine(r)'
  BY <1>3 DEF WorkspaceFine, Restored
<1>11. Onward(r)
  BY <1>1, <1>3, <1>4 DEF Onward
<1>. QED BY <1>5, <1>6, <1>9, <1>10, <1>11, OnwardStep DEF RunFine, SessionSteps

LEMMA FetchStep ==
  ASSUME IInv, TypeOK', NEW r \in Runs, FetchSource(r)
  PROVE  IInv'
<1>. TypeOK /\ RunFine(r)
  BY DEF IInv
<1>1. Working(r) /\ work[r] \in Sessions /\ work[r].host \in Hosts
  BY HasHost DEF RunFine, FetchSource, InSession
<1>2. work'[r] = [work[r] EXCEPT !.at = AfterFetch(r)]
  BY <1>1, GoIsTyped DEF FetchSource, AfterFetch, Places
<1>3. /\ work[r].at = "fetching_source" /\ work'[r].at = AfterFetch(r)
      /\ work'[r].host = work[r].host /\ work'[r].phase = work[r].phase
      /\ work'[r].ok = work[r].ok /\ work'[r].keep = work[r].keep
      /\ work'[r].alive = work[r].alive /\ work'[r].age = work[r].age
  BY <1>1, <1>2 DEF FetchSource, InSession, Sessions
<1>4. UNCHANGED <<kind, status, reviewed, planKey, object, robbed, late, ring>>
  BY DEF FetchSource, store
<1>5. /\ work[r].phase = "apply" /\ Saves(r) => AfterFetch(r) = "restoring_plan"
      /\ AfterFetch(r) = "restoring_plan" => work[r].phase = "apply" /\ Saves(r)
      /\ AfterFetch(r) \in {"restoring_plan", "initializing"}
  BY <1>1 DEF AfterFetch, Saves, RunFine, RowFine, TypeOK
<1>6. RowFine(r)'
  BY <1>3, <1>4, <1>5 DEF RunFine, RowFine, Working, Saves, Closing
<1>7. PlanFine(r)'
  BY <1>3, <1>4, <1>5 DEF RunFine, PlanFine, NeedsItsPlan, WillWait, Saves, Closing,
     OpensBundle, PlanKey
<1>8. KeyFine(r)'
  BY <1>3, <1>4 DEF RunFine, KeyFine, InHand
<1>9. WorkspaceFine(r)'
  BY <1>3, <1>4, <1>5 DEF WorkspaceFine, Restored, Saves
<1>10. Onward(r)
  BY <1>1, <1>3, <1>4, <1>5 DEF Onward
<1>. QED BY <1>6, <1>7, <1>8, <1>9, <1>10, OnwardStep DEF RunFine, SessionSteps

LEMMA DownloadStep ==
  ASSUME IInv, TypeOK', NEW r \in Runs, DownloadPlan(r)
  PROVE  IInv'
<1>. TypeOK /\ RunFine(r)
  BY DEF IInv
<1>1. Working(r) /\ work[r] \in Sessions /\ work[r].host \in Hosts /\ Workspace(r) \in Workspaces
  BY HasHost DEF RunFine, DownloadPlan, InSession
<1>2. work'[r] = [work[r] EXCEPT !.at = "initializing"]
  BY <1>1, GoIsTyped DEF DownloadPlan, Places
<1>3. /\ work[r].at = "restoring_plan" /\ work'[r].at = "initializing"
      /\ work'[r].host = work[r].host /\ work'[r].phase = work[r].phase
      /\ work'[r].ok = work[r].ok /\ work'[r].keep = work[r].keep
      /\ work'[r].alive = work[r].alive /\ work'[r].age = work[r].age
  BY <1>1, <1>2 DEF DownloadPlan, InSession, Sessions
<1>4. UNCHANGED <<kind, status, reviewed, planKey, object, robbed, late, ring>>
  BY DEF DownloadPlan, store
<1>5. RowFine(r)'
  BY <1>3, <1>4 DEF RunFine, RowFine, Working, Saves, Closing
<1>6. PlanFine(r)'
  BY <1>3, <1>4 DEF RunFine, PlanFine, NeedsItsPlan, WillWait, Saves, Closing,
     OpensBundle, PlanKey
<1>7. KeyFine(r)'
  BY <1>3, <1>4 DEF RunFine, KeyFine, InHand
<1>8. WorkspaceFine(r)'
  <2>1. object[r].plan = reviewed[r]
    BY <1>3 DEF RunFine, RowFine, PlanFine, NeedsItsPlan, Working, PlanKey
  <2>2. object[r] \in Bundles
    BY ObjectType DEF DownloadPlan, OpensBundle, PlanKey
  <2>3. reviewed[r] \in Plans
    BY <2>1, <2>2 DEF Bundles
  <2> DEFINE restored == [Workspace(r) EXCEPT !.plan = reviewed[r],
                                              !.lock = reviewed[r].with]
  <2>4. dir'[work[r].host][r] = restored
    BY <1>1, <2>1 DEF DownloadPlan, Writes, RunWorkspacePath, PlanKey, TypeOK
  <2>5. restored \in Workspaces /\ restored.plan = reviewed[r]
        /\ restored.lock = reviewed[r].with
    BY <1>1, <2>3 DEF Workspaces, Plans
  <2>6. restored # None
    BY <2>5, NoneAssumption
  <2>7. Workspace(r)' = restored
    BY <1>3, <2>4 DEF Workspace, RunWorkspacePath
  <2>. QED BY <1>3, <1>4, <2>3, <2>5, <2>6, <2>7 DEF WorkspaceFine
<1>9. Onward(r)
  BY <1>1, <1>3, <1>4 DEF Onward
<1>. QED BY <1>5, <1>6, <1>7, <1>8, <1>9, OnwardStep DEF RunFine, SessionSteps

LEMMA InitializeStep ==
  ASSUME IInv, TypeOK', NEW r \in Runs, Initialize(r)
  PROVE  IInv'
<1>. TypeOK /\ RunFine(r)
  BY DEF IInv
<1>1. Working(r) /\ work[r] \in Sessions /\ work[r].host \in Hosts /\ Workspace(r) \in Workspaces
  BY HasHost DEF RunFine, Initialize, InSession, CanRun
<1>2. work'[r] = [work[r] EXCEPT !.at = "terraform"]
  BY <1>1, GoIsTyped DEF Initialize, Places
<1>3. /\ work[r].at = "initializing" /\ work'[r].at = "terraform"
      /\ work'[r].host = work[r].host /\ work'[r].phase = work[r].phase
      /\ work'[r].ok = work[r].ok /\ work'[r].keep = work[r].keep
      /\ work'[r].alive = work[r].alive /\ work'[r].age = work[r].age
  BY <1>1, <1>2 DEF Initialize, InSession, Sessions
<1>4. UNCHANGED <<kind, status, reviewed, planKey, object, robbed, late, ring>>
  BY DEF Initialize, store
<1>5. RowFine(r)'
  BY <1>3, <1>4 DEF RunFine, RowFine, Working, Saves, Closing
<1>6. PlanFine(r)'
  BY <1>3, <1>4 DEF RunFine, PlanFine, NeedsItsPlan, WillWait, Saves, Closing,
     OpensBundle, PlanKey
<1>7. KeyFine(r)'
  BY <1>3, <1>4 DEF RunFine, KeyFine, InHand
<1>8. WorkspaceFine(r)'
  <2> SUFFICES ASSUME Restored(r)'
               PROVE  /\ reviewed'[r] \in Plans
                      /\ Workspace(r)' # None /\ Workspace(r)'.plan = reviewed'[r]
                      /\ Workspace(r)'.installed = reviewed'[r].with
    BY <1>3 DEF WorkspaceFine
  <2>1. Restored(r)
    BY <1>3, <1>4 DEF Restored, InHand, Saves
  <2>2. Workspace(r) # None
    BY DEF Initialize, CanRun
  <2>3. /\ reviewed[r] \in Plans /\ Workspace(r).plan = reviewed[r]
        /\ Workspace(r).lock = reviewed[r].with
    BY <1>3, <2>1, <2>2 DEF RunFine, WorkspaceFine
  <2>4. PICK v \in Versions :
          /\ Workspace(r).lock \in {None, v}
          /\ Writes(r, [Workspace(r) EXCEPT !.lock = v, !.installed = v])
    BY DEF Initialize
  <2>5. v = reviewed[r].with
    BY <2>3, <2>4, NoneAssumption DEF Plans
  <2> DEFINE ready == [Workspace(r) EXCEPT !.lock = v, !.installed = v]
  <2>6. ready \in Workspaces /\ ready.plan = reviewed[r] /\ ready.installed = v
    BY <1>1, <2>3 DEF Workspaces
  <2>7. dir'[work[r].host][r] = ready
    BY <1>1, <2>4 DEF Writes, RunWorkspacePath, TypeOK
  <2>8. Workspace(r)' = ready
    BY <1>3, <2>7 DEF Workspace, RunWorkspacePath
  <2>. QED BY <1>4, <2>3, <2>5, <2>6, <2>8, NoneAssumption
<1>9. Onward(r)
  BY <1>1, <1>3, <1>4 DEF Onward
<1>. QED BY <1>5, <1>6, <1>7, <1>8, <1>9, OnwardStep DEF RunFine, SessionSteps

LEMMA PlanStep ==
  ASSUME IInv, TypeOK', NEW r \in Runs, NEW changes \in BOOLEAN, Plan(r, changes)
  PROVE  IInv'
<1>. TypeOK /\ RunFine(r)
  BY DEF IInv
<1>1. Working(r) /\ work[r] \in Sessions /\ work[r].host \in Hosts /\ Workspace(r) \in Workspaces
  BY HasHost DEF RunFine, Plan, InSession, CanRun
<1> DEFINE made == [of |-> r, with |-> Workspace(r).installed]
           keep == changes /\ kind[r] # "plan"
           at   == IF keep THEN "saving_plan" ELSE "releasing_key"
<1>2. made \in Plans
  BY <1>1 DEF Plan, Plans, Workspaces
<1>3. work'[r] = [work[r] EXCEPT !.keep = keep, !.at = at]
  BY <1>1 DEF Plan, TypeOK, Sessions
<1>4. /\ work[r].at = "terraform" /\ work'[r].at = at /\ work'[r].keep = keep
      /\ work'[r].host = work[r].host /\ work'[r].phase = work[r].phase
      /\ work'[r].ok = work[r].ok /\ work[r].phase = "plan"
      /\ work'[r].alive = work[r].alive /\ work'[r].age = work[r].age
  <2>1. ASSUME NEW w \in Sessions, NEW k, NEW a
        PROVE  LET v == [w EXCEPT !.keep = k, !.at = a]
               IN /\ v.at = a /\ v.keep = k /\ v.host = w.host /\ v.phase = w.phase
                  /\ v.ok = w.ok /\ v.alive = w.alive /\ v.age = w.age
    BY DEF Sessions
  <2>2. work[r].at = "terraform" /\ work[r].phase = "plan"
    BY DEF Plan, InSession
  <2>. HIDE DEF keep, at
  <2>. QED BY <1>1, <1>3, <2>1, <2>2
<1>5. reviewed'[r] = made
  BY DEF Plan, TypeOK
<1>6. UNCHANGED <<kind, status, planKey, object, robbed, late, ring>>
  BY DEF Plan, store
<1>7. keep => Saves(r)
  BY <1>1, <1>4 DEF RunFine, RowFine, Saves, TypeOK
<1>8. RowFine(r)'
  BY <1>2, <1>4, <1>5, <1>6, <1>7 DEF RunFine, RowFine, Working, Saves, Closing
<1>9. PlanFine(r)'
  <2>1. work'[r].keep => work'[r].at = "saving_plan"
    BY <1>4
  <2>2. work'[r].at \in {"saving_plan", "releasing_key"}
    BY <1>4
  <2>. QED BY <1>1, <1>4, <1>6, <2>1, <2>2
           DEF RunFine, RowFine, PlanFine, NeedsItsPlan, WillWait, Closing
<1>10. KeyFine(r)'
  BY <1>4, <1>6 DEF RunFine, KeyFine, InHand
<1>11. WorkspaceFine(r)'
  <2>1. dir'[work[r].host][r] = [Workspace(r) EXCEPT !.plan = made]
    BY <1>1 DEF Plan, Writes, RunWorkspacePath, TypeOK
  <2>2. [Workspace(r) EXCEPT !.plan = made] \in Workspaces
        /\ [Workspace(r) EXCEPT !.plan = made].plan = made
    BY <1>1, <1>2 DEF Workspaces
  <2>3. Workspace(r)' = [Workspace(r) EXCEPT !.plan = made]
    BY <1>4, <2>1 DEF Workspace, RunWorkspacePath
  <2>4. ~Restored(r)'
    BY <1>4 DEF Restored
  <2>. QED BY <1>5, <2>2, <2>3, <2>4, NoneAssumption DEF WorkspaceFine
<1>12. Onward(r)
  BY <1>1, <1>4, <1>6 DEF Onward
<1>. QED BY <1>8, <1>9, <1>10, <1>11, <1>12, OnwardStep DEF RunFine, SessionSteps

LEMMA ApplyStep ==
  ASSUME IInv, TypeOK', NEW r \in Runs, Apply(r)
  PROVE  IInv'
<1>. TypeOK /\ RunFine(r)
  BY DEF IInv
<1>1. Working(r) /\ work[r] \in Sessions
  BY HasHost DEF RunFine, Apply, InSession
<1>2. work'[r] = [work[r] EXCEPT !.at = "releasing_key"]
  BY <1>1, GoIsTyped DEF Apply, Places
<1>3. /\ work[r].at = "terraform" /\ work'[r].at = "releasing_key"
      /\ work'[r].host = work[r].host /\ work'[r].phase = work[r].phase
      /\ work'[r].ok = work[r].ok /\ work'[r].keep = work[r].keep
      /\ work'[r].alive = work[r].alive /\ work'[r].age = work[r].age
      /\ work[r].phase = "apply"
  BY <1>1, <1>2 DEF Apply, InSession, Sessions
<1>4. UNCHANGED <<kind, status, reviewed, planKey, object, robbed, late, ring, dir>>
  BY DEF Apply, store, host
<1>5. RowFine(r)'
  BY <1>3, <1>4 DEF RunFine, RowFine, Working, Saves, Closing
<1>6. PlanFine(r)'
  BY <1>1, <1>3, <1>4 DEF RunFine, RowFine, PlanFine, NeedsItsPlan, WillWait
<1>7. KeyFine(r)'
  BY <1>3, <1>4 DEF RunFine, KeyFine, InHand
<1>8. WorkspaceFine(r)'
  BY <1>3 DEF WorkspaceFine, Restored
<1>9. Onward(r)
  BY <1>1, <1>3, <1>4 DEF Onward
<1>. QED BY <1>5, <1>6, <1>7, <1>8, <1>9, OnwardStep DEF RunFine, SessionSteps

LEMMA UploadStep ==
  ASSUME IInv, TypeOK', NEW r \in Runs, UploadPlan(r)
  PROVE  IInv'
<1>. TypeOK /\ RunFine(r)
  BY DEF IInv
<1>1. Working(r) /\ work[r] \in Sessions /\ Workspace(r) \in Workspaces
  BY HasHost DEF RunFine, UploadPlan, InSession
<1>2. work'[r] = [work[r] EXCEPT !.at = "writing_plan"]
  BY <1>1, GoIsTyped DEF UploadPlan, Places
<1>3. /\ work[r].at = "saving_plan" /\ work'[r].at = "writing_plan" /\ work[r].alive
      /\ work'[r].host = work[r].host /\ work'[r].phase = work[r].phase
      /\ work'[r].ok = work[r].ok /\ work'[r].keep = work[r].keep
      /\ work'[r].alive = work[r].alive /\ work'[r].age = work[r].age
  BY <1>1, <1>2 DEF UploadPlan, InSession, Sessions
<1>4. UNCHANGED <<kind, status, reviewed, robbed, late, ring, dir>>
  BY DEF UploadPlan, host
<1>5. RowFine(r)'
  BY <1>3, <1>4 DEF RunFine, RowFine, Working, Saves, Closing
<1>6. work[r].phase = "plan"
  BY <1>1, <1>3 DEF RunFine, RowFine
<1>7. work[r].host \in Hosts
  BY HasHost, <1>3 DEF RunFine
<1>8. Workspace(r).plan = reviewed[r] /\ reviewed[r] \in Plans
  BY <1>1, <1>3, <1>7, NoneAssumption DEF RunFine, RowFine, WorkspaceFine, InHand
<1>9. PlanFine(r)'
  <2> DEFINE partly == [Seal(Workspace(r).plan, r) EXCEPT !.whole = FALSE]
  <2>1. object'[r] = partly /\ r \in planKey'
    BY DEF UploadPlan, SealPlanKey, PutObject, PlanKey, TypeOK
  <2>2. partly \in Bundles /\ partly.run = r /\ partly.plan = reviewed[r]
    BY <1>8 DEF Seal, Bundles
  <2>3. ~NeedsItsPlan(r)' /\ ~WillWait(r)'
    BY <1>1, <1>3, <1>4, <1>6 DEF RunFine, RowFine, NeedsItsPlan, WillWait, Closing
  <2>. QED BY <1>3, <1>4, <2>1, <2>2, <2>3, NoneAssumption DEF PlanFine, PlanKey
<1>10. KeyFine(r)'
  BY <1>3, <1>4 DEF RunFine, KeyFine, InHand
<1>11. WorkspaceFine(r)'
  BY <1>3 DEF WorkspaceFine, Restored
<1>12. Onward(r)
  BY <1>1, <1>3, <1>4 DEF Onward
<1>. QED BY <1>5, <1>9, <1>10, <1>11, <1>12, OnwardStep DEF RunFine, SessionSteps

LEMMA FinishUploadStep ==
  ASSUME IInv, TypeOK', NEW r \in Runs, FinishUpload(r)
  PROVE  IInv'
<1>. TypeOK /\ RunFine(r)
  BY DEF IInv
<1>1. Working(r) /\ work[r] \in Sessions
  BY HasHost DEF RunFine, FinishUpload, InSession
<1>2. work'[r] = [work[r] EXCEPT !.at = "releasing_key"]
  BY <1>1, GoIsTyped DEF FinishUpload, Places
<1>3. /\ work[r].at = "writing_plan" /\ work'[r].at = "releasing_key"
      /\ work'[r].host = work[r].host /\ work'[r].phase = work[r].phase
      /\ work'[r].ok = work[r].ok /\ work'[r].keep = work[r].keep
      /\ work'[r].alive = work[r].alive /\ work'[r].age = work[r].age
  BY <1>1, <1>2 DEF FinishUpload, InSession, Sessions
<1>4. UNCHANGED <<kind, status, reviewed, planKey, robbed, late, ring, dir>>
  BY DEF FinishUpload, host
<1>5. RowFine(r)'
  BY <1>3, <1>4 DEF RunFine, RowFine, Working, Saves, Closing
<1>6. PlanFine(r)'
  <2>1. /\ object[r] # None /\ object[r].run = r /\ object[r].plan = reviewed[r]
        /\ r \in planKey
    BY <1>3 DEF RunFine, PlanFine, PlanKey
  <2>2. object[r] \in Bundles
    BY <2>1, ObjectType
  <2> DEFINE whole == [object[r] EXCEPT !.whole = TRUE]
  <2>3. whole \in Bundles /\ whole.run = r /\ whole.plan = reviewed[r] /\ whole.whole
    BY <2>1, <2>2 DEF Bundles
  <2>4. object'[r] = whole
    BY <2>2 DEF FinishUpload, PlanKey, TypeOK, Bundles
  <2>. QED BY <1>3, <1>4, <2>1, <2>3, <2>4, NoneAssumption
           DEF PlanFine, PlanKey, OpensBundle
<1>7. KeyFine(r)'
  BY <1>3, <1>4 DEF RunFine, KeyFine, InHand
<1>8. WorkspaceFine(r)'
  BY <1>3 DEF WorkspaceFine, Restored
<1>9. Onward(r)
  BY <1>1, <1>3, <1>4 DEF Onward
<1>. QED BY <1>5, <1>6, <1>7, <1>8, <1>9, OnwardStep DEF RunFine, SessionSteps

LEMMA FailStep ==
  ASSUME IInv, TypeOK', NEW r \in Runs, Fail(r)
  PROVE  IInv'
<1>. TypeOK /\ RunFine(r)
  BY DEF IInv
<1>1. Working(r) /\ work[r] \in Sessions
  BY WorkType DEF Fail, Working
<1> DEFINE at == IF work[r].at \in {"waiting_for_executor", "preparing_workspace"}
                 THEN "finishing" ELSE "releasing_key"
<1>2. work'[r] = [work[r] EXCEPT !.ok = FALSE, !.at = at]
  BY <1>1 DEF Fail, TypeOK, Sessions
<1>3. /\ work'[r].at = at /\ ~work'[r].ok
      /\ work'[r].host = work[r].host /\ work'[r].phase = work[r].phase
      /\ work'[r].keep = work[r].keep
      /\ work'[r].alive = work[r].alive /\ work'[r].age = work[r].age
  <2>1. ASSUME NEW w \in Sessions, NEW a
        PROVE  LET v == [w EXCEPT !.ok = FALSE, !.at = a]
               IN /\ v.at = a /\ ~v.ok /\ v.host = w.host /\ v.phase = w.phase
                  /\ v.keep = w.keep /\ v.alive = w.alive /\ v.age = w.age
    BY DEF Sessions
  <2>. HIDE DEF at
  <2>. QED BY <1>1, <1>2, <2>1
<1>4. UNCHANGED <<kind, status, reviewed, planKey, object, robbed, late, ring, dir>>
  BY DEF Fail, store, host
<1>5. /\ work[r].at \notin Closing /\ at \in {"finishing", "releasing_key"}
      /\ at = "releasing_key" =>
           work[r].at \notin {"waiting_for_executor", "preparing_workspace"}
  BY DEF Fail, Closing
<1>. HIDE DEF at
<1>6. RowFine(r)'
  BY <1>1, <1>3, <1>4, <1>5 DEF RunFine, RowFine, Working, Saves, Closing
<1>7. PlanFine(r)'
  BY <1>1, <1>3, <1>4, <1>5 DEF RunFine, RowFine, PlanFine, NeedsItsPlan, WillWait
<1>8. KeyFine(r)'
  BY <1>1, <1>3, <1>4, <1>5 DEF RunFine, KeyFine, InHand, Closing, Working
<1>9. WorkspaceFine(r)'
  BY <1>3, <1>5 DEF WorkspaceFine, Restored
<1>10. Onward(r)
  BY <1>1, <1>3, <1>4, <1>5 DEF Onward, Closing
<1>. QED BY <1>6, <1>7, <1>8, <1>9, <1>10, OnwardStep DEF RunFine, SessionSteps

\* The last two activities and their being skipped.
LEMMA CloseStep ==
  ASSUME IInv, TypeOK', NEW r \in Runs,
         ReleaseRunKey(r) \/ CleanupWorkspace(r) \/ SkipClosing(r)
  PROVE  IInv'
<1>. TypeOK /\ RunFine(r)
  BY DEF IInv
<1>1. /\ work[r].at \in {"releasing_key", "cleaning_up"}
      /\ Working(r) /\ work[r] \in Sessions
  BY WorkType DEF ReleaseRunKey, CleanupWorkspace, SkipClosing, InSession, Working
<1>2. PICK at \in {"cleaning_up", "finishing"} :
        /\ work[r].at = "cleaning_up" => at = "finishing"
        /\ Go(r, at)
  BY DEF ReleaseRunKey, CleanupWorkspace, SkipClosing, InSession
<1>3. /\ work'[r].at = at
      /\ work'[r].host = work[r].host /\ work'[r].phase = work[r].phase
      /\ work'[r].ok = work[r].ok /\ work'[r].keep = work[r].keep
      /\ work'[r].alive = work[r].alive /\ work'[r].age = work[r].age
  <2>1. work'[r] = [work[r] EXCEPT !.at = at]
    BY <1>1, <1>2, GoIsTyped DEF Places
  <2>. QED BY <1>1, <2>1 DEF Sessions
<1>4. UNCHANGED <<kind, status, reviewed, planKey, robbed, late>>
  BY DEF ReleaseRunKey, CleanupWorkspace, SkipClosing, store, host
<1>5. RowFine(r)'
  BY <1>1, <1>3, <1>4 DEF RunFine, RowFine, Working, Saves, Closing
<1>6. work[r].phase = "plan" => object' = object
  BY DEF ReleaseRunKey, CleanupWorkspace, SkipClosing, store, DeletesPlan
<1>7. PlanFine(r)'
  <2>1. ~NeedsItsPlan(r)' /\ work'[r].at # "writing_plan"
    BY <1>1, <1>3, <1>4 DEF RunFine, RowFine, NeedsItsPlan
  <2>2. WillWait(r)' => WillWait(r) /\ object' = object
    BY <1>1, <1>3, <1>6 DEF RunFine, RowFine, WillWait, Closing
  <2>. QED BY <1>4, <2>1, <2>2 DEF RunFine, PlanFine, OpensBundle, PlanKey
<1>8. KeyFine(r)' /\ WorkspaceFine(r)'
  BY <1>3 DEF KeyFine, WorkspaceFine, Restored
<1>9. Onward(r)
  BY <1>1, <1>2, <1>3, <1>4 DEF Onward
<1>. QED BY <1>5, <1>7, <1>8, <1>9, OnwardStep DEF RunFine, SessionSteps

LEMMA ExpireStep ==
  ASSUME IInv, TypeOK', NEW r \in Runs, Expire(r)
  PROVE  IInv'
<1>. TypeOK /\ RunFine(r) /\ \A x \in late : LateFine(x)
  BY DEF IInv
<1>1. Working(r) /\ work[r] \in Sessions
  BY WorkType DEF Expire, InHand, Working
<1>2. /\ work'[r].at = work[r].at /\ work'[r].host = work[r].host
      /\ work'[r].phase = work[r].phase /\ work'[r].ok = work[r].ok
      /\ work'[r].keep = work[r].keep /\ ~work'[r].alive
  BY <1>1 DEF Expire, TypeOK, Sessions
<1>3. UNCHANGED <<kind, status, reviewed, planKey, object, robbed, late>>
  BY DEF Expire, store
<1>4. RowFine(r)'
  BY <1>2, <1>3 DEF RunFine, RowFine, Working, Saves
<1>5. PlanFine(r)'
  BY <1>2, <1>3 DEF RunFine, PlanFine, NeedsItsPlan, WillWait, Saves, OpensBundle, PlanKey
<1>6. KeyFine(r)' /\ WorkspaceFine(r)'
  BY <1>2 DEF KeyFine, WorkspaceFine, Restored, InHand
<1>7. \A x \in late : x.run # r \/ LateFine(x)'
  BY <1>1, <1>2, <1>3, OnwardActivities DEF Working, RunFine
<1>. QED BY <1>3, <1>4, <1>5, <1>6, <1>7, StepsApart, OneRunStep DEF RunFine

LEMMA CompleteStep ==
  ASSUME IInv, TypeOK', NEW r \in Runs, CompleteSession(r)
  PROVE  IInv'
<1>. TypeOK /\ RunFine(r) /\ \A x \in late : LateFine(x)
  BY DEF IInv
<1>1. Working(r) /\ work[r] \in Sessions /\ work[r].at = "finishing"
  BY WorkType DEF CompleteSession, Working
<1>2. work'[r] = NoWork /\ status'[r] = Outcome(r)
  BY DEF CompleteSession, SetStatus, TypeOK
<1>3. UNCHANGED <<kind, reviewed, object, robbed, late, ring, dir>>
  BY DEF CompleteSession, host
<1>4. \/ status'[r] = "over"
      \/ /\ status'[r] = "waiting_approval" /\ WillWait(r) /\ work[r].phase = "plan"
         /\ Saves(r) /\ planKey' = planKey
  BY <1>1, <1>2 DEF Outcome, WillWait, RunFine, RowFine, Closing, CompleteSession, SetStatus
<1>5. RowFine(r)'
  BY <1>2, <1>3, <1>4 DEF RowFine, Working, Saves, NoWork
<1>6. PlanFine(r)'
  BY <1>2, <1>3, <1>4 DEF RunFine, PlanFine, NeedsItsPlan, WillWait, NoWork, Closing,
     OpensBundle, PlanKey
<1>7. KeyFine(r)' /\ WorkspaceFine(r)'
  BY <1>2 DEF KeyFine, WorkspaceFine, Restored, InHand, NoWork
<1>8. ASSUME NEW x \in late, x.run = r
      PROVE  LateFine(x)'
  <2>1. CASE status'[r] = "over"
    BY <1>8, <2>1 DEF LateFine, Excused
  <2>2. CASE status'[r] = "waiting_approval" /\ WillWait(r) /\ work[r].phase = "plan"
    <3>1. x.phase = "plan" /\ x.do # "UploadPlan"
      BY <1>1, <1>8, <2>2 DEF RunFine, RowFine, LateFine, Excused, WillWait
    <3>. QED BY <1>8, <2>2, <3>1 DEF LateFine, Excused
  <2>. QED BY <1>4, <2>1, <2>2
<1>. QED BY <1>3, <1>5, <1>6, <1>7, <1>8, StepsApart, OneRunStep DEF RunFine, SessionSteps

LEMMA GiveUpStep ==
  ASSUME IInv, TypeOK', NEW r \in Runs, GiveUp(r)
  PROVE  IInv'
<1>. TypeOK /\ RunFine(r) /\ \A x \in late : LateFine(x)
  BY DEF IInv
<1>1. Working(r) /\ work[r] \in Sessions
  BY WorkType DEF GiveUp, Working
<1>2. UNCHANGED <<kind, status, reviewed, object, robbed, ring, dir>> /\ planKey \subseteq planKey'
  BY DEF GiveUp, host, SealPlanKey
<1>3. PICK do \in {"UploadPlan", "ReleaseRunKey", "CleanupWorkspace"} :
        /\ late' = late \cup {GivenUp(r, do)}
        /\ work'[r].host = work[r].host /\ work'[r].phase = work[r].phase
        /\ work'[r].keep = work[r].keep /\ work'[r].age = work[r].age
        /\ \/ /\ do = "UploadPlan" /\ work[r].at \in {"saving_plan", "writing_plan"}
              /\ work'[r].at = "releasing_key" /\ ~work'[r].ok
           \/ /\ do = "ReleaseRunKey" /\ work[r].at = "releasing_key"
              /\ work'[r].at = "cleaning_up" /\ work'[r].ok = work[r].ok
           \/ /\ do = "CleanupWorkspace" /\ work[r].at = "cleaning_up"
              /\ work'[r].at = "finishing" /\ work'[r].ok = work[r].ok
        /\ work'[r].alive = work[r].alive
  <2>1. ASSUME NEW w \in Sessions, NEW a
        PROVE  LET v == [w EXCEPT !.at = a]
               IN /\ v.at = a /\ v.ok = w.ok /\ v.host = w.host /\ v.phase = w.phase
                  /\ v.keep = w.keep /\ v.alive = w.alive /\ v.age = w.age
    BY DEF Sessions
  <2>2. ASSUME NEW w \in Sessions
        PROVE  LET v == [w EXCEPT !.at = "releasing_key", !.ok = FALSE]
               IN /\ v.at = "releasing_key" /\ ~v.ok /\ v.host = w.host /\ v.phase = w.phase
                  /\ v.keep = w.keep /\ v.alive = w.alive /\ v.age = w.age
    BY DEF Sessions
  <2>3. ASSUME NEW at \in {"cleaning_up", "finishing"}, Go(r, at)
        PROVE  work'[r] = [work[r] EXCEPT !.at = at]
    BY <1>1, <2>3, GoIsTyped DEF Places
  <2>4. ASSUME work' = [work EXCEPT ![r].at = "releasing_key", ![r].ok = FALSE]
        PROVE  work'[r] = [work[r] EXCEPT !.at = "releasing_key", !.ok = FALSE]
    BY <1>1, <2>4 DEF TypeOK, Sessions
  <2>5. CASE /\ work[r].at \in {"saving_plan", "writing_plan"}
             /\ late' = late \cup {GivenUp(r, "UploadPlan")}
             /\ work' = [work EXCEPT ![r].at = "releasing_key", ![r].ok = FALSE]
    BY <1>1, <2>2, <2>4, <2>5
  <2>6. CASE /\ work[r].at = "releasing_key"
             /\ late' = late \cup {GivenUp(r, "ReleaseRunKey")}
             /\ Go(r, "cleaning_up")
    <3>1. work'[r] = [work[r] EXCEPT !.at = "cleaning_up"]
      BY <2>3, <2>6
    <3>. QED BY <1>1, <2>1, <2>6, <3>1
  <2>7. CASE /\ work[r].at = "cleaning_up"
             /\ late' = late \cup {GivenUp(r, "CleanupWorkspace")}
             /\ Go(r, "finishing")
    <3>1. work'[r] = [work[r] EXCEPT !.at = "finishing"]
      BY <2>3, <2>7
    <3>. QED BY <1>1, <2>1, <2>7, <3>1
  <2>. QED BY <2>5, <2>6, <2>7 DEF GiveUp
<1>4. RowFine(r)'
  BY <1>1, <1>2, <1>3 DEF RunFine, RowFine, Working, Saves, Closing
<1>5. PlanFine(r)'
  <2>1. ~NeedsItsPlan(r)' /\ work'[r].at # "writing_plan"
    BY <1>1, <1>2, <1>3 DEF RunFine, RowFine, NeedsItsPlan
  <2>2. WillWait(r)' => WillWait(r)
    BY <1>3 DEF WillWait, Closing
  <2>. QED BY <1>2, <2>1, <2>2 DEF RunFine, PlanFine, OpensBundle, PlanKey
<1>6. KeyFine(r)'
  BY <1>2, <1>3 DEF RunFine, KeyFine, InHand
<1>7. WorkspaceFine(r)'
  BY <1>3 DEF WorkspaceFine, Restored
<1>8. ASSUME NEW x \in late, x.run = r
      PROVE  LateFine(x)'
  <2>1. x.do \in {"UploadPlan", "ReleaseRunKey", "CleanupWorkspace"}
    BY DEF TypeOK
  <2>2. work[r].at \in Past(x.do) => work'[r].at \in Past(x.do)
    BY <1>3, <2>1 DEF Past, Closing
  <2>. QED BY <1>1, <1>2, <1>3, <1>8, <2>2, OnwardActivities DEF RunFine
<1>9. ASSUME NEW x, x = GivenUp(r, do)
      PROVE  LateFine(x)'
  <2>1. x.do = do /\ x.run = r /\ x.phase = work[r].phase /\ x.plan = reviewed[r]
    BY <1>9 DEF GivenUp
  <2>2. do = "UploadPlan" => reviewed[r] \in Plans
    BY <1>1, <1>3 DEF RunFine, RowFine
  <2>3. work'[r].at \in Past(do) /\ Working(r)'
    BY <1>3 DEF Past, Closing, Working
  <2>. QED BY <1>3, <2>1, <2>2, <2>3 DEF LateFine, Excused
<1>10. \A x \in late' : (x \in late /\ x.run # r) \/ LateFine(x)'
  BY <1>3, <1>8, <1>9
<1>. QED BY <1>4, <1>5, <1>6, <1>7, <1>10, StepsApart, OneRunStep DEF RunFine

-----------------------------------------------------------------------------
(* The steps of executors and of time.                                     *)

\* An activity lands late: on a run that is over, on a session that has it
\* behind it, or on the apply that followed.
LEMMA RunLateStep ==
  ASSUME IInv, TypeOK', NEW x \in late, RunLate(x)
  PROVE  IInv'
<1> DEFINE r == x.run
<1>. TypeOK /\ LateFine(x)
  BY DEF IInv
<1>1. /\ r \in Runs /\ x.host \in Hosts
      /\ x.do \in {"UploadPlan", "ReleaseRunKey", "CleanupWorkspace"}
  BY DEF TypeOK
<1>2. RunFine(r)
  BY <1>1 DEF IInv
<1>3. UNCHANGED <<kind, status, reviewed, work, planKey>> /\ late' \subseteq late
  BY DEF RunLate
<1>. HIDE DEF r
<1>4. ASSUME NEW o \in Runs \ {r}
      PROVE  Same(o)
  <2>1. object'[o] = object[o] /\ ((o \in robbed') <=> (o \in robbed))
    BY DEF RunLate, PlanKey, TypeOK, r
  <2>2. \A h \in Hosts : dir'[h][o] = dir[h][o] /\ ring'[h][o] = ring[h][o]
    BY <1>1 DEF RunLate, RunWorkspacePath, Forget, TypeOK, r
  <2>. QED BY <1>3, <2>1, <2>2 DEF Same
<1>5. RowFine(r)'
  BY <1>2, <1>3 DEF RunFine, RowFine, Working, Saves
<1>6. object'[r] = object[r] \/ ~(NeedsItsPlan(r) \/ WillWait(r) \/ work[r].at = "writing_plan")
  <2>1. CASE x.do = "UploadPlan" \/ (x.do = "CleanupWorkspace" /\ x.phase = "apply")
    BY <1>2, <2>1 DEF LateFine, Excused, RunFine, RowFine, NeedsItsPlan, WillWait, Past,
       Closing, Working, r
  <2>2. CASE ~(x.do = "UploadPlan" \/ (x.do = "CleanupWorkspace" /\ x.phase = "apply"))
    BY <2>2 DEF RunLate, DeletesPlan
  <2>. QED BY <2>1, <2>2
<1>7. PlanFine(r)'
  BY <1>2, <1>3, <1>6 DEF RunFine, PlanFine, NeedsItsPlan, WillWait, Saves, OpensBundle, PlanKey
<1>8. \A y \in late' : y.run # r \/ LateFine(y)'
  BY <1>3 DEF IInv, LateFine, Excused, Working, Saves
<1>9. CASE Working(r) /\ work[r].phase # x.phase
  <2>1. r \in robbed'
    BY <1>9 DEF RunLate, Working, r
  <2>2. KeyFine(r)'
    BY <2>1 DEF KeyFine
  <2>3. work[r].phase = "apply"
    BY <1>2, <1>9 DEF LateFine, Excused, RunFine, RowFine, r
  <2>4. \A h \in Hosts : dir'[h][r] \in {dir[h][r], None}
    BY <1>1 DEF RunLate, RunWorkspacePath, TypeOK, r
  <2>5. Restored(r)' => Restored(r) /\ work[r].host \in Hosts
    BY <1>1, <1>2, <1>3, HasHost DEF Restored, InHand, Saves, RunFine
  <2>6. work[r].at # "saving_plan"
    BY <1>2, <1>9, <2>3 DEF RunFine, RowFine
  <2>7. Restored(r)' => Workspace(r)' = Workspace(r) \/ Workspace(r)' = None
    BY <1>3, <2>4, <2>5 DEF Workspace, RunWorkspacePath
  <2>8. WorkspaceFine(r)'
    BY <1>2, <1>3, <2>1, <2>5, <2>6, <2>7 DEF RunFine, WorkspaceFine
  <2>. QED BY <1>3, <1>4, <1>5, <1>7, <2>2, <2>8, <1>1, <1>8, OneRunStep DEF RunFine
<1>10. CASE ~(Working(r) /\ work[r].phase # x.phase)
  <2>1. robbed' = robbed
    BY <1>10 DEF RunLate, Working, r
  <2>2. Working(r) => work[r].at \in Past(x.do)
    BY <1>2, <1>10 DEF LateFine, Excused, RunFine, RowFine, r
  <2>3. KeyFine(r)'
    <3>1. CASE x.do = "ReleaseRunKey"
      BY <1>3, <2>2, <3>1 DEF KeyFine, InHand, Past, Working
    <3>2. CASE x.do # "ReleaseRunKey"
      BY <1>2, <1>3, <2>1, <3>2 DEF RunLate, RunFine, KeyFine, InHand
    <3>. QED BY <3>1, <3>2
  <2>4. WorkspaceFine(r)'
    BY <1>1, <1>3, <2>2 DEF WorkspaceFine, Restored, InHand, Past, Closing, Working
  <2>. QED BY <1>3, <1>4, <1>5, <1>7, <2>3, <2>4, <1>1, <1>8, OneRunStep DEF RunFine
<1>. QED BY <1>9, <1>10

\* A restart takes keys and sessions; the session it takes is no longer in hand.
LEMMA RestartStep ==
  ASSUME IInv, TypeOK', NEW h \in Hosts, Restart(h)
  PROVE  IInv'
<1>. TypeOK
  BY DEF IInv
<1>1. UNCHANGED <<kind, status, reviewed, planKey, object, dir, robbed>> /\ late' \subseteq late
  BY DEF Restart, store
<1>2. ASSUME NEW o \in Runs
      PROVE  /\ work'[o].at = work[o].at
             /\ Working(o) =>
                  /\ work'[o].host = work[o].host /\ work'[o].phase = work[o].phase
                  /\ work'[o].ok = work[o].ok /\ work'[o].keep = work[o].keep
                  /\ work'[o].age = work[o].age
                  /\ IF work[o].host = h THEN ~work'[o].alive
                     ELSE work'[o].alive = work[o].alive
  <2>1. CASE Working(o) /\ work[o].host = h
    <3>1. work[o] \in Sessions
      BY <2>1, WorkType
    <3>2. work'[o] = [work[o] EXCEPT !.alive = FALSE]
      BY <2>1 DEF Restart, Working
    <3>. QED BY <2>1, <3>1, <3>2 DEF Sessions
  <2>2. CASE ~(Working(o) /\ work[o].host = h)
    BY <2>2 DEF Restart, Working
  <2>. QED BY <2>1, <2>2
<1>3. ASSUME NEW o \in Runs
      PROVE  RunFine(o)'
  <2>. RunFine(o)
    BY DEF IInv
  <2>1. RowFine(o)'
    BY <1>1, <1>2 DEF RunFine, RowFine, Working, Saves
  <2>2. PlanFine(o)'
    BY <1>1, <1>2 DEF RunFine, PlanFine, NeedsItsPlan, WillWait, Saves, OpensBundle,
       PlanKey, Working, Closing
  <2>3. InHand(o)' => InHand(o) /\ work[o].host \in Hosts \ {h}
    BY <1>2, WorkType DEF InHand, Working, Sessions
  <2>4. KeyFine(o)'
    <3>1. InHand(o)' => ring'[work[o].host][o] = ring[work[o].host][o]
      BY <2>3 DEF Restart, TypeOK
    <3>. QED BY <1>1, <1>2, <2>3, <3>1 DEF RunFine, KeyFine, InHand, Working
  <2>5. WorkspaceFine(o)'
    BY <1>1, <1>2, <2>3
       DEF RunFine, WorkspaceFine, Restored, Saves, Workspace, RunWorkspacePath, InHand, Working
  <2>. QED BY <2>1, <2>2, <2>4, <2>5 DEF RunFine
<1>4. ASSUME NEW x \in late
      PROVE  LateFine(x)'
  <2>1. LateFine(x) /\ x.run \in Runs
    BY DEF IInv, TypeOK
  <2>. QED BY <1>1, <1>2, <2>1 DEF LateFine, Excused, Working, Saves
<1>. QED BY <1>1, <1>3, <1>4 DEF IInv

\* A tick makes a session and its key older together.
LEMMA TickStep ==
  ASSUME IInv, TypeOK', Tick
  PROVE  IInv'
<1>. TypeOK
  BY DEF IInv
<1>1. UNCHANGED <<kind, status, reviewed, planKey, object, dir, robbed, late>>
  BY DEF Tick, store
<1>2. ASSUME NEW o \in Runs
      PROVE  /\ work'[o].at = work[o].at
             /\ Working(o) =>
                  /\ work'[o].host = work[o].host /\ work'[o].phase = work[o].phase
                  /\ work'[o].ok = work[o].ok /\ work'[o].keep = work[o].keep
                  /\ work'[o].alive = work[o].alive
             /\ InHand(o) => work'[o].age = work[o].age + 1
  <2>1. CASE InHand(o)
    <3>1. work[o] \in Sessions
      BY <2>1, WorkType DEF InHand, Working
    <3>2. work'[o] = [work[o] EXCEPT !.age = @ + 1]
      BY <2>1 DEF Tick
    <3>. QED BY <2>1, <3>1, <3>2 DEF Sessions
  <2>2. CASE ~InHand(o)
    BY <2>2 DEF Tick
  <2>. QED BY <2>1, <2>2
<1>3. ASSUME NEW o \in Runs
      PROVE  RunFine(o)'
  <2>. RunFine(o)
    BY DEF IInv
  <2>1. RowFine(o)'
    BY <1>1, <1>2 DEF RunFine, RowFine, Working, Saves
  <2>2. PlanFine(o)'
    BY <1>1, <1>2 DEF RunFine, PlanFine, NeedsItsPlan, WillWait, Saves, OpensBundle,
       PlanKey, Working, Closing
  <2>3. InHand(o)' => InHand(o) /\ work[o].host \in Hosts /\ work[o].age \in Nat
    BY <1>2, WorkType, SavedPlanAssumption DEF InHand, Working, Sessions
  <2>4. KeyFine(o)'
    <3> SUFFICES ASSUME InHand(o)', o \notin robbed,
                        work[o].at \notin {"preparing_workspace", "cleaning_up", "finishing"}
                 PROVE  LET key == ring'[work[o].host][o] IN
                        /\ key # None /\ key.phase = work[o].phase
                        /\ key.age <= work[o].age + 1
      BY <1>1, <1>2, <2>3 DEF KeyFine, InHand, Working
    <3> DEFINE key == ring[work[o].host][o]
    <3>1. key # None /\ key.phase = work[o].phase /\ key.age <= work[o].age
      BY <2>3 DEF RunFine, KeyFine
    <3>2. key \in Keys /\ work[o].host \in Hosts
      BY <2>3, <3>1, WorkspaceType
    <3>3. ring'[work[o].host][o] =
            IF key.age <= KeyTTL THEN [key EXCEPT !.age = @ + 1] ELSE key
      BY <3>1, <3>2 DEF Tick
    <3>4. key.age <= KeyTTL => [key EXCEPT !.age = @ + 1] \in Keys
      BY <3>2, SavedPlanAssumption DEF Keys
    <3>5. /\ [key EXCEPT !.age = @ + 1].age = key.age + 1
          /\ [key EXCEPT !.age = @ + 1].phase = key.phase
      BY <3>2 DEF Keys
    <3>6. key.age \in Nat
      BY <3>2, SavedPlanAssumption DEF Keys
    <3>. HIDE DEF key
    <3>. QED BY <2>3, <3>1, <3>3, <3>4, <3>5, <3>6, NoneAssumption
  <2>5. WorkspaceFine(o)'
    BY <1>1, <1>2, <2>3
       DEF RunFine, WorkspaceFine, Restored, Saves, Workspace, RunWorkspacePath, InHand, Working
  <2>. QED BY <2>1, <2>2, <2>4, <2>5 DEF RunFine
<1>4. ASSUME NEW x \in late
      PROVE  LateFine(x)'
  <2>1. LateFine(x) /\ x.run \in Runs
    BY DEF IInv, TypeOK
  <2>. QED BY <1>1, <1>2, <2>1 DEF LateFine, Excused, Working, Saves
<1>. QED BY <1>1, <1>3, <1>4 DEF IInv

LEMMA StepInvariant == IInv /\ [Next]_vars => IInv'
<1> SUFFICES ASSUME IInv, [Next]_vars PROVE IInv'
  OBVIOUS
<1>. TypeOK'
  BY StepTypes
<1>1. ASSUME NEW r \in Runs, SessionSteps(r)
      PROVE  IInv'
  BY <1>1, CreateSessionStep, PrepareStep, FetchStep, DownloadStep, InitializeStep,
     PlanStep, ApplyStep, UploadStep, FinishUploadStep, FailStep, CloseStep, CompleteStep
     DEF SessionSteps
<1>2. ASSUME NEW r \in Runs,
             StartPlan(r) \/ StartApply(r) \/ Decide(r) \/ GiveUp(r) \/ Expire(r)
      PROVE  IInv'
  BY <1>2, BeginStep, DecideStep, GiveUpStep, ExpireStep
<1>3. CASE (\E x \in late : RunLate(x)) \/ (\E h \in Hosts : Restart(h)) \/ Tick
  BY <1>3, RunLateStep, RestartStep, TickStep
<1>4. CASE UNCHANGED vars
  BY <1>4 DEF vars, store, host, IInv, TypeOK, RunFine, RowFine, PlanFine, KeyFine,
     WorkspaceFine, LateFine, Excused, Working, Saves, NeedsItsPlan, WillWait,
     OpensBundle, InHand, Restored, Workspace
<1>. QED BY <1>1, <1>2, <1>3, <1>4 DEF Next

-----------------------------------------------------------------------------
(* What follows.                                                           *)

\* The inductive invariant holds in every behaviour.
THEOREM SavedPlanInvariant == Spec => []IInv
<1>. QED BY InitialInvariant, StepInvariant, PTL DEF Spec

\* Every variable keeps its type: no step reads a workspace, a key or a bundle
\* that is not one, restarts and late activities included.
THEOREM TypeCorrect == Spec => []TypeOK
<1>1. IInv => TypeOK
  BY DEF IInv
<1>. QED BY <1>1, SavedPlanInvariant, PTL

\* A run waiting for its review, or approved and not yet restored, has its plan
\* in the artifact store, whole, as reviewed, with the key that opens it,
\* however many uploads, cleanups and executors fail or land late.
THEOREM ReviewsHaveTheirPlan == Spec => []ReviewableRunsHaveTheirPlan
<1>1. IInv => ReviewableRunsHaveTheirPlan
  BY DEF IInv, RunFine, PlanFine, ReviewableRunsHaveTheirPlan
<1>. QED BY <1>1, SavedPlanInvariant, PTL

\* A session whose executor lives finds its key, and an apply that reaches tofu
\* the reviewed plan and its providers, unless a late activity of the run's own
\* plan session took them.
THEOREM SessionsFindWhatTheyNeed == Spec => []SessionFindsWhatItNeeds
<1>1. IInv => SessionFindsWhatItNeeds
  <2> SUFFICES ASSUME IInv, NEW r \in Runs, InHand(r), r \notin robbed
               PROVE  /\ work[r].at \notin {"preparing_workspace", "cleaning_up", "finishing"}
                           => Opens(r)
                      /\ Saves(r) /\ InSession(r, "terraform") /\ work[r].phase = "apply" =>
                           /\ Workspace(r) # None
                           /\ Workspace(r).plan = reviewed[r]
                           /\ Workspace(r).installed = reviewed[r].with
    BY DEF SessionFindsWhatItNeeds
  <2>1. KeyFine(r) /\ WorkspaceFine(r)
    BY DEF IInv, RunFine
  <2>. QED BY <2>1 DEF KeyFine, WorkspaceFine, Restored, Opens, InSession
<1>. QED BY <1>1, SavedPlanInvariant, PTL

\* What an approved run applies is the plan that was reviewed, with the
\* providers it was made with: robbed or not, as tofu does not start in a
\* workspace that is gone.
THEOREM ReviewedIsApplied == Spec => AppliesWhatWasReviewed
<1>1. IInv /\ [Next]_vars =>
        [\A r \in Runs : Saves(r) /\ InSession(r, "terraform") /\ work[r].phase = "apply"
                         /\ work'[r].at = "releasing_key" /\ work'[r].ok =>
           /\ Workspace(r).plan = reviewed[r]
           /\ Workspace(r).installed = reviewed[r].with]_vars
  <2> SUFFICES ASSUME IInv, Next, NEW r \in Runs, Saves(r), InSession(r, "terraform"),
                      work[r].phase = "apply", work'[r].at = "releasing_key", work'[r].ok
               PROVE  /\ Workspace(r).plan = reviewed[r]
                      /\ Workspace(r).installed = reviewed[r].with
    OBVIOUS
  <2>. TypeOK /\ RunFine(r)
    BY DEF IInv
  <2>1. Workspace(r) # None
    <3>1. CASE Apply(r)
      BY <3>1 DEF Apply, CanRun
    <3>2. ASSUME ~Apply(r)
          PROVE  FALSE
      <4>1. work[r].at = "terraform"
        BY DEF InSession
      <4>2. work'[r] # work[r]
        BY <4>1
      <4>3. ~Same(r)
        BY <4>2 DEF Same
      <4>4. ~\E x \in late : RunLate(x)
        BY <4>2 DEF RunLate
      <4>5. work[r] \in Sessions
        BY <4>1, WorkType DEF Working
      <4>6. ~Tick /\ (~\E h \in Hosts : Restart(h)) /\ ~Expire(r)
        <5>1. /\ [work[r] EXCEPT !.alive = FALSE].at = "terraform"
              /\ [work[r] EXCEPT !.age = @ + 1].at = "terraform"
          BY <4>1, <4>5 DEF Sessions
        <5>. QED BY <4>2, <5>1 DEF Tick, Restart, Expire, TypeOK
      <4>7. ~(StartPlan(r) \/ StartApply(r) \/ Decide(r) \/ GiveUp(r))
        BY <4>1, <4>2 DEF StartPlan, StartApply, Decide, GiveUp, RunFine, RowFine, Working
      <4>8. ~Fail(r)
        <5>1. [work[r] EXCEPT !.ok = FALSE, !.at = "releasing_key"].ok = FALSE
          BY <4>5 DEF Sessions
        <5>2. Fail(r) => work'[r] = [work[r] EXCEPT !.ok = FALSE, !.at = "releasing_key"]
          BY <4>1, <4>5 DEF Fail, TypeOK, Sessions
        <5>. QED BY <5>1, <5>2
      <4>9. ~SessionSteps(r)
        <5>1. ~\E changes \in BOOLEAN : Plan(r, changes)
          BY DEF Plan
        <5>2. ~Initialize(r) /\ ~UploadPlan(r) /\ ~FinishUpload(r) /\ ~ReleaseRunKey(r)
              /\ ~CleanupWorkspace(r) /\ ~SkipClosing(r) /\ ~CompleteSession(r)
          BY <4>1 DEF Initialize, UploadPlan, FinishUpload, ReleaseRunKey, CleanupWorkspace,
             SkipClosing, CompleteSession, InSession
        <5>3. ~PrepareWorkspace(r) /\ ~FetchSource(r) /\ ~DownloadPlan(r)
              /\ ~\E h \in Hosts : CreateSession(r, h)
          BY <4>1 DEF PrepareWorkspace, FetchSource, DownloadPlan, CreateSession, InSession
        <5>. QED BY <3>2, <4>8, <5>1, <5>2, <5>3 DEF SessionSteps
      <4>. QED BY <4>3, <4>4, <4>6, <4>7, <4>9, StepsApart DEF Next
    <3>. QED BY <3>1, <3>2
  <2>2. Restored(r)
    BY HasHost, NoneAssumption DEF Restored, InHand, InSession, RunFine, RowFine
  <2>. QED BY <2>1, <2>2 DEF RunFine, WorkspaceFine, InSession
<1>. QED BY <1>1, SavedPlanInvariant, PTL DEF Spec, AppliesWhatWasReviewed
=============================================================================
