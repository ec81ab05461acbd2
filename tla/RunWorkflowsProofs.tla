-------------------------- MODULE RunWorkflowsProofs --------------------------
(***************************************************************************)
(* What the plan and apply workflows guarantee, proved for any runs, stack *)
(* templates and snapshots, and any number of calls that go wrong.         *)
(***************************************************************************)
EXTENDS RunWorkflows, RunStoreProofs, SequenceTheorems

-----------------------------------------------------------------------------
(* The inductive invariant.                                                *)

\* What the program of a workflow has behind it.
Before(s, i, call) == \E j \in 1 .. i - 1 : s[j] = call
Past(r, p, call) == Before(Program(r, p), at[r][p].next, call)

Begin(r, p) == at[r][p].mode = "idle" \/ (at[r][p].mode = "calling" /\ at[r][p].next = 1)

Over(r, p) == execution[r][p] \in {"succeeded", "failed"} \/ status[r] \in Terminal

\* Where a workflow may be, and what its execution's row says by then.
WorkflowFine(r, p) ==
  LET w == at[r][p] IN
  /\ w.mode # "idle" => <<r, p>> \in intents /\ w.next \in 1 .. Len(Program(r, p))
  /\ w.mode = "idle" => w.next = 0
  /\ w.next > 1 \/ w.mode \in {"calling", "working", "closing"} => Carries(r, p)
  /\ w.mode = "working" => Program(r, p)[w.next].do = "step"
  /\ w.mode = "closing" => w.next > 1
  /\ Begin(r, p) => execution[r][p] = "none"
  /\ w.next > 1 => execution[r][p] # "none"
  /\ w.next > 1 /\ w.mode \in {"calling", "working"} => Carrying(r, p)
  /\ w.mode = "done" => r \in unrecorded \/ Over(r, p)

\* Which workflows a run can have.
IntentFine(r, p) ==
  <<r, p>> \in intents =>
    /\ status[r] # "absent"
    /\ IF p = "plan" THEN ~autoApprove[r] ELSE autoApprove[r] \/ r \in approvals

\* What the store's general client does not guarantee and these callers do.
RunFine(r) ==
  /\ r \in approvals =>
       /\ execution[r]["plan"] = "succeeded"
       /\ status[r] \notin {"absent", "queued", "waiting_approval"}
  /\ autoApprove[r] => operation[r] = "apply" /\ execution[r]["plan"] = "none"

\* A call that may still commit is the one its workflow stopped at, or its last.
LateFine(l) ==
  /\ l.run \in Runs /\ l.phase \in Phases /\ l.changes \in BOOLEAN
  /\ LET w == at[l.run][l.phase] IN
     \/ l.call = Do("failed") /\ w.mode = "done" /\ l.run \in unrecorded
     \/ /\ w.mode \in {"closing", "failing", "done"} /\ Carries(l.run, l.phase)
        /\ l.call = Program(l.run, l.phase)[w.next] /\ l.call.do # "close"
        /\ l.changes = w.changes

\* The plan's key and file are there before the plan waits.
SavedFine(r) ==
  /\ Carrying(r, "plan") =>
       /\ Past(r, "plan", Do("create_key")) => planKey[r]
       /\ Past(r, "plan", Step("saving_plan")) => r \in saved
  /\ status[r] \in {"waiting_approval", "approved"} => planKey[r] /\ r \in saved

Deployed(r) ==
  LET live == deployed[template[r]] IN
  IF operation[r] = "destroy" THEN live = NoRun
                              ELSE live \in Runs /\ snapshot[live] = snapshot[r]

\* Recorded as the last applied, unless a run that is over took the record late.
Live(r) ==
  LET last == lastAppliedRun[template[r]] IN
  last = r \/ (LateWrites /\ last \in {q \in Runs : status[q] \in Terminal})

\* What a run has done by the time its program is past doing it.
DeedsFine(r) ==
  /\ Carrying(r, "apply") =>
       /\ Past(r, "apply", Step("applying")) => Deployed(r)
       /\ Past(r, "apply", Event("applied")) => Live(r)
  /\ Carrying(r, "plan") /\ ~at[r]["plan"].changes =>
       /\ Past(r, "plan", Step("planning")) /\ operation[r] # "plan" => Deployed(r)
       /\ Past(r, "plan", Do("finish")) /\ operation[r] = "apply" => Live(r)
  /\ \A p \in Phases : Carrying(r, p) /\ Past(r, p, Event("destroyed")) =>
       lifecycle[template[r]] = "destroyed"

DestroyingFine(t) ==
  lifecycle[t] = "destroying" =>
    \E r \in Runs : template[r] = t /\ operation[r] = "destroy" /\ Carrying(r, "apply")

\* What is deployed was put there by a run.
DeployedFine(t) == deployed[t] \in Runs => status[deployed[t]] # "absent"

WInv ==
  /\ IInv /\ WorkflowsTypeOK
  /\ \A r \in Runs :
       /\ RunFine(r) /\ SavedFine(r) /\ DeedsFine(r)
       /\ \A p \in Phases : WorkflowFine(r, p) /\ IntentFine(r, p)
  /\ \A l \in late : LateFine(l) /\ LateWrites
  /\ \A t \in StackTemplates : DestroyingFine(t) /\ DeployedFine(t)

-----------------------------------------------------------------------------
(* The programs, call by call: a plan that waits for its review, one that  *)
(* finds its destroy done, any other plan; an apply nobody reviews, one of *)
(* a reviewed plan, and a destroy.                                         *)

PlanWaits ==
  <<Do("running"), Step("waiting_for_executor"), Step("preparing_workspace"),
    Step("fetching_source"), Step("initializing"), Step("selecting_workspace"),
    Step("planning"), Do("create_key"), Step("saving_plan"), Do("close"), Do("finish")>>

PlanDestroyed ==
  <<Do("running"), Step("waiting_for_executor"), Step("preparing_workspace"),
    Step("fetching_source"), Step("initializing"), Step("selecting_workspace"),
    Step("planning"), Do("close"), Do("finish"), Event("destroyed"), Do("completed")>>

PlanEnds ==
  <<Do("running"), Step("waiting_for_executor"), Step("preparing_workspace"),
    Step("fetching_source"), Step("initializing"), Step("selecting_workspace"),
    Step("planning"), Do("close"), Do("finish"), Do("completed")>>

ApplyAuto ==
  <<Do("claim"), Step("waiting_for_executor"), Step("preparing_workspace"),
    Step("fetching_source"), Step("initializing"), Step("selecting_workspace"),
    Step("applying"), Event("applied"), Do("close"), Do("completed")>>

ApplyReviewed ==
  <<Do("claim"), Step("waiting_for_executor"), Step("preparing_workspace"),
    Step("fetching_source"), Do("read_key"), Step("restoring_plan"), Step("initializing"),
    Step("selecting_workspace"), Step("applying"), Event("applied"), Do("close"),
    Do("completed")>>

ApplyDestroy ==
  <<Do("claim"), Step("waiting_for_executor"), Step("preparing_workspace"),
    Step("fetching_source"), Do("read_key"), Step("restoring_plan"), Step("initializing"),
    Step("selecting_workspace"), Event("destroying"), Step("applying"), Event("destroyed"),
    Do("close"), Do("completed")>>

LEMMA PlanWaitsJoined ==
  ASSUME NEW r, NEW changes \in BOOLEAN, changes, operation[r] # "plan"
  PROVE  PlanProgram(r, changes) = PlanWaits
<1> DEFINE S == {Do("running"), Step("waiting_for_executor"), Step("preparing_workspace"),
                 Step("fetching_source"), Step("initializing"),
                 Step("selecting_workspace"), Step("planning"), Do("create_key"),
                 Step("saving_plan"), Do("close"), Do("finish")}
           s == <<Do("running")>>
                \o <<Step("waiting_for_executor"), Step("preparing_workspace")>>
                \o (<<Step("fetching_source")>> \o <<>>
                    \o <<Step("initializing"), Step("selecting_workspace")>>)
                \o <<Step("planning")>> \o <<Do("create_key"), Step("saving_plan")>>
                \o <<Do("close"), Do("finish")>> \o <<>> \o <<>>
           t == PlanWaits
<1>1. PlanProgram(r, changes) = s
  BY DEF PlanProgram, Open, Ready, When
<1>2. /\ Do("running") \in S /\ Step("waiting_for_executor") \in S
      /\ Step("preparing_workspace") \in S /\ Step("fetching_source") \in S
      /\ Step("initializing") \in S /\ Step("selecting_workspace") \in S
      /\ Step("planning") \in S /\ Do("create_key") \in S /\ Step("saving_plan") \in S
      /\ Do("close") \in S /\ Do("finish") \in S
  OBVIOUS
<1> HIDE DEF S
<1>3. /\ s \in Seq(S) /\ t \in Seq(S) /\ Len(s) = Len(t)
      /\ \A n \in 1 .. Len(s) : s[n] = t[n]
  BY <1>2 DEF PlanWaits
<1> HIDE DEF s, t
<1>4. s = t
  BY <1>3, SeqEqual
<1> QED BY <1>1, <1>4 DEF t

LEMMA PlanDestroyedJoined ==
  ASSUME NEW r, NEW changes \in BOOLEAN, ~changes, operation[r] = "destroy"
  PROVE  PlanProgram(r, changes) = PlanDestroyed
<1> DEFINE S == {Do("running"), Step("waiting_for_executor"), Step("preparing_workspace"),
                 Step("fetching_source"), Step("initializing"),
                 Step("selecting_workspace"), Step("planning"), Do("close"), Do("finish"),
                 Event("destroyed"), Do("completed")}
           s == <<Do("running")>>
                \o <<Step("waiting_for_executor"), Step("preparing_workspace")>>
                \o (<<Step("fetching_source")>> \o <<>>
                    \o <<Step("initializing"), Step("selecting_workspace")>>)
                \o <<Step("planning")>> \o <<>> \o <<Do("close"), Do("finish")>>
                \o <<Event("destroyed")>> \o <<Do("completed")>>
           t == PlanDestroyed
<1>1. PlanProgram(r, changes) = s
  BY DEF PlanProgram, Open, Ready, When
<1>2. /\ Do("running") \in S /\ Step("waiting_for_executor") \in S
      /\ Step("preparing_workspace") \in S /\ Step("fetching_source") \in S
      /\ Step("initializing") \in S /\ Step("selecting_workspace") \in S
      /\ Step("planning") \in S /\ Do("close") \in S /\ Do("finish") \in S
      /\ Event("destroyed") \in S /\ Do("completed") \in S
  OBVIOUS
<1> HIDE DEF S
<1>3. /\ s \in Seq(S) /\ t \in Seq(S) /\ Len(s) = Len(t)
      /\ \A n \in 1 .. Len(s) : s[n] = t[n]
  BY <1>2 DEF PlanDestroyed
<1> HIDE DEF s, t
<1>4. s = t
  BY <1>3, SeqEqual
<1> QED BY <1>1, <1>4 DEF t

LEMMA PlanEndsJoined ==
  ASSUME NEW r, NEW changes \in BOOLEAN,
         ~(changes /\ operation[r] # "plan"), ~(~changes /\ operation[r] = "destroy")
  PROVE  PlanProgram(r, changes) = PlanEnds
<1> DEFINE S == {Do("running"), Step("waiting_for_executor"), Step("preparing_workspace"),
                 Step("fetching_source"), Step("initializing"),
                 Step("selecting_workspace"), Step("planning"), Do("close"), Do("finish"),
                 Do("completed")}
           s == <<Do("running")>>
                \o <<Step("waiting_for_executor"), Step("preparing_workspace")>>
                \o (<<Step("fetching_source")>> \o <<>>
                    \o <<Step("initializing"), Step("selecting_workspace")>>)
                \o <<Step("planning")>> \o <<>> \o <<Do("close"), Do("finish")>> \o <<>>
                \o <<Do("completed")>>
           t == PlanEnds
<1>1. PlanProgram(r, changes) = s
  BY DEF PlanProgram, Open, Ready, When
<1>2. /\ Do("running") \in S /\ Step("waiting_for_executor") \in S
      /\ Step("preparing_workspace") \in S /\ Step("fetching_source") \in S
      /\ Step("initializing") \in S /\ Step("selecting_workspace") \in S
      /\ Step("planning") \in S /\ Do("close") \in S /\ Do("finish") \in S
      /\ Do("completed") \in S
  OBVIOUS
<1> HIDE DEF S
<1>3. /\ s \in Seq(S) /\ t \in Seq(S) /\ Len(s) = Len(t)
      /\ \A n \in 1 .. Len(s) : s[n] = t[n]
  BY <1>2 DEF PlanEnds
<1> HIDE DEF s, t
<1>4. s = t
  BY <1>3, SeqEqual
<1> QED BY <1>1, <1>4 DEF t

LEMMA ApplyAutoJoined ==
  ASSUME NEW r, autoApprove[r], operation[r] # "destroy"
  PROVE  ApplyProgram(r) = ApplyAuto
<1> DEFINE S == {Do("claim"), Step("waiting_for_executor"), Step("preparing_workspace"),
                 Step("fetching_source"), Step("initializing"),
                 Step("selecting_workspace"), Step("applying"), Event("applied"),
                 Do("close"), Do("completed")}
           s == <<Do("claim")>>
                \o <<Step("waiting_for_executor"), Step("preparing_workspace")>>
                \o (<<Step("fetching_source")>> \o <<>>
                    \o <<Step("initializing"), Step("selecting_workspace")>>)
                \o <<>>
                \o <<Step("applying"), Event("applied"), Do("close"), Do("completed")>>
           t == ApplyAuto
<1>1. ApplyProgram(r) = s
  BY DEF ApplyProgram, Open, Ready, When
<1>2. /\ Do("claim") \in S /\ Step("waiting_for_executor") \in S
      /\ Step("preparing_workspace") \in S /\ Step("fetching_source") \in S
      /\ Step("initializing") \in S /\ Step("selecting_workspace") \in S
      /\ Step("applying") \in S /\ Event("applied") \in S /\ Do("close") \in S
      /\ Do("completed") \in S
  OBVIOUS
<1> HIDE DEF S
<1>3. /\ s \in Seq(S) /\ t \in Seq(S) /\ Len(s) = Len(t)
      /\ \A n \in 1 .. Len(s) : s[n] = t[n]
  BY <1>2 DEF ApplyAuto
<1> HIDE DEF s, t
<1>4. s = t
  BY <1>3, SeqEqual
<1> QED BY <1>1, <1>4 DEF t

LEMMA ApplyReviewedJoined ==
  ASSUME NEW r, ~autoApprove[r], operation[r] # "destroy"
  PROVE  ApplyProgram(r) = ApplyReviewed
<1> DEFINE S == {Do("claim"), Step("waiting_for_executor"), Step("preparing_workspace"),
                 Step("fetching_source"), Do("read_key"), Step("restoring_plan"),
                 Step("initializing"), Step("selecting_workspace"), Step("applying"),
                 Event("applied"), Do("close"), Do("completed")}
           s == <<Do("claim")>>
                \o <<Step("waiting_for_executor"), Step("preparing_workspace")>>
                \o (<<Step("fetching_source")>> \o <<Do("read_key"), Step("restoring_plan")>>
                    \o <<Step("initializing"), Step("selecting_workspace")>>)
                \o <<>>
                \o <<Step("applying"), Event("applied"), Do("close"), Do("completed")>>
           t == ApplyReviewed
<1>1. ApplyProgram(r) = s
  BY DEF ApplyProgram, Open, Ready, When
<1>2. /\ Do("claim") \in S /\ Step("waiting_for_executor") \in S
      /\ Step("preparing_workspace") \in S /\ Step("fetching_source") \in S
      /\ Do("read_key") \in S /\ Step("restoring_plan") \in S
      /\ Step("initializing") \in S /\ Step("selecting_workspace") \in S
      /\ Step("applying") \in S /\ Event("applied") \in S /\ Do("close") \in S
      /\ Do("completed") \in S
  OBVIOUS
<1> HIDE DEF S
<1>3. /\ s \in Seq(S) /\ t \in Seq(S) /\ Len(s) = Len(t)
      /\ \A n \in 1 .. Len(s) : s[n] = t[n]
  BY <1>2 DEF ApplyReviewed
<1> HIDE DEF s, t
<1>4. s = t
  BY <1>3, SeqEqual
<1> QED BY <1>1, <1>4 DEF t

LEMMA ApplyDestroyJoined ==
  ASSUME NEW r, ~autoApprove[r], operation[r] = "destroy"
  PROVE  ApplyProgram(r) = ApplyDestroy
<1> DEFINE S == {Do("claim"), Step("waiting_for_executor"), Step("preparing_workspace"),
                 Step("fetching_source"), Do("read_key"), Step("restoring_plan"),
                 Step("initializing"), Step("selecting_workspace"), Event("destroying"),
                 Step("applying"), Event("destroyed"), Do("close"), Do("completed")}
           s == <<Do("claim")>>
                \o <<Step("waiting_for_executor"), Step("preparing_workspace")>>
                \o (<<Step("fetching_source")>> \o <<Do("read_key"), Step("restoring_plan")>>
                    \o <<Step("initializing"), Step("selecting_workspace")>>)
                \o <<Event("destroying")>>
                \o <<Step("applying"), Event("destroyed"), Do("close"), Do("completed")>>
           t == ApplyDestroy
<1>1. ApplyProgram(r) = s
  BY DEF ApplyProgram, Open, Ready, When
<1>2. /\ Do("claim") \in S /\ Step("waiting_for_executor") \in S
      /\ Step("preparing_workspace") \in S /\ Step("fetching_source") \in S
      /\ Do("read_key") \in S /\ Step("restoring_plan") \in S
      /\ Step("initializing") \in S /\ Step("selecting_workspace") \in S
      /\ Event("destroying") \in S /\ Step("applying") \in S /\ Event("destroyed") \in S
      /\ Do("close") \in S /\ Do("completed") \in S
  OBVIOUS
<1> HIDE DEF S
<1>3. /\ s \in Seq(S) /\ t \in Seq(S) /\ Len(s) = Len(t)
      /\ \A n \in 1 .. Len(s) : s[n] = t[n]
  BY <1>2 DEF ApplyDestroy
<1> HIDE DEF s, t
<1>4. s = t
  BY <1>3, SeqEqual
<1> QED BY <1>1, <1>4 DEF t
\* What a plan's program calls, and what each call has behind it.
PlanOrder(s, waits, destroys) ==
  /\ Len(s) \in 10 .. 13 /\ s[1] = Do("running") /\ s[7] = Step("planning")
  /\ \A i \in 1 .. Len(s) :
       /\ s[i].do \in {"running", "step", "create_key", "close", "finish", "event", "completed"}
       /\ s[i].do = "running" => i = 1
       /\ s[i].do = "step" => s[i] = Step(s[i].arg)
       /\ s[i].do = "step" => s[i].arg \in Steps \ {"applying"}
       /\ s[i].do = "event" => s[i].arg = "destroyed" /\ destroys
       /\ s[i].do = "step" /\ s[i].arg = "planning" => i = 7
       /\ i < 8 => s[i].do \in {"running", "step"} /\ s[i].arg # "saving_plan"
       /\ i = Len(s) => s[i].do = IF waits THEN "finish" ELSE "completed"
       /\ s[i].do = "finish" /\ waits =>
            i = Len(s) /\ Before(s, i, Do("create_key")) /\ Before(s, i, Step("saving_plan"))
       /\ s[i].do = "completed" =>
            /\ ~waits /\ i = Len(s)
            /\ Before(s, i, Step("planning")) /\ Before(s, i, Do("finish"))
            /\ destroys => Before(s, i, Event("destroyed"))

\* The same of an apply's.
ApplyOrder(s, destroy) ==
  /\ Len(s) \in 10 .. 13 /\ s[1] = Do("claim")
  /\ \A i \in 1 .. Len(s) :
       /\ s[i].do \in {"claim", "step", "read_key", "event", "close", "completed"}
       /\ s[i].do = "claim" => i = 1
       /\ s[i].do = "step" => s[i] = Step(s[i].arg)
       /\ s[i].do = "step" => s[i].arg \in Steps \ {"planning", "saving_plan"}
       /\ s[i].do = "event" =>
            s[i].arg \in IF destroy THEN {"destroying", "destroyed"} ELSE {"applied"}
       /\ s[i].do = "event" /\ s[i].arg = "destroying" => ~Before(s, i, Event("destroyed"))
       /\ s[i].do = "step" /\ s[i].arg = "applying" => ~Before(s, i, Step("applying"))
       /\ i = Len(s) => s[i].do = "completed"
       /\ s[i].do = "completed" =>
            /\ i = Len(s) /\ Before(s, i, Step("applying"))
            /\ Before(s, i, Event(IF destroy THEN "destroyed" ELSE "applied"))

LEMMA PlanWaitsOrder == PlanOrder(PlanWaits, TRUE, FALSE)
<1>1. Len(PlanWaits) = 11 /\ \A i \in 1 .. 11 : i \in 1 .. Len(PlanWaits)
  BY DEF PlanWaits
<1> QED BY <1>1, StepsAssumption DEF PlanWaits, PlanOrder, Before, Do, Step, Event

LEMMA PlanDestroyedOrder == PlanOrder(PlanDestroyed, FALSE, TRUE)
<1>1. Len(PlanDestroyed) = 11 /\ \A i \in 1 .. 11 : i \in 1 .. Len(PlanDestroyed)
  BY DEF PlanDestroyed
<1> QED BY <1>1, StepsAssumption DEF PlanDestroyed, PlanOrder, Before, Do, Step, Event

LEMMA PlanEndsOrder == PlanOrder(PlanEnds, FALSE, FALSE)
<1>1. Len(PlanEnds) = 10 /\ \A i \in 1 .. 10 : i \in 1 .. Len(PlanEnds)
  BY DEF PlanEnds
<1> QED BY <1>1, StepsAssumption DEF PlanEnds, PlanOrder, Before, Do, Step, Event

LEMMA ApplyAutoOrder == ApplyOrder(ApplyAuto, FALSE)
<1>1. Len(ApplyAuto) = 10 /\ \A i \in 1 .. 10 : i \in 1 .. Len(ApplyAuto)
  BY DEF ApplyAuto
<1> QED BY <1>1, StepsAssumption DEF ApplyAuto, ApplyOrder, Before, Do, Step, Event

LEMMA ApplyReviewedOrder == ApplyOrder(ApplyReviewed, FALSE)
<1>1. Len(ApplyReviewed) = 12 /\ \A i \in 1 .. 12 : i \in 1 .. Len(ApplyReviewed)
  BY DEF ApplyReviewed
<1> QED BY <1>1, StepsAssumption DEF ApplyReviewed, ApplyOrder, Before, Do, Step, Event

LEMMA ApplyDestroyOrder == ApplyOrder(ApplyDestroy, TRUE)
<1>1. Len(ApplyDestroy) = 13 /\ \A i \in 1 .. 13 : i \in 1 .. Len(ApplyDestroy)
  BY DEF ApplyDestroy
<1> QED BY <1>1, StepsAssumption DEF ApplyDestroy, ApplyOrder, Before, Do, Step, Event

LEMMA PlanCalls ==
  ASSUME NEW r, NEW changes \in BOOLEAN
  PROVE  PlanOrder(PlanProgram(r, changes), changes /\ operation[r] # "plan",
                   ~changes /\ operation[r] = "destroy")
<1>1. CASE changes /\ operation[r] # "plan"
  BY <1>1, PlanWaitsJoined, PlanWaitsOrder, Zenon
<1>2. CASE ~changes /\ operation[r] = "destroy"
  BY <1>2, PlanDestroyedJoined, PlanDestroyedOrder, Zenon
<1>3. CASE ~(changes /\ operation[r] # "plan") /\ ~(~changes /\ operation[r] = "destroy")
  BY <1>3, PlanEndsJoined, PlanEndsOrder, Zenon
<1> QED BY <1>1, <1>2, <1>3

LEMMA ApplyCalls ==
  ASSUME NEW r, operation[r] = "destroy" => ~autoApprove[r], autoApprove[r] \in BOOLEAN
  PROVE  ApplyOrder(ApplyProgram(r), operation[r] = "destroy")
<1>1. CASE operation[r] = "destroy"
  BY <1>1, ApplyDestroyJoined, ApplyDestroyOrder, Zenon
<1>2. CASE operation[r] # "destroy" /\ autoApprove[r]
  BY <1>2, ApplyAutoJoined, ApplyAutoOrder, Zenon
<1>3. CASE operation[r] # "destroy" /\ ~autoApprove[r]
  BY <1>3, ApplyReviewedJoined, ApplyReviewedOrder, Zenon
<1> QED BY <1>1, <1>2, <1>3

\* The calls of a run's program, by phase.
LEMMA ProgramCalls ==
  ASSUME WInv, NEW r \in Runs
  PROVE  /\ PlanOrder(Program(r, "plan"),
                      at[r]["plan"].changes /\ operation[r] # "plan",
                      ~at[r]["plan"].changes /\ operation[r] = "destroy")
         /\ ApplyOrder(Program(r, "apply"), operation[r] = "destroy")
<1>1. at[r]["plan"].changes \in BOOLEAN /\ autoApprove[r] \in BOOLEAN
  BY DEF WInv, WorkflowsTypeOK, TypeOK, Phases
<1>2. /\ Program(r, "plan") = PlanProgram(r, at[r]["plan"].changes)
      /\ Program(r, "apply") = ApplyProgram(r)
  BY DEF Program
<1>3. operation[r] = "destroy" => ~autoApprove[r]
  BY DEF WInv, RunFine
<1> QED BY <1>1, <1>2, <1>3, PlanCalls, ApplyCalls

-----------------------------------------------------------------------------
(* How a workflow moves.                                                   *)

\* Only the workflow of r's phase p moves.
OthersStay(r, p) ==
  /\ at' \in [Runs -> [Phases -> [mode : Modes, next : 0..20, changes : BOOLEAN]]]
  /\ \A q \in Runs, x \in Phases : (q # r \/ x # p) => at'[q][x] = at[q][x]

\* It goes to a call of the same program, in some mode.
Moves(r, p, mode, next) ==
  /\ OthersStay(r, p)
  /\ at'[r][p].mode = mode /\ at'[r][p].next = next
  /\ at'[r][p].changes = at[r][p].changes

LEMMA Put ==
  ASSUME WorkflowsTypeOK, NEW r \in Runs, NEW p \in Phases,
         NEW w \in [mode : Modes, next : 0..20, changes : BOOLEAN],
         at' = [at EXCEPT ![r][p] = w]
  PROVE  OthersStay(r, p) /\ at'[r][p] = w
  BY DEF WorkflowsTypeOK, OthersStay

LEMMA GotoMoves ==
  ASSUME WorkflowsTypeOK, NEW r \in Runs, NEW p \in Phases, NEW mode \in Modes,
         NEW next \in 0..20, Goto(r, p, mode, next)
  PROVE  Moves(r, p, mode, next)
<1> DEFINE Ws == [mode : Modes, next : 0..20, changes : BOOLEAN]
           f == [at[r][p] EXCEPT !.mode = mode]
           w == [f EXCEPT !.next = next]
<1>1. at \in [Runs -> [Phases -> Ws]] /\ at[r][p] \in Ws
  BY DEF WorkflowsTypeOK
<1>2. f \in Ws /\ f.mode = mode /\ f.changes = at[r][p].changes
  BY <1>1
<1> HIDE DEF f
<1>3. w \in Ws /\ w.mode = mode /\ w.next = next /\ w.changes = at[r][p].changes
  BY <1>2
<1>4. at' = [at EXCEPT ![r][p] = w]
  BY <1>1 DEF Goto, f
<1> HIDE DEF w, Ws
<1>5. OthersStay(r, p) /\ at'[r][p] = w
  BY <1>3, <1>4, Put DEF Ws
<1> QED BY <1>3, <1>5 DEF Moves

\* A workflow that keeps its changes keeps its program.
LEMMA ProgramKept ==
  ASSUME NEW r \in Runs, NEW p \in Phases, operation'[r] = operation[r],
         autoApprove'[r] = autoApprove[r], at'[r][p].changes = at[r][p].changes
  PROVE  Program(r, p)' = Program(r, p) /\ Carries(r, p)' = Carries(r, p)
  BY DEF Program, PlanProgram, ApplyProgram, Carries

\* What a workflow has behind it once it has made its call.
LEMMA PastKept ==
  ASSUME NEW r \in Runs, NEW p \in Phases, NEW call, Program(r, p)' = Program(r, p),
         at'[r][p].next = at[r][p].next
  PROVE  Past(r, p, call)' = Past(r, p, call)
  BY DEF Past, Before

LEMMA PastAdvances ==
  ASSUME NEW r \in Runs, NEW p \in Phases, NEW call, Program(r, p)' = Program(r, p),
         at[r][p].next \in Nat \ {0}, at'[r][p].next = at[r][p].next + 1
  PROVE  Past(r, p, call)' <=> Past(r, p, call) \/ Program(r, p)[at[r][p].next] = call
<1>1. Past(r, p, call)' <=> \E j \in 1 .. at[r][p].next : Program(r, p)[j] = call
  BY DEF Past, Before
<1>2. \A j : j \in 1 .. at[r][p].next <=>
              j \in 1 .. at[r][p].next - 1 \/ (j = at[r][p].next /\ 1 <= j)
  OBVIOUS
<1>3. Past(r, p, call) <=> \E j \in 1 .. at[r][p].next - 1 : Program(r, p)[j] = call
  BY DEF Past, Before
<1> QED BY <1>1, <1>2, <1>3

-----------------------------------------------------------------------------
(* What a workflow's call does to the tables, and what its reply tells.    *)

\* The invariant of one run.
OfRun(r) ==
  /\ RunInvariant(r) /\ RunFine(r) /\ SavedFine(r) /\ DeedsFine(r)
  /\ \A x \in Phases : WorkflowFine(r, x) /\ IntentFine(r, x)

LEMMA EachRun ==
  ASSUME WInv, NEW r \in Runs
  PROVE  TypeOK /\ WorkflowsTypeOK /\ OfRun(r)
<1>1. RunInvariant(r)
  BY InvariantByRun DEF WInv
<1> QED BY <1>1 DEF WInv, OfRun, WorkflowsTypeOK

\* A call that workflow p of r makes, or made and may still commit.
Legit(r, p, call, changes) ==
  /\ <<r, p>> \in intents
  /\ \/ call = Do("failed") /\ at[r][p].mode \in {"failing", "done"}
     \/ /\ at[r][p].mode \in {"calling", "closing", "failing", "done"} /\ Carries(r, p)
        /\ call = Program(r, p)[at[r][p].next] /\ call.do # "close"
        /\ changes = at[r][p].changes

\* What is known of such a call from the order of its program.
Ordered(r, p, call, changes) ==
  /\ call.do \in {"running", "claim", "step", "create_key", "read_key", "event",
                  "finish", "completed", "failed"}
  /\ call.do # "failed" => Carries(r, p) /\ changes = at[r][p].changes
  /\ call.do = "failed" => at[r][p].mode \in {"failing", "done"}
  /\ call.do \in {"running", "claim"} => at[r][p].next = 1
  /\ at[r][p].next = 1 => call.do \in {"running", "claim", "failed"}
  /\ call.do = "running" => p = "plan"
  /\ call.do = "claim" => p = "apply"
  /\ call.do = "step" => call.arg \in Steps
  /\ call.do = "event" =>
       /\ call.arg \in {"applied", "destroying", "destroyed"}
       /\ call.arg # "applied" => operation[r] = "destroy"
       /\ call.arg = "applied" => p = "apply"
       /\ call.arg = "destroying" => p = "apply" /\ ~Past(r, p, Event("destroyed"))
  /\ call.do = "create_key" => p = "plan"
  /\ call.do = "finish" =>
       /\ p = "plan"
       /\ changes /\ operation[r] # "plan" =>
            Past(r, p, Do("create_key")) /\ Past(r, p, Step("saving_plan"))
  /\ call.do = "completed" =>
       /\ p = "apply" => /\ Past(r, p, Step("applying"))
                         /\ operation[r] = "apply" => Past(r, p, Event("applied"))
       /\ p = "plan" /\ operation[r] # "plan" =>
            ~changes /\ Past(r, p, Step("planning")) /\ Past(r, p, Do("finish"))
       /\ operation[r] = "destroy" => Past(r, p, Event("destroyed"))

LEMMA LegitIsOrdered ==
  ASSUME WInv, NEW r \in Runs, NEW p \in Phases, NEW call, NEW changes,
         Legit(r, p, call, changes)
  PROVE  Ordered(r, p, call, changes)
<1>1. TypeOK /\ WorkflowsTypeOK /\ OfRun(r)
  BY EachRun
<1>2. CASE call = Do("failed") /\ at[r][p].mode \in {"failing", "done"}
  BY <1>2 DEF Ordered, Do
<1>3. CASE ~(call = Do("failed") /\ at[r][p].mode \in {"failing", "done"})
  <2>1. /\ Carries(r, p) /\ call = Program(r, p)[at[r][p].next] /\ call.do # "close"
        /\ changes = at[r][p].changes /\ at[r][p].mode # "idle"
    BY <1>3 DEF Legit
  <2>2. at[r][p].next \in 1 .. Len(Program(r, p))
    BY <1>1, <2>1 DEF OfRun, WorkflowFine
  <2>3. CASE p = "plan"
    <3>1. PlanOrder(Program(r, p), changes /\ operation[r] # "plan",
                    ~changes /\ operation[r] = "destroy")
      BY <2>1, <2>3, ProgramCalls
    <3>2. changes \in BOOLEAN
      BY <1>1, <2>1 DEF WorkflowsTypeOK
    <3> QED BY <2>1, <2>2, <2>3, <3>1, <3>2 DEF PlanOrder, Ordered, Past, Do
  <2>4. CASE p = "apply"
    <3>1. ApplyOrder(Program(r, p), operation[r] = "destroy")
      BY <2>1, <2>4, ProgramCalls
    <3>2. operation[r] \in {"apply", "destroy"}
      BY <1>1, <2>1, <2>4 DEF Carries, TypeOK, Operations
    <3> QED BY <2>1, <2>2, <2>4, <3>1, <3>2 DEF ApplyOrder, Ordered, Past, Do
  <2> QED BY <2>3, <2>4 DEF Phases
<1> QED BY <1>2, <1>3

\* What every call leaves alone.
Elsewhere(r) ==
  /\ \A q \in Runs \ {r} :
       status'[q] = status[q] /\ execution'[q] = execution[q] /\ planKey'[q] = planKey[q]
  /\ UNCHANGED <<operation, autoApprove, template, snapshot, approvals>>

OtherPhaseKept(r, p) == \A x \in Phases \ {p} : execution'[r][x] = execution[r][x]
RunRowKept(r) == UNCHANGED <<status, execution, planKey>>
DeedsKept == UNCHANGED <<lifecycle, lastAppliedRun>>

Starts(r, p) ==
  /\ status[r] \in {"queued", "approved"} /\ status'[r] = "running" /\ ~SomeCarrying(r)
  /\ execution[r][p] = "none" /\ execution'[r][p] = "running" /\ OtherPhaseKept(r, p)
  /\ planKey' = planKey /\ DeedsKept
Stops(r, p, to) ==
  /\ status[r] = "running" /\ status'[r] = to /\ Carrying(r, p)
  /\ execution'[r][p] = IF to = "failed" THEN "failed" ELSE "succeeded"
  /\ OtherPhaseKept(r, p) /\ ~planKey'[r]
  /\ InterruptedDestroy(r, to) /\ lastAppliedRun' = lastAppliedRun
NeverStarts(r, p) ==
  /\ status[r] \in InFlight /\ status'[r] = "failed" /\ ~SomeCarrying(r)
  /\ execution[r][p] = "none" /\ execution'[r][p] = "failed" /\ OtherPhaseKept(r, p)
  /\ ~planKey'[r]
  /\ InterruptedDestroy(r, "failed") /\ lastAppliedRun' = lastAppliedRun
Keys(r) ==
  /\ status' = status /\ execution' = execution /\ planKey'[r] /\ DeedsKept
Tells(r, event) ==
  /\ status[r] = "running" /\ RunRowKept(r)
  /\ IF event = "applied"
     THEN /\ lastAppliedRun' = [lastAppliedRun EXCEPT ![template[r]] = r]
          /\ lifecycle' = lifecycle
     ELSE /\ lifecycle' = [lifecycle EXCEPT ![template[r]] = event]
          /\ lastAppliedRun' = lastAppliedRun
FindsNothing(r) ==
  /\ status[r] # "absent" /\ RunRowKept(r) /\ lifecycle' = lifecycle
  /\ lastAppliedRun' = IF operation[r] = "destroy" THEN lastAppliedRun
                       ELSE [lastAppliedRun EXCEPT ![template[r]] = r]
Reviews(r) ==
  /\ status[r] = "running" /\ status'[r] = "waiting_approval" /\ Carrying(r, "plan")
  /\ execution'[r]["plan"] = "succeeded" /\ OtherPhaseKept(r, "plan")
  /\ planKey' = planKey /\ DeedsKept

Effect(r, p, call, changes) ==
  /\ Elsewhere(r)
  /\ \/ RunRowKept(r) /\ DeedsKept
     \/ call.do \in {"running", "claim"} /\ Starts(r, p)
     \/ call.do = "completed" /\ Stops(r, p, "completed")
     \/ call.do = "failed" /\ (Stops(r, p, "failed") \/ NeverStarts(r, p))
     \/ call.do = "create_key" /\ Keys(r)
     \/ call.do = "event" /\ Tells(r, call.arg)
     \/ call.do = "finish" /\ ~changes /\ FindsNothing(r)
     \/ call.do = "finish" /\ changes /\ operation[r] # "plan" /\ Reviews(r)

\* What the workflow may rely on once its call was answered.
Answered(r, p, call, changes, reply) ==
  /\ reply = "lost_claim" => call.do = "claim" /\ status'[r] \in Terminal
  /\ call.do \in {"running", "claim"} /\ reply \notin {"error", "lost_claim"} => Carrying(r, p)'
  /\ call.do = "failed" => Over(r, p)'
  /\ reply # "error" =>
       /\ call.do = "completed" /\ Carrying(r, p) => Over(r, p)'
       /\ call.do = "create_key" => planKey'[r]
       /\ call.do = "event" =>
            IF call.arg = "applied" THEN lastAppliedRun'[template[r]] = r
                                    ELSE lifecycle'[template[r]] = call.arg
       /\ call.do = "finish" =>
            /\ changes /\ operation[r] # "plan" => Over(r, p)'
            /\ ~changes /\ operation[r] # "destroy" => lastAppliedRun'[template[r]] = r

\* No workflow of a run but the one that calls can hold the run by then.
LEMMA HeldByItself ==
  ASSUME WInv, NEW r \in Runs, NEW p \in Phases, <<r, p>> \in intents
  PROVE  /\ status[r] # "absent"
         /\ execution[r][p] = "none" => ~SomeCarrying(r)
         /\ p = "plan" => ~autoApprove[r]
         /\ p = "apply" => autoApprove[r] \/ r \in approvals
         /\ p = "apply" => ~Carrying(r, "plan")
         /\ execution[r][p] = "none" =>
              /\ p = "plan" => r \notin approvals
              /\ p = "apply" => status[r] # "waiting_approval"
  BY EachRun DEF OfRun, RunInvariant, RunFine, IntentFine, SomeCarrying, Carrying, Phases

LEMMA NothingHappens ==
  ASSUME NEW r \in Runs, vars' = vars
  PROVE  Elsewhere(r) /\ RunRowKept(r) /\ DeedsKept
  BY DEF vars, Elsewhere, RunRowKept, DeedsKept

LEMMA RunningHasEffect ==
  ASSUME WInv, NEW r \in Runs, NEW p \in Phases, NEW call, NEW changes, NEW reply,
         <<r, p>> \in intents, Ordered(r, p, call, changes), call.do = "running",
         RecordTemplateRunStatus(r, p, "running", StepsUnderWay(r), reply)
  PROVE  Effect(r, p, call, changes)
<1>1. TypeOK /\ OfRun(r) /\ p = "plan"
  BY EachRun DEF Ordered
<1>2. CASE vars' = vars
  BY <1>2, NothingHappens DEF Effect
<1>3. CASE vars' # vars
  <2>1. /\ status[r] = "queued" /\ ~SecondRunning(r, p)
        /\ status' = [status EXCEPT ![r] = "running"]
        /\ InsertExecution(r, p, "running")
        /\ UNCHANGED <<operation, autoApprove, template, snapshot, planKey, approvals,
                       templateVars>>
    BY <1>3 DEF RecordTemplateRunStatus, RecordRunning, Rejected, WorkflowStatusSources
  <2>2. /\ \A q \in Runs \ {r} : execution'[q] = execution[q]
        /\ \A x \in Phases \ {p} : execution'[r][x] = execution[r][x]
        /\ execution'[r][p] = IF execution[r][p] = "none" THEN "running" ELSE execution[r][p]
    BY <1>1, <2>1, InsertedExecution DEF ExecutionStatuses
  <2>3. execution[r]["plan"] = "none" /\ execution[r]["apply"] = "none" /\ ~SomeCarrying(r)
    BY <1>1, <2>1 DEF OfRun, RunInvariant, SomeCarrying, Carrying, Phases
  <2>4. status'[r] = "running" /\ \A q \in Runs \ {r} : status'[q] = status[q]
    BY <1>1, <2>1 DEF TypeOK
  <2>5. Elsewhere(r)
    BY <2>1, <2>2, <2>4 DEF Elsewhere
  <2>6. Starts(r, p)
    BY <1>1, <2>1, <2>2, <2>3, <2>4 DEF Starts, OtherPhaseKept, DeedsKept, templateVars
  <2> QED BY <2>5, <2>6 DEF Effect, Ordered
<1> QED BY <1>2, <1>3 DEF Effect

LEMMA ClaimHasEffect ==
  ASSUME WInv, NEW r \in Runs, NEW p \in Phases, NEW call, NEW changes, NEW reply,
         <<r, p>> \in intents, Ordered(r, p, call, changes), call.do = "claim",
         BeginTemplateApply(r, reply)
  PROVE  Effect(r, p, call, changes)
<1>1. TypeOK /\ OfRun(r) /\ p = "apply"
  BY EachRun DEF Ordered
<1>2. CASE vars' = vars
  BY <1>2, NothingHappens DEF Effect
<1>3. CASE vars' # vars
  <2>1. /\ status[r] \in {IF autoApprove[r] THEN "queued" ELSE "approved", "running"}
        /\ ~SecondRunning(r, "apply")
        /\ status' = [status EXCEPT ![r] = "running"]
        /\ InsertExecution(r, "apply", "running")
        /\ UNCHANGED <<operation, autoApprove, template, snapshot, planKey, approvals,
                       templateVars>>
    BY <1>3 DEF BeginTemplateApply, Rejected
  <2>2. /\ \A q \in Runs \ {r} : execution'[q] = execution[q]
        /\ \A x \in Phases \ {p} : execution'[r][x] = execution[r][x]
        /\ execution'[r][p] = IF execution[r][p] = "none" THEN "running" ELSE execution[r][p]
    BY <1>1, <2>1, InsertedExecution DEF ExecutionStatuses
  <2>3. status'[r] = "running" /\ \A q \in Runs \ {r} : status'[q] = status[q]
    BY <1>1, <2>1 DEF TypeOK
  <2>4. Elsewhere(r)
    BY <2>1, <2>2, <2>3 DEF Elsewhere
  <2>5. CASE execution[r]["apply"] = "none"
    <3>1. ~SomeCarrying(r)
      BY <1>1, <2>5, HeldByItself
    <3>2. status[r] \in {"queued", "approved"}
      BY <1>1, <2>1, <3>1 DEF OfRun, RunInvariant, SomeCarrying, Carrying, Phases
    <3>3. Starts(r, p)
      BY <1>1, <2>1, <2>2, <2>3, <2>5, <3>1, <3>2
      DEF Starts, OtherPhaseKept, DeedsKept, templateVars
    <3> QED BY <2>4, <3>3 DEF Effect, Ordered
  <2>6. CASE execution[r]["apply"] # "none"
    <3>1. status[r] = "running"
      BY <1>1, <2>1, <2>6 DEF OfRun, RunInvariant, Carrying
    <3>2. status' = status
      BY <1>1, <2>1, <3>1 DEF TypeOK
    <3>3. execution' = execution
      BY <1>1, <2>1, <2>6 DEF TypeOK, InsertExecution
    <3>4. RunRowKept(r) /\ DeedsKept
      BY <2>1, <3>2, <3>3 DEF RunRowKept, DeedsKept, templateVars
    <3> QED BY <2>4, <3>4 DEF Effect
  <2> QED BY <2>5, <2>6
<1> QED BY <1>2, <1>3 DEF Effect

\* A failure, or a completion, is recorded by the execution that carries the
\* run; a failure also by one that never began.
LEMMA TerminalHasEffect ==
  ASSUME WInv, NEW r \in Runs, NEW p \in Phases, NEW call, NEW changes, NEW reply,
         Ordered(r, p, call, changes), call.do \in {"completed", "failed"},
         RecordTemplateRunStatus(r, p, call.do, StepsUnderWay(r), reply)
  PROVE  Effect(r, p, call, changes)
<1>1. TypeOK /\ OfRun(r)
  BY EachRun
<1>2. CASE vars' = vars
  BY <1>2, NothingHappens DEF Effect
<1>3. CASE vars' # vars
  <2> DEFINE to == call.do
  <2>1. /\ status[r] \in WorkflowStatusSources(to)
        /\ Carried(r, p, to)
        /\ EndWorkflowExecution(r, p, to, StepsUnderWay(r))
        /\ status' = [status EXCEPT ![r] = to]
        /\ InterruptedDestroy(r, to)
        /\ ReleaseRunPlan(r)
        /\ UNCHANGED <<operation, autoApprove, template, snapshot, approvals, desired,
                       lastAppliedRun>>
    BY <1>3 DEF RecordTemplateRunStatus, RecordTerminal, Rejected
  <2>2. ~planKey'[r] /\ \A q \in Runs \ {r} : planKey'[q] = planKey[q]
    BY <1>1, <2>1, ReleasedPlan
  <2>3. status'[r] = to /\ \A q \in Runs \ {r} : status'[q] = status[q]
    BY <1>1, <2>1 DEF TypeOK
  <2>4. CASE Carrying(r, p)
    <3>1. /\ FinishRunningExecution(r, p, IF to = "failed" THEN "failed" ELSE "succeeded",
                                    StepsUnderWay(r))
          /\ StepsUnderWay(r) \in SUBSET Steps
      BY <2>1, <2>4 DEF EndWorkflowExecution, StepsUnderWay
    <3>2. /\ \A q \in Runs \ {r} : execution'[q] = execution[q]
          /\ \A x \in Phases \ {p} : execution'[r][x] = execution[r][x]
          /\ execution'[r][p] = IF to = "failed" THEN "failed" ELSE "succeeded"
      BY <1>1, <2>4, <3>1, FinishedExecution, Zenon
    <3>3. status[r] = "running"
      BY <1>1, <2>4 DEF OfRun, RunInvariant, Phases
    <3>4. Elsewhere(r)
      BY <2>1, <2>2, <2>3, <3>2 DEF Elsewhere
    <3>5. Stops(r, p, to)
      BY <2>1, <2>2, <2>3, <2>4, <3>2, <3>3 DEF Stops, OtherPhaseKept
    <3> QED BY <3>4, <3>5 DEF Effect
  <2>5. CASE ~Carrying(r, p)
    <3>1. to = "failed" /\ ~SomeCarrying(r) /\ execution[r][p] = "none"
      BY <2>1, <2>5 DEF Carried
    <3>2. /\ \A q \in Runs \ {r} : execution'[q] = execution[q]
          /\ \A x \in Phases \ {p} : execution'[r][x] = execution[r][x]
          /\ execution'[r][p] = "failed"
      BY <1>1, <2>1, <2>5, <3>1, InsertedExecution DEF ExecutionStatuses, EndWorkflowExecution
    <3>3. Elsewhere(r)
      BY <2>1, <2>2, <2>3, <3>2 DEF Elsewhere
    <3>4. NeverStarts(r, p)
      BY <2>1, <2>2, <2>3, <3>1, <3>2 DEF NeverStarts, OtherPhaseKept, WorkflowStatusSources
    <3> QED BY <3>1, <3>3, <3>4 DEF Effect
  <2> QED BY <2>4, <2>5
<1> QED BY <1>2, <1>3 DEF Effect

\* A plan that ends as its run starts to wait leaves every other execution alone.
LEMMA PlanExecutionFinished ==
  ASSUME TypeOK, NEW r \in Runs, FinishRunningExecution(r, "plan", "succeeded", {})
  PROVE  /\ \A q \in Runs \ {r} : execution'[q] = execution[q]
         /\ \A x \in Phases \ {"plan"} : execution'[r][x] = execution[r][x]
         /\ execution'[r]["plan"] = IF Carrying(r, "plan") THEN "succeeded"
                                    ELSE execution[r]["plan"]
         /\ execution' \in [Runs -> [Phases -> ExecutionStatuses]]
  BY DEF FinishRunningExecution, TypeOK, ExecutionStatuses, Carrying, Phases

LEMMA OtherCallsHaveEffect ==
  ASSUME WInv, NEW r \in Runs, NEW p \in Phases, NEW call, NEW changes, NEW reply,
         Ordered(r, p, call, changes),
         call.do \in {"step", "event", "create_key", "read_key", "finish"},
         StoreCall(r, p, call, changes, reply)
  PROVE  Effect(r, p, call, changes)
<1>1. TypeOK /\ OfRun(r)
  BY EachRun
<1>2. CASE vars' = vars
  BY <1>2, NothingHappens DEF Effect
<1>3. CASE vars' # vars
  <2>1. CASE call.do = "step"
    <3>1. UNCHANGED <<runVars, approvals, execution, templateVars>>
      BY <1>3, <2>1 DEF StoreCall, RecordTemplateRunStep, Rejected
    <3> QED BY <3>1 DEF Effect, Elsewhere, RunRowKept, DeedsKept, runVars, templateVars
  <2>2. CASE call.do = "event"
    <3>1. RecordTemplateRunEvent(r, call.arg, call.arg # "destroying" /\ p = "apply", reply)
      BY <2>2 DEF StoreCall
    <3>2. /\ status[r] = "running"
          /\ IF call.arg = "applied"
             THEN /\ lastAppliedRun' = [lastAppliedRun EXCEPT ![template[r]] = r]
                  /\ UNCHANGED lifecycle
             ELSE /\ lifecycle' = [lifecycle EXCEPT ![template[r]] = call.arg]
                  /\ UNCHANGED lastAppliedRun
          /\ UNCHANGED <<runVars, approvals, executionVars, desired, pendingRun>>
      BY <1>3, <3>1 DEF RecordTemplateRunEvent, Rejected
    <3>3. Elsewhere(r) /\ Tells(r, call.arg)
      BY <3>2 DEF Elsewhere, Tells, RunRowKept, runVars, executionVars
    <3> QED BY <2>2, <3>3 DEF Effect
  <2>3. CASE call.do = "create_key"
    <3>1. /\ planKey' = [planKey EXCEPT ![r] = TRUE]
          /\ UNCHANGED <<status, operation, autoApprove, template, snapshot,
                         approvals, executionVars, templateVars>>
      BY <1>3, <2>3 DEF StoreCall, CreatePlanKey, Rejected
    <3>2. Elsewhere(r) /\ Keys(r)
      BY <1>1, <3>1 DEF TypeOK, Elsewhere, Keys, DeedsKept, executionVars, templateVars
    <3> QED BY <2>3, <3>2 DEF Effect
  <2>4. CASE call.do = "read_key"
    BY <1>3, <2>4 DEF StoreCall, Rejected
  <2>5. CASE call.do = "finish"
    <3>1. FinishTemplatePlan(r, changes, reply) /\ p = "plan"
      BY <2>5 DEF StoreCall, Ordered
    <3>2. CASE ~changes
      <4>1. /\ status[r] # "absent"
            /\ lastAppliedRun' = IF operation[r] = "destroy" THEN lastAppliedRun
                                 ELSE [lastAppliedRun EXCEPT ![template[r]] = r]
            /\ UNCHANGED <<runVars, approvals, executionVars, lifecycle, desired, pendingRun>>
        BY <3>1, <3>2 DEF FinishTemplatePlan, FinishWithoutChanges
      <4>2. Elsewhere(r) /\ FindsNothing(r)
        BY <4>1 DEF Elsewhere, FindsNothing, RunRowKept, runVars, executionVars
      <4> QED BY <2>5, <3>2, <4>2 DEF Effect
    <3>3. CASE changes
      <4>1. /\ operation[r] # "plan"
            /\ Carrying(r, "plan") \/ status[r] = "waiting_approval"
            /\ status' = [status EXCEPT ![r] = "waiting_approval"]
            /\ FinishRunningExecution(r, "plan", "succeeded", {})
            /\ UNCHANGED <<operation, autoApprove, template, snapshot, planKey,
                           approvals, lifecycle, desired, lastAppliedRun>>
        BY <1>3, <3>1, <3>3
        DEF FinishTemplatePlan, FinishPlanRun, FinishWithChanges, UnderWayAfterCounts, Rejected
      <4>2. /\ \A q \in Runs \ {r} : execution'[q] = execution[q]
            /\ \A x \in Phases \ {"plan"} : execution'[r][x] = execution[r][x]
            /\ execution'[r]["plan"] = IF Carrying(r, "plan") THEN "succeeded"
                                       ELSE execution[r]["plan"]
            /\ execution' \in [Runs -> [Phases -> ExecutionStatuses]]
        BY <1>1, <4>1, PlanExecutionFinished
      <4>3. status'[r] = "waiting_approval" /\ \A q \in Runs \ {r} : status'[q] = status[q]
        BY <1>1, <4>1 DEF TypeOK
      <4>4. Elsewhere(r)
        BY <4>1, <4>2, <4>3 DEF Elsewhere
      <4>5. CASE Carrying(r, "plan")
        <5>1. status[r] = "running"
          BY <1>1, <4>5 DEF OfRun, RunInvariant
        <5>2. Reviews(r)
          BY <4>1, <4>2, <4>3, <4>5, <5>1 DEF Reviews, OtherPhaseKept, DeedsKept
        <5> QED BY <2>5, <3>3, <4>1, <4>4, <5>2 DEF Effect
      <4>6. CASE ~Carrying(r, "plan")
        <5>1. status' = status
          BY <1>1, <4>1, <4>6 DEF TypeOK
        <5>2. execution' = execution
          BY <1>1, <4>1, <4>6 DEF FinishRunningExecution, TypeOK, Carrying, Phases
        <5> QED BY <4>1, <4>4, <5>1, <5>2 DEF Effect, RunRowKept, DeedsKept
      <4> QED BY <4>5, <4>6
    <3> QED BY <3>2, <3>3
  <2> QED BY <2>1, <2>2, <2>3, <2>4, <2>5
<1> QED BY <1>2, <1>3

LEMMA CallHasEffect ==
  ASSUME WInv, NEW r \in Runs, NEW p \in Phases, NEW call, NEW changes, NEW reply,
         Legit(r, p, call, changes), StoreCall(r, p, call, changes, reply)
  PROVE  Effect(r, p, call, changes)
<1>1. Ordered(r, p, call, changes) /\ <<r, p>> \in intents
  BY LegitIsOrdered DEF Legit
<1>2. CASE call.do = "running"
  BY <1>1, <1>2, RunningHasEffect DEF StoreCall
<1>3. CASE call.do = "claim"
  BY <1>1, <1>3, ClaimHasEffect DEF StoreCall
<1>4. CASE call.do \in {"completed", "failed"}
  BY <1>1, <1>4, TerminalHasEffect DEF StoreCall
<1>5. CASE call.do \in {"step", "event", "create_key", "read_key", "finish"}
  BY <1>1, <1>5, OtherCallsHaveEffect
<1> QED BY <1>1, <1>2, <1>3, <1>4, <1>5 DEF Ordered

\* What a workflow concludes from the reply it waits for is so.
LEMMA CallIsAnswered ==
  ASSUME WInv, NEW r \in Runs, NEW p \in Phases, NEW call, NEW changes, NEW reply,
         Legit(r, p, call, changes), StoreCall(r, p, call, changes, reply),
         call.do = "failed" \/ at[r][p].mode = "calling"
  PROVE  Answered(r, p, call, changes, reply)
<1>1. TypeOK /\ OfRun(r)
  BY EachRun
<1>2. Ordered(r, p, call, changes) /\ <<r, p>> \in intents
  BY LegitIsOrdered DEF Legit
<1>3. /\ status \in [Runs -> Statuses] /\ planKey \in [Runs -> BOOLEAN]
      /\ execution \in [Runs -> [Phases -> ExecutionStatuses]]
      /\ lifecycle \in [StackTemplates -> Lifecycles]
      /\ lastAppliedRun \in [StackTemplates -> Runs \cup {NoRun}]
      /\ template[r] \in StackTemplates
  BY <1>1 DEF TypeOK
<1>4. CASE call.do = "running"
  <2>1. execution[r][p] = "none" /\ ~SomeCarrying(r) /\ p = "plan"
    BY <1>1, <1>2, <1>4, HeldByItself DEF Ordered, OfRun, WorkflowFine, Begin
  <2>2. RecordTemplateRunStatus(r, p, "running", StepsUnderWay(r), reply)
    BY <1>4 DEF StoreCall
  <2>3. status[r] # "running"
    BY <1>1, <2>1 DEF OfRun, RunInvariant, SomeCarrying, Phases
  <2>4. reply = "error" \/ (reply = "ok" /\ InsertExecution(r, p, "running"))
    BY <2>2, <2>3 DEF RecordTemplateRunStatus, RecordRunning, Rejected
  <2>5. CASE reply = "ok" /\ InsertExecution(r, p, "running")
    <3>1. Carrying(r, p)'
      BY <1>1, <2>1, <2>5, InsertedExecution DEF Carrying, ExecutionStatuses
    <3> QED BY <1>4, <2>5, <3>1 DEF Answered
  <2> QED BY <1>4, <2>4, <2>5 DEF Answered
<1>5. CASE call.do = "claim"
  <2>1. execution[r][p] = "none" /\ ~SomeCarrying(r) /\ p = "apply"
    BY <1>1, <1>2, <1>5, HeldByItself DEF Ordered, OfRun, WorkflowFine, Begin
  <2>2. BeginTemplateApply(r, reply)
    BY <1>5 DEF StoreCall
  <2>3. CASE reply = "lost_claim"
    <3>1. /\ status[r] \notin {IF autoApprove[r] THEN "queued" ELSE "approved", "running"}
          /\ status' = status
      BY <2>2, <2>3 DEF BeginTemplateApply, Rejected, vars
    <3>2. autoApprove[r] \/ r \in approvals
      BY <1>2, <2>1, HeldByItself
    <3>3. status[r] # "absent" /\ status[r] # "waiting_approval"
      BY <1>2, <2>1, HeldByItself
    <3>4. autoApprove[r] => status[r] # "approved"
      BY <1>1 DEF OfRun, RunFine, RunInvariant
    <3>5. r \in approvals => status[r] # "queued"
      BY <1>1 DEF OfRun, RunFine
    <3>6. status[r] \in Terminal
      BY <1>3, <3>1, <3>2, <3>3, <3>4, <3>5 DEF Statuses, Terminal
    <3> QED BY <1>5, <2>3, <3>1, <3>6 DEF Answered
  <2>4. CASE reply # "lost_claim"
    <3>1. reply = "error" \/ InsertExecution(r, p, "running")
      BY <2>1, <2>2, <2>4 DEF BeginTemplateApply, Rejected
    <3>2. CASE InsertExecution(r, p, "running")
      <4>1. Carrying(r, p)'
        BY <1>1, <2>1, <3>2, InsertedExecution DEF Carrying, ExecutionStatuses
      <4> QED BY <1>5, <2>4, <4>1 DEF Answered
    <3> QED BY <1>5, <2>4, <3>1, <3>2 DEF Answered
  <2> QED BY <2>3, <2>4
<1>6. CASE call.do \in {"completed", "failed"}
  <2>1. RecordTemplateRunStatus(r, p, call.do, StepsUnderWay(r), reply)
    BY <1>6 DEF StoreCall
  <2>2. reply # "lost_claim"
    BY <1>6, <2>1 DEF RecordTemplateRunStatus, RecordTerminal, RecordRunning, Rejected
  <2>3. Effect(r, p, call, changes)
    BY CallHasEffect
  <2>4. ASSUME Over(r, p) PROVE Over(r, p)'
    BY <1>6, <2>3, <2>4
    DEF Effect, Over, RunRowKept, Stops, NeverStarts, Terminal, InFlight, Carrying, SomeCarrying
  <2>5. ASSUME vars' # vars PROVE Over(r, p)'
    <3>1. status[r] # call.do /\ status' = [status EXCEPT ![r] = call.do]
      BY <1>6, <2>1, <2>5 DEF RecordTemplateRunStatus, RecordTerminal, Rejected
    <3> QED BY <1>3, <1>6, <3>1 DEF Over, Terminal
  <2>6. ASSUME call.do = "failed" PROVE Over(r, p)'
    <3>1. CASE vars' = vars
      <4>1. \/ status[r] = "failed" \/ status[r] \notin InFlight
            \/ ~Carried(r, p, "failed")
        <5>1. CASE Carried(r, p, "failed") /\ status[r] # "failed" /\ status[r] \in InFlight
          <6>1. status' = [status EXCEPT ![r] = "failed"]
            BY <2>1, <2>6, <5>1
            DEF RecordTemplateRunStatus, RecordTerminal, WorkflowStatusSources, NothingToComplete
          <6>2. status'[r] = "failed" /\ status'[r] = status[r]
            BY <1>3, <3>1, <6>1 DEF vars
          <6> QED BY <5>1, <6>2
        <5> QED BY <5>1
      <4>2. status[r] # "absent"
        BY <1>2, HeldByItself
      <4>3. status[r] = "failed" \/ status[r] \notin InFlight => status[r] \in Terminal
        BY <1>3, <4>2 DEF Statuses, InFlight, Terminal
      <4>4. ~Carried(r, p, "failed") => execution[r][p] \in {"succeeded", "failed"}
        BY <1>2, <1>3, HeldByItself DEF Carried, Carrying, ExecutionStatuses
      <4> QED BY <2>4, <4>1, <4>3, <4>4 DEF Over
    <3> QED BY <3>1, <2>5
  <2>7. ASSUME call.do = "completed", reply # "error", Carrying(r, p) PROVE Over(r, p)'
    <3>1. CASE vars' = vars
      <4>1. status[r] = "running"
        BY <1>1, <2>7 DEF OfRun, RunInvariant, Phases
      <4>2. status' = [status EXCEPT ![r] = "completed"]
        BY <2>1, <2>7, <4>1
        DEF RecordTemplateRunStatus, RecordTerminal, WorkflowStatusSources, NothingToComplete,
            Carried, SomeCarrying, Rejected
      <4> QED BY <1>3, <3>1, <4>1, <4>2 DEF vars
    <3> QED BY <3>1, <2>5
  <2> QED BY <1>6, <2>2, <2>6, <2>7 DEF Answered
<1>7. CASE call.do \in {"step", "read_key"}
  <2>1. reply # "lost_claim"
    BY <1>7 DEF StoreCall, RecordTemplateRunStep, Rejected
  <2> QED BY <1>7, <2>1 DEF Answered
<1>8. CASE call.do = "create_key"
  <2>1. CreatePlanKey(r, reply)
    BY <1>8 DEF StoreCall
  <2>2. reply # "lost_claim" /\ (reply # "error" => planKey'[r])
    BY <1>3, <2>1 DEF CreatePlanKey, Rejected, vars
  <2> QED BY <1>8, <2>2 DEF Answered
<1>9. CASE call.do = "event"
  <2>1. RecordTemplateRunEvent(r, call.arg, call.arg # "destroying" /\ p = "apply", reply)
    BY <1>9 DEF StoreCall
  <2>2. reply # "lost_claim" /\
        (reply # "error" =>
           IF call.arg = "applied"
           THEN lastAppliedRun' = [lastAppliedRun EXCEPT ![template[r]] = r]
           ELSE lifecycle' = [lifecycle EXCEPT ![template[r]] = call.arg])
    BY <2>1 DEF RecordTemplateRunEvent, Rejected
  <2> QED BY <1>3, <1>9, <2>2 DEF Answered
<1>10. CASE call.do = "finish"
  <2>1. FinishTemplatePlan(r, changes, reply) /\ p = "plan"
    BY <1>2, <1>10 DEF StoreCall, Ordered
  <2>2. reply # "lost_claim"
    BY <2>1
    DEF FinishTemplatePlan, FinishWithoutChanges, FinishPlanRun, FinishWithChanges, Rejected
  <2>3. ASSUME ~changes, operation[r] # "destroy" PROVE lastAppliedRun'[template[r]] = r
    BY <1>3, <2>1, <2>3 DEF FinishTemplatePlan, FinishWithoutChanges
  <2>4. ASSUME changes, operation[r] # "plan", reply # "error" PROVE Over(r, p)'
    <3>1. /\ Carrying(r, "plan") \/ status[r] = "waiting_approval"
          /\ FinishRunningExecution(r, "plan", "succeeded", {})
      BY <2>1, <2>4 DEF FinishTemplatePlan, FinishWithChanges, UnderWayAfterCounts, Rejected
    <3>2. status[r] = "waiting_approval" => execution[r]["plan"] = "succeeded"
      BY <1>1 DEF OfRun, RunInvariant
    <3>3. execution'[r]["plan"] = IF execution[r]["plan"] = "running" THEN "succeeded"
                                  ELSE execution[r]["plan"]
      BY <1>1, <3>1, PlanExecutionFinished DEF Carrying
    <3> QED BY <2>1, <3>1, <3>2, <3>3 DEF Over, Carrying
  <2> QED BY <1>10, <2>1, <2>2, <2>3, <2>4 DEF Answered
<1> QED BY <1>2, <1>4, <1>5, <1>6, <1>7, <1>8, <1>9, <1>10 DEF Ordered

\* Whichever steps a workflow has under way, RunStore allows for them.
LEMMA MoreUnderWay ==
  ASSUME NEW r \in Runs, NEW p \in Phases, NEW to, NEW reply,
         RecordTemplateRunStatus(r, p, to, StepsUnderWay(r), reply)
  PROVE  RecordTemplateRunStatus(r, p, to, Steps, reply)
<1>1. ASSUME NEW outcome,
             FinishRunningExecution(r, p, outcome, StepsUnderWay(r))
      PROVE  FinishRunningExecution(r, p, outcome, Steps)
  BY <1>1 DEF FinishRunningExecution, StepsUnderWay
<1>2. EndWorkflowExecution(r, p, to, StepsUnderWay(r)) =>
        EndWorkflowExecution(r, p, to, Steps)
  BY <1>1 DEF EndWorkflowExecution
<1> QED
  BY <1>2 DEF RecordTemplateRunStatus, RecordTerminal

LEMMA CallIsStoreStep ==
  ASSUME WInv, NEW r \in Runs, NEW p \in Phases, NEW call, NEW changes, NEW reply \in Replies,
         Legit(r, p, call, changes), StoreCall(r, p, call, changes, reply)
  PROVE  [Next]_vars
<1>1. Ordered(r, p, call, changes) /\ WorkflowsTypeOK
  BY LegitIsOrdered DEF WInv
<1>2. CASE call.do \in {"running", "completed", "failed"}
  <2>1. RecordTemplateRunStatus(r, p, call.do, StepsUnderWay(r), reply)
    BY <1>2 DEF StoreCall
  <2>2. RecordTemplateRunStatus(r, p, call.do, Steps, reply)
    BY <2>1, MoreUnderWay
  <2>3. StoreStep(r, reply)
    BY <1>1, <1>2, <2>2 DEF StoreStep, Ordered
  <2> QED BY <2>3 DEF Next
<1>3. CASE call.do = "step"
  <2>1. StoreStep(r, reply)
    BY <1>1, <1>3 DEF StoreCall, StoreStep, Ordered
  <2> QED BY <2>1 DEF Next
<1>4. CASE call.do = "event"
  <2>1. call.arg \in Events /\ (call.arg # "destroying" /\ p = "apply") \in BOOLEAN
    BY <1>1, <1>4 DEF Ordered, Events
  <2>2. RecordTemplateRunEvent(r, call.arg, call.arg # "destroying" /\ p = "apply", reply)
    BY <1>4 DEF StoreCall
  <2>3. StoreStep(r, reply)
    BY <2>1, <2>2 DEF StoreStep
  <2> QED BY <2>3 DEF Next
<1>5. CASE call.do = "create_key"
  <2>1. StoreStep(r, reply)
    BY <1>5 DEF StoreCall, StoreStep
  <2> QED BY <2>1 DEF Next
<1>6. CASE call.do = "read_key"
  BY <1>6 DEF StoreCall, Rejected
<1>7. CASE call.do = "finish"
  <2>1. changes \in BOOLEAN
    BY <1>1, <1>7 DEF Ordered, WorkflowsTypeOK
  <2>2. StoreStep(r, reply)
    BY <1>7, <2>1 DEF StoreCall, StoreStep
  <2> QED BY <2>2 DEF Next
<1>8. CASE call.do = "claim"
  <2>1. StoreStep(r, reply)
    BY <1>8 DEF StoreCall, StoreStep
  <2> QED BY <2>1 DEF Next
<1> QED BY <1>1, <1>2, <1>3, <1>4, <1>5, <1>6, <1>7, <1>8 DEF Ordered

\* A call keeps what is known of every run's row, and of every run's identity.
LEMMA CallKeepsStore ==
  ASSUME WInv, NEW r \in Runs, NEW p \in Phases, NEW call, NEW changes, NEW reply \in Replies,
         Legit(r, p, call, changes), StoreCall(r, p, call, changes, reply)
  PROVE  IInv' /\ TypeOK'
<1>1. [Next]_vars
  BY CallIsStoreStep
<1>2. IInv'
  BY <1>1, Inductive DEF WInv
<1> QED BY <1>2 DEF IInv

-----------------------------------------------------------------------------
(* Every step, run by run: what it leaves alone stays as it was.           *)

\* A step does not touch run q, nor its workflows.
RunKept(q) ==
  /\ status'[q] = status[q] /\ execution'[q] = execution[q] /\ planKey'[q] = planKey[q]
  /\ operation'[q] = operation[q] /\ autoApprove'[q] = autoApprove[q]
  /\ template'[q] = template[q] /\ snapshot'[q] = snapshot[q]
  /\ at'[q] = at[q]
  /\ q \in approvals' <=> q \in approvals
  /\ \A x \in Phases : <<q, x>> \in intents' <=> <<q, x>> \in intents
  /\ q \in unrecorded => q \in unrecorded'
  /\ q \in saved => q \in saved'

LEMMA RunKeptFine ==
  ASSUME WInv, NEW q \in Runs, RunKept(q)
  PROVE  /\ RunFine(q)' /\ SavedFine(q)'
         /\ \A x \in Phases : WorkflowFine(q, x)' /\ IntentFine(q, x)'
<1>1. OfRun(q)
  BY EachRun
<1>2. \A x \in Phases : Program(q, x)' = Program(q, x) /\ Carries(q, x)' = Carries(q, x)
  BY ProgramKept DEF RunKept
<1>3. \A x \in Phases : \A call : Past(q, x, call)' = Past(q, x, call)
  BY <1>2, PastKept DEF RunKept
<1>4. RunFine(q)'
  BY <1>1 DEF OfRun, RunFine, RunKept
<1>5. SavedFine(q)'
  <2>1. Past(q, "plan", Do("create_key"))' = Past(q, "plan", Do("create_key"))
    BY <1>3 DEF Phases
  <2>2. Past(q, "plan", Step("saving_plan"))' = Past(q, "plan", Step("saving_plan"))
    BY <1>3 DEF Phases
  <2> QED BY <1>1, <2>1, <2>2 DEF OfRun, SavedFine, RunKept, Carrying
<1>6. ASSUME NEW x \in Phases PROVE WorkflowFine(q, x)' /\ IntentFine(q, x)'
  BY <1>1, <1>2 DEF OfRun, WorkflowFine, IntentFine, RunKept, Begin, Over, Carrying
<1> QED BY <1>4, <1>5, <1>6

\* Nor what its stack template has of it.
DeedsStand(q) ==
  /\ lifecycle'[template[q]] = lifecycle[template[q]]
  /\ deployed'[template[q]] = deployed[template[q]]
  /\ \A s \in Runs : s = deployed[template[q]] => snapshot'[s] = snapshot[s]
  /\ \A s \in Runs : status[s] \in Terminal => status'[s] \in Terminal
  /\ \/ lastAppliedRun'[template[q]] = lastAppliedRun[template[q]]
     \/ lastAppliedRun'[template[q]] = q
     \/ LateWrites /\ \E s \in Runs : lastAppliedRun'[template[q]] = s /\ status'[s] \in Terminal

LEMMA DeedsKeptStanding ==
  ASSUME NEW q \in Runs, DeedsStand(q), template'[q] = template[q],
         operation'[q] = operation[q], snapshot'[q] = snapshot[q]
  PROVE  (Deployed(q) => Deployed(q)') /\ (Live(q) => Live(q)')
<1>1. Deployed(q) => Deployed(q)'
  BY DEF DeedsStand, Deployed
<1>2. Live(q) => Live(q)'
  BY DEF DeedsStand, Live
<1> QED BY <1>1, <1>2

LEMMA RunKeptDeeds ==
  ASSUME WInv, NEW q \in Runs, RunKept(q), SomeCarrying(q) => DeedsStand(q)
  PROVE  DeedsFine(q)'
<1>1. OfRun(q)
  BY EachRun
<1>2. \A x \in Phases : Program(q, x)' = Program(q, x)
  BY ProgramKept DEF RunKept
<1>3. \A x \in Phases : \A call : Past(q, x, call)' = Past(q, x, call)
  BY <1>2, PastKept DEF RunKept
<1>4. \A x \in Phases : Carrying(q, x)' = Carrying(q, x)
  BY DEF RunKept, Carrying
<1>5. CASE SomeCarrying(q)
  <2>1. DeedsStand(q) /\ (Deployed(q) => Deployed(q)') /\ (Live(q) => Live(q)')
    BY <1>5, DeedsKeptStanding DEF RunKept
  <2>2. (lifecycle[template[q]] = "destroyed")' = (lifecycle[template[q]] = "destroyed")
    BY <2>1 DEF DeedsStand, RunKept
  <2>3. at'[q]["plan"].changes = at[q]["plan"].changes /\ operation'[q] = operation[q]
    BY DEF RunKept
  <2>4. /\ Past(q, "apply", Step("applying"))' = Past(q, "apply", Step("applying"))
        /\ Past(q, "apply", Event("applied"))' = Past(q, "apply", Event("applied"))
        /\ Past(q, "plan", Step("planning"))' = Past(q, "plan", Step("planning"))
        /\ Past(q, "plan", Do("finish"))' = Past(q, "plan", Do("finish"))
        /\ \A x \in Phases : Past(q, x, Event("destroyed"))' = Past(q, x, Event("destroyed"))
    BY <1>3 DEF Phases
  <2>5. /\ Carrying(q, "plan")' = Carrying(q, "plan")
        /\ Carrying(q, "apply")' = Carrying(q, "apply")
    BY <1>4 DEF Phases
  <2>6. DeedsFine(q)
    BY <1>1 DEF OfRun
  <2> QED BY <1>4, <2>1, <2>2, <2>3, <2>4, <2>5, <2>6, Zenon DEF DeedsFine
<1>6. CASE ~SomeCarrying(q)
  BY <1>4, <1>6 DEF DeedsFine, SomeCarrying, Phases
<1> QED BY <1>5, <1>6

-----------------------------------------------------------------------------
(* A call: made, lost on its way back, or landing late.                    *)

Resumes(r, p, call, changes) ==
  LET w == at[r][p] IN
  /\ at'[r][p].changes = w.changes
  /\ \/ at'[r][p] = w /\ w.mode # "calling"
     \/ /\ w.mode = "calling" /\ at'[r][p].mode \in {"closing", "failing"}
        /\ at'[r][p].next = w.next /\ (at'[r][p].mode = "closing" => w.next > 1)
     \/ /\ w.mode \in {"calling", "failing"} /\ at'[r][p].mode = "done"
        /\ at'[r][p].next = w.next /\ (Over(r, p)' \/ r \in unrecorded')
     \/ /\ w.mode = "calling" /\ at'[r][p].mode = "working"
        /\ at'[r][p].next = w.next /\ call.do = "step" /\ call = Program(r, p)[w.next]
     \/ /\ w.mode = "calling" /\ at'[r][p].mode = "calling"
        /\ at'[r][p].next = w.next + 1 /\ w.next < Len(Program(r, p))
        /\ call = Program(r, p)[w.next] /\ call.do # "step"
        /\ \E reply : reply \notin {"error", "lost_claim"}
                      /\ Answered(r, p, call, changes, reply)

CallStep(r, p, call, changes) ==
  /\ Legit(r, p, call, changes) /\ Effect(r, p, call, changes)
  /\ IInv' /\ TypeOK'
  /\ at[r][p].mode = "calling" \/ call.do = "failed" \/ LateWrites
  /\ UNCHANGED <<intents, saved, deployed>> /\ unrecorded \subseteq unrecorded'
  /\ OthersStay(r, p) /\ Resumes(r, p, call, changes)

\* A run that carries on is the only one of its stack template that does.
LEMMA AloneInTemplate ==
  ASSUME WInv, NEW q \in Runs, NEW r \in Runs, q # r, SomeCarrying(q),
         template[q] = template[r]
  PROVE  status[r] \notin InFlight
<1>1. status[q] = "running"
  BY EachRun DEF OfRun, RunInvariant, SomeCarrying, Phases
<1> QED BY <1>1 DEF WInv, IInv, OneUnfinishedRun, InFlight

LEMMA TerminalStays ==
  ASSUME NEW r \in Runs, NEW p \in Phases, NEW call, NEW changes,
         Effect(r, p, call, changes)
  PROVE  /\ \A s \in Runs : status[s] \in Terminal => status'[s] \in Terminal
         /\ status[r] \notin {"queued", "running", "approved", "waiting_approval"} =>
              status'[r] = status[r]
<1>1. \A s \in Runs \ {r} : status'[s] = status[s]
  BY DEF Effect, Elsewhere
<1>2. status[r] \notin {"queued", "running", "approved", "waiting_approval"} =>
        status'[r] = status[r]
  BY DEF Effect, RunRowKept, Starts, Stops, NeverStarts, Keys, Tells, FindsNothing,
         Reviews, InFlight
<1> QED BY <1>1, <1>2 DEF Terminal

LEMMA CallStepElsewhere ==
  ASSUME WInv, NEW r \in Runs, NEW p \in Phases, NEW call, NEW changes,
         CallStep(r, p, call, changes), NEW q \in Runs, q # r
  PROVE  RunKept(q) /\ (SomeCarrying(q) => DeedsStand(q))
<1>1. Elsewhere(r) /\ OthersStay(r, p) /\ WorkflowsTypeOK /\ OfRun(r)
  BY EachRun DEF CallStep, Effect
<1>2. at'[q] = at[q]
  BY <1>1 DEF OthersStay, WorkflowsTypeOK, Phases
<1>3. RunKept(q)
  BY <1>1, <1>2 DEF CallStep, RunKept, Elsewhere
<1>4. ASSUME SomeCarrying(q) PROVE DeedsStand(q)
  <2> DEFINE t == template[q]
  <2>1. /\ template[r] \in StackTemplates /\ t \in StackTemplates
        /\ status[r] \in Statuses
        /\ lifecycle \in [StackTemplates -> Lifecycles]
        /\ lastAppliedRun \in [StackTemplates -> Runs \cup {NoRun}]
    BY EachRun DEF TypeOK
  <2>2. \A s \in Runs : status[s] \in Terminal => status'[s] \in Terminal
    BY TerminalStays DEF CallStep
  <2>3. deployed' = deployed /\ snapshot' = snapshot
    BY <1>1 DEF CallStep, Elsewhere
  <2>4. CASE t # template[r]
    <3>1. lifecycle'[t] = lifecycle[t] /\ lastAppliedRun'[t] = lastAppliedRun[t]
      BY <2>1, <2>4
      DEF CallStep, Effect, DeedsKept, Starts, Stops, NeverStarts, Keys, Tells,
          FindsNothing, Reviews, InterruptedDestroy
    <3> QED BY <2>2, <2>3, <3>1 DEF DeedsStand
  <2>5. CASE t = template[r]
    <3>1. status[r] \notin InFlight
      BY <1>4, <2>5, AloneInTemplate
    <3>2. lifecycle'[t] = lifecycle[t]
      BY <3>1
      DEF CallStep, Effect, DeedsKept, Starts, Stops, NeverStarts, Keys, Tells,
          FindsNothing, Reviews, InFlight
    <3>3. lastAppliedRun'[t] # lastAppliedRun[t] =>
            call.do = "finish" /\ FindsNothing(r)
      BY <3>1
      DEF CallStep, Effect, DeedsKept, Starts, Stops, NeverStarts, Keys, Tells,
          Reviews, InFlight
    <3>4. CASE call.do = "finish" /\ FindsNothing(r)
      <4>1. at[r][p].mode # "calling"
        <5>1. Ordered(r, p, call, changes)
          BY LegitIsOrdered DEF CallStep
        <5>2. ASSUME at[r][p].mode = "calling" PROVE at[r][p].next > 1
          <6>1. at[r][p].next # 1
            BY <3>4, <5>1 DEF Ordered
          <6>2. at[r][p].next \in 0..20 /\ at[r][p].next \in 1 .. Len(Program(r, p))
            BY <1>1, <5>2 DEF OfRun, WorkflowFine, WorkflowsTypeOK
          <6> QED BY <6>1, <6>2
        <5>3. ASSUME at[r][p].mode = "calling" PROVE Carrying(r, p)
          BY <1>1, <5>2, <5>3 DEF OfRun, WorkflowFine
        <5>4. Carrying(r, p) => status[r] = "running"
          BY <1>1 DEF OfRun, RunInvariant, Phases
        <5> QED BY <3>1, <5>3, <5>4 DEF InFlight
      <4>2. LateWrites
        BY <3>4, <4>1 DEF CallStep
      <4>3. status'[r] \in Terminal
        BY <2>1, <3>1, <3>4 DEF FindsNothing, RunRowKept, Statuses, InFlight, Terminal
      <4>4. lastAppliedRun'[t] \in {lastAppliedRun[t], r}
        BY <2>1, <2>5, <3>4 DEF FindsNothing
      <4> QED BY <2>2, <2>3, <3>2, <4>2, <4>3, <4>4 DEF DeedsStand
    <3>5. CASE ~(call.do = "finish" /\ FindsNothing(r))
      BY <2>2, <2>3, <3>2, <3>3, <3>5 DEF DeedsStand
    <3> QED BY <3>4, <3>5
  <2> QED BY <2>4, <2>5
<1> QED BY <1>3, <1>4

\* The run that calls: its program, its past, and its other workflow.
LEMMA CallStepPast ==
  ASSUME WInv, NEW r \in Runs, NEW p \in Phases, NEW call, NEW changes,
         CallStep(r, p, call, changes)
  PROVE  /\ \A x \in Phases : Program(r, x)' = Program(r, x) /\ Carries(r, x)' = Carries(r, x)
         /\ \A x \in Phases : \A c : Past(r, x, c)' =>
              \/ Past(r, x, c)
              \/ /\ x = p /\ c = call /\ at[r][p].mode = "calling" /\ call.do # "step"
                 /\ \E reply : reply \notin {"error", "lost_claim"}
                               /\ Answered(r, p, call, changes, reply)
<1>1. /\ Elsewhere(r) /\ OthersStay(r, p) /\ WorkflowsTypeOK /\ OfRun(r)
      /\ Resumes(r, p, call, changes)
  BY EachRun DEF CallStep, Effect
<1>2. \A x \in Phases \ {p} : at'[r][x] = at[r][x]
  BY <1>1 DEF OthersStay
<1>3. \A x \in Phases : at'[r][x].changes = at[r][x].changes
  BY <1>1, <1>2 DEF Resumes
<1>4. \A x \in Phases : Program(r, x)' = Program(r, x) /\ Carries(r, x)' = Carries(r, x)
  BY <1>1, <1>3, ProgramKept DEF Elsewhere
<1>5. ASSUME NEW x \in Phases, NEW c, Past(r, x, c)', ~Past(r, x, c)
      PROVE  /\ x = p /\ c = call /\ at[r][p].mode = "calling" /\ call.do # "step"
             /\ \E reply : reply \notin {"error", "lost_claim"}
                           /\ Answered(r, p, call, changes, reply)
  <2>1. at'[r][x].next # at[r][x].next
    BY <1>4, <1>5, PastKept
  <2>2. x = p
    BY <1>2, <2>1
  <2>3. /\ at[r][p].mode = "calling" /\ at'[r][p].next = at[r][p].next + 1
        /\ call = Program(r, p)[at[r][p].next] /\ call.do # "step"
        /\ \E reply : reply \notin {"error", "lost_claim"}
                      /\ Answered(r, p, call, changes, reply)
    BY <1>1, <2>1, <2>2 DEF Resumes
  <2>4. at[r][p].next \in Nat \ {0}
    <3>1. at[r][p].next \in 0..20 /\ at[r][p].next \in 1 .. Len(Program(r, p))
      BY <1>1, <2>3 DEF OfRun, WorkflowFine, WorkflowsTypeOK
    <3> QED BY <3>1
  <2>5. Past(r, p, c)' <=> Past(r, p, c) \/ Program(r, p)[at[r][p].next] = c
    BY <1>4, <2>3, <2>4, PastAdvances
  <2> QED BY <1>5, <2>2, <2>3, <2>5
<1> QED BY <1>4, <1>5

LEMMA CallStepIntents ==
  ASSUME WInv, NEW r \in Runs, NEW p \in Phases, NEW call, NEW changes,
         CallStep(r, p, call, changes)
  PROVE  RunFine(r)' /\ \A x \in Phases : IntentFine(r, x)'
<1>1. OfRun(r) /\ Elsewhere(r) /\ Effect(r, p, call, changes) /\ intents' = intents
  BY EachRun DEF CallStep, Effect
<1>2. status[r] # "absent" /\ (p = "plan" => ~autoApprove[r])
  BY HeldByItself DEF CallStep, Legit
<1>3. status'[r] # "absent"
  BY <1>1, <1>2 DEF Effect, RunRowKept, Starts, Stops, NeverStarts, Keys, Tells,
                    FindsNothing, Reviews
<1>4. RunFine(r)'
  <2>1. ASSUME r \in approvals
        PROVE  /\ execution'[r]["plan"] = "succeeded"
               /\ status'[r] \notin {"absent", "queued", "waiting_approval"}
    BY <1>1, <1>3, <2>1
    DEF Effect, RunRowKept, Starts, Stops, NeverStarts, Keys, Tells, FindsNothing, Reviews,
        OtherPhaseKept, Phases, OfRun, RunFine, Carrying
  <2>2. ASSUME autoApprove[r] PROVE operation[r] = "apply" /\ execution'[r]["plan"] = "none"
    BY <1>1, <1>2, <2>2
    DEF Effect, RunRowKept, Starts, Stops, NeverStarts, Keys, Tells, FindsNothing, Reviews,
        OtherPhaseKept, Phases, OfRun, RunFine, Carrying
  <2> QED BY <1>1, <2>1, <2>2 DEF RunFine, Elsewhere
<1> QED BY <1>1, <1>3, <1>4 DEF OfRun, IntentFine, Elsewhere

LEMMA CallStepSaved ==
  ASSUME WInv, NEW r \in Runs, NEW p \in Phases, NEW call, NEW changes,
         CallStep(r, p, call, changes)
  PROVE  SavedFine(r)'
<1>1. /\ OfRun(r) /\ Elsewhere(r) /\ Effect(r, p, call, changes)
      /\ Ordered(r, p, call, changes) /\ saved' = saved
  BY EachRun, LegitIsOrdered DEF CallStep, Effect
<1>2. SavedFine(r) /\ RunInvariant(r) /\ WorkflowFine(r, "plan")
  BY <1>1 DEF OfRun, Phases
<1>3. ASSUME Carrying(r, "plan")'
      PROVE  \/ Carrying(r, "plan") /\ (planKey[r] => planKey'[r])
             \/ call.do \in {"running", "claim"} /\ execution[r]["plan"] = "none"
  BY <1>1, <1>2, <1>3
  DEF Effect, RunRowKept, Starts, Stops, NeverStarts, Keys, Tells, FindsNothing, Reviews,
      OtherPhaseKept, Phases, RunInvariant, Carrying, SomeCarrying, DeedsKept
<1>4. ASSUME NEW c, c \in {Do("create_key"), Step("saving_plan")}, Past(r, "plan", c),
             WorkflowsTypeOK
      PROVE  execution[r]["plan"] # "none"
  <2>1. at[r]["plan"].next > 1
    BY <1>4 DEF Past, Before, WorkflowsTypeOK, Phases
  <2> QED BY <1>2, <2>1 DEF WorkflowFine
<1>5. ASSUME Carrying(r, "plan")', Past(r, "plan", Do("create_key"))' PROVE planKey'[r]
  <2>1. CASE Past(r, "plan", Do("create_key"))
    BY <1>2, <1>3, <1>4, <1>5, <2>1, EachRun DEF SavedFine
  <2>2. CASE ~Past(r, "plan", Do("create_key"))
    <3>1. PICK reply : /\ call = Do("create_key") /\ reply # "error"
                       /\ Answered(r, p, call, changes, reply)
      BY <1>5, <2>2, CallStepPast DEF Phases
    <3> QED BY <3>1 DEF Answered, Do
  <2> QED BY <2>1, <2>2
<1>6. ASSUME Carrying(r, "plan")', Past(r, "plan", Step("saving_plan"))' PROVE r \in saved
  <2>1. CASE Past(r, "plan", Step("saving_plan"))
    BY <1>2, <1>3, <1>4, <1>6, <2>1, EachRun DEF SavedFine
  <2>2. CASE ~Past(r, "plan", Step("saving_plan"))
    BY <1>6, <2>2, CallStepPast DEF Phases, Step
  <2> QED BY <2>1, <2>2
<1>7. ASSUME status'[r] \in {"waiting_approval", "approved"} PROVE planKey'[r] /\ r \in saved
  <2>1. CASE status[r] \in {"waiting_approval", "approved"}
    BY <1>1, <1>2, <1>7, <2>1
    DEF Effect, RunRowKept, Starts, Stops, NeverStarts, Keys, Tells, FindsNothing, Reviews,
        SavedFine, DeedsKept
  <2>2. CASE status[r] \notin {"waiting_approval", "approved"}
    <3>1. call.do = "finish" /\ changes /\ operation[r] # "plan" /\ Reviews(r)
      BY <1>1, <1>7, <2>2
      DEF Effect, RunRowKept, Starts, Stops, NeverStarts, Keys, Tells, FindsNothing
    <3>2. /\ Past(r, "plan", Do("create_key")) /\ Past(r, "plan", Step("saving_plan"))
          /\ Carrying(r, "plan") /\ planKey' = planKey
      BY <1>1, <3>1 DEF Ordered, Reviews
    <3> QED BY <1>2, <3>2 DEF SavedFine
  <2> QED BY <2>1, <2>2
<1> QED BY <1>1, <1>5, <1>6, <1>7 DEF SavedFine

LEMMA CallStepDeeds ==
  ASSUME WInv, NEW r \in Runs, NEW p \in Phases, NEW call, NEW changes,
         CallStep(r, p, call, changes)
  PROVE  DeedsFine(r)'
<1>1. /\ OfRun(r) /\ Elsewhere(r) /\ Effect(r, p, call, changes) /\ TypeOK /\ WorkflowsTypeOK
      /\ Ordered(r, p, call, changes) /\ deployed' = deployed /\ OthersStay(r, p)
  BY EachRun, LegitIsOrdered DEF CallStep, Effect
<1>2. /\ DeedsFine(r) /\ RunInvariant(r)
      /\ \A x \in Phases : WorkflowFine(r, x) /\ IntentFine(r, x)
  BY <1>1 DEF OfRun
<1>3. /\ template[r] \in StackTemplates
      /\ lifecycle \in [StackTemplates -> Lifecycles]
      /\ lastAppliedRun \in [StackTemplates -> Runs \cup {NoRun}]
  BY <1>1 DEF TypeOK
\* A run that is carried was carried before, unless its workflow just began.
<1>4. ASSUME NEW x \in Phases, Carrying(r, x)'
      PROVE  Carrying(r, x) \/ (execution[r][x] = "none" /\ DeedsKept)
  BY <1>1, <1>4
  DEF Effect, RunRowKept, Starts, Stops, NeverStarts, Keys, Tells, FindsNothing, Reviews,
      OtherPhaseKept, Phases, Carrying, SomeCarrying
<1>5. ASSUME NEW x \in Phases, NEW c, Past(r, x, c), Carrying(r, x)'
      PROVE  Carrying(r, x)
  <2>1. at[r][x].next > 1
    BY <1>1, <1>5 DEF Past, Before, WorkflowsTypeOK
  <2>2. execution[r][x] # "none"
    BY <1>2, <2>1 DEF WorkflowFine
  <2> QED BY <1>4, <1>5, <2>2
<1>6. ASSUME NEW x \in Phases, NEW c, Past(r, x, c)', ~Past(r, x, c)
      PROVE  /\ x = p /\ c = call /\ call.do # "step"
             /\ \E reply : reply \notin {"error", "lost_claim"}
                           /\ Answered(r, p, call, changes, reply)
  BY <1>6, CallStepPast
<1>7. Deployed(r)' = Deployed(r)
  BY <1>1 DEF Deployed, Elsewhere
<1>8. Live(r) => Live(r)'
  <2>1. lastAppliedRun'[template[r]] \in {r, lastAppliedRun[template[r]]}
    BY <1>1, <1>3
    DEF Effect, RunRowKept, Starts, Stops, NeverStarts, Keys, Tells, FindsNothing, Reviews,
        DeedsKept
  <2>2. \A s \in Runs : status[s] \in Terminal => status'[s] \in Terminal
    BY <1>1, TerminalStays
  <2> QED BY <1>1, <2>1, <2>2 DEF Live, Elsewhere
<1>9. template' = template /\ operation' = operation
  BY <1>1 DEF Elsewhere
<1>10. ASSUME Carrying(r, "apply")', Past(r, "apply", Step("applying"))' PROVE Deployed(r)'
  <2>1. Past(r, "apply", Step("applying"))
    BY <1>6, <1>10 DEF Step, Phases
  <2> QED BY <1>2, <1>5, <1>7, <1>10, <2>1 DEF DeedsFine, Phases
<1>11. ASSUME Carrying(r, "apply")', Past(r, "apply", Event("applied"))' PROVE Live(r)'
  <2>1. CASE Past(r, "apply", Event("applied"))
    BY <1>2, <1>5, <1>8, <1>11, <2>1 DEF DeedsFine, Phases
  <2>2. CASE ~Past(r, "apply", Event("applied"))
    <3>1. PICK reply : /\ call = Event("applied") /\ reply # "error"
                       /\ Answered(r, p, call, changes, reply)
      BY <1>6, <1>11, <2>2 DEF Phases
    <3>2. lastAppliedRun'[template[r]] = r
      BY <3>1 DEF Answered, Event
    <3> QED BY <1>9, <3>2 DEF Live
  <2> QED BY <2>1, <2>2
<1>12. at'[r]["plan"].changes = at[r]["plan"].changes
  BY <1>1 DEF OthersStay, CallStep, Resumes, Phases
<1>13. ASSUME Carrying(r, "plan")', ~at[r]["plan"].changes, operation[r] # "plan",
              Past(r, "plan", Step("planning"))'
       PROVE  Deployed(r)'
  <2>1. Past(r, "plan", Step("planning"))
    BY <1>6, <1>13 DEF Step, Phases
  <2> QED BY <1>2, <1>5, <1>7, <1>13, <2>1 DEF DeedsFine, Phases
<1>14. ASSUME Carrying(r, "plan")', ~at[r]["plan"].changes, operation[r] = "apply",
              Past(r, "plan", Do("finish"))'
       PROVE  Live(r)'
  <2>1. CASE Past(r, "plan", Do("finish"))
    BY <1>2, <1>5, <1>8, <1>14, <2>1 DEF DeedsFine, Phases
  <2>2. CASE ~Past(r, "plan", Do("finish"))
    <3>1. PICK reply : /\ call = Do("finish") /\ reply # "error" /\ p = "plan"
                       /\ Answered(r, p, call, changes, reply)
      BY <1>6, <1>14, <2>2 DEF Phases
    <3>2. changes = at[r]["plan"].changes
      BY <1>1, <3>1 DEF Ordered, Do
    <3>3. lastAppliedRun'[template[r]] = r
      BY <1>14, <3>1, <3>2 DEF Answered, Do
    <3> QED BY <1>9, <3>3 DEF Live
  <2> QED BY <2>1, <2>2
<1>15. ASSUME NEW x \in Phases, Carrying(r, x)', Past(r, x, Event("destroyed"))'
       PROVE  lifecycle'[template[r]] = "destroyed"
  <2>1. CASE Past(r, x, Event("destroyed"))
    <3>1. Carrying(r, x) /\ lifecycle[template[r]] = "destroyed"
      BY <1>2, <1>5, <1>15, <2>1 DEF DeedsFine
    <3>2. ~(call.do = "event" /\ call.arg = "destroying")
      <4>1. CASE x = p
        BY <1>1, <2>1, <4>1 DEF Ordered
      <4>2. CASE x # p
        <5>1. SUFFICES ASSUME p = "apply" PROVE FALSE
          BY <1>1 DEF Ordered
        <5>2. ~Carrying(r, "plan")
          BY <5>1, HeldByItself DEF CallStep, Legit
        <5> QED BY <3>1, <4>2, <5>1, <5>2 DEF Phases
      <4> QED BY <4>1, <4>2
    <3>3. ~Stops(r, p, "failed") /\ ~NeverStarts(r, p) /\ ~Stops(r, p, "completed")
      BY <1>2, <1>15, <3>1
      DEF Stops, NeverStarts, RunInvariant, Phases, Carrying, SomeCarrying, OtherPhaseKept
    <3>4. call.do = "event" => call.arg \in {"applied", "destroying", "destroyed"}
      BY <1>1 DEF Ordered
    <3> QED BY <1>1, <1>3, <3>1, <3>2, <3>3, <3>4
        DEF Effect, RunRowKept, Starts, Keys, Tells, FindsNothing, Reviews, DeedsKept
  <2>2. CASE ~Past(r, x, Event("destroyed"))
    <3>1. PICK reply : /\ call = Event("destroyed") /\ reply # "error"
                       /\ Answered(r, p, call, changes, reply)
      BY <1>6, <1>15, <2>2
    <3> QED BY <3>1 DEF Answered, Event
  <2> QED BY <2>1, <2>2
<1> QED BY <1>9, <1>10, <1>11, <1>12, <1>13, <1>14, <1>15 DEF DeedsFine

LEMMA ProgramLength ==
  ASSUME WInv, NEW r \in Runs, NEW p \in Phases
  PROVE  Len(Program(r, p)) \in 10 .. 13
  BY ProgramCalls DEF PlanOrder, ApplyOrder, Phases

\* The call that ends a run's part of the program is its last.
LEMMA LastCall ==
  ASSUME WInv, NEW r \in Runs, NEW p \in Phases, Carries(r, p),
         NEW i \in 1 .. Len(Program(r, p)),
         \/ Program(r, p)[i].do = "completed"
         \/ Program(r, p)[i].do = "finish" /\ at[r][p].changes /\ operation[r] # "plan"
  PROVE  i = Len(Program(r, p))
  BY ProgramCalls DEF PlanOrder, ApplyOrder, Phases

LEMMA CallStepWorkflow ==
  ASSUME WInv, NEW r \in Runs, NEW p \in Phases, NEW call, NEW changes,
         CallStep(r, p, call, changes), NEW x \in Phases
  PROVE  WorkflowFine(r, x)'
<1>1. /\ OfRun(r) /\ Elsewhere(r) /\ Effect(r, p, call, changes) /\ TypeOK /\ WorkflowsTypeOK
      /\ Ordered(r, p, call, changes) /\ OthersStay(r, p) /\ Resumes(r, p, call, changes)
      /\ intents' = intents /\ unrecorded \subseteq unrecorded' /\ TypeOK'
  BY EachRun, LegitIsOrdered DEF CallStep, Effect
<1>2. /\ RunInvariant(r) /\ WorkflowFine(r, x) /\ WorkflowFine(r, p)
  BY <1>1 DEF OfRun
<1>3. Program(r, x)' = Program(r, x) /\ Carries(r, x)' = Carries(r, x)
  BY CallStepPast
<1>4. /\ \A s \in Runs : status[s] \in Terminal => status'[s] \in Terminal
      /\ execution[r][x] \in {"succeeded", "failed"} => execution'[r][x] = execution[r][x]
      /\ x # p => execution'[r][x] = execution[r][x]
      /\ execution[r][x] # "none" => execution'[r][x] # "none"
  BY <1>1, TerminalStays
  DEF Effect, RunRowKept, Starts, Stops, NeverStarts, Keys, Tells, FindsNothing, Reviews,
      OtherPhaseKept, Carrying, Ordered
<1>5. Over(r, x) => Over(r, x)'
  BY <1>4 DEF Over
<1>6. CASE at'[r][x] = at[r][x] /\ (x = p => at[r][x].mode # "calling")
  <2>1. at[r][x].next > 1 /\ at[r][x].mode \in {"calling", "working"} =>
          Carrying(r, x) /\ Carrying(r, x)'
    <3>1. CASE x = p
      <4>1. call.do # "failed" => at[r][x].mode \in {"calling", "closing", "failing", "done"}
        BY <3>1 DEF CallStep, Legit, Do
      <4> QED BY <1>1, <1>6, <3>1, <4>1 DEF Ordered
    <3>2. CASE x # p
      BY <1>2, <1>4, <3>2 DEF WorkflowFine, Carrying
    <3> QED BY <3>1, <3>2
  <2>2. Begin(r, x) => execution'[r][x] = "none"
    <3>1. CASE x = p
      <4>1. at[r][x].mode # "idle"
        BY <3>1 DEF CallStep, Legit
      <4> QED BY <1>6, <3>1, <4>1 DEF Begin
    <3>2. CASE x # p
      BY <1>2, <1>4, <3>2 DEF WorkflowFine
    <3> QED BY <3>1, <3>2
  <2>3. at[r][x].mode = "done" => r \in unrecorded' \/ Over(r, x)'
    BY <1>1, <1>2, <1>5 DEF WorkflowFine
  <2>4. at[r][x].next > 1 => execution'[r][x] # "none"
    BY <1>2, <1>4 DEF WorkflowFine
  <2> QED BY <1>1, <1>2, <1>3, <1>6, <2>1, <2>2, <2>3, <2>4 DEF WorkflowFine, Begin
<1>7. CASE x # p
  <2>1. at'[r][x] = at[r][x]
    BY <1>1, <1>7 DEF OthersStay
  <2> QED BY <1>6, <1>7, <2>1
<1>8. CASE x = p /\ at[r][p].mode \in {"calling", "failing"} /\ at'[r][p] # at[r][p]
  <2>1. /\ at[r][p].next \in 0..20 /\ at[r][p].next \in 1 .. Len(Program(r, p))
        /\ <<r, p>> \in intents
    BY <1>1, <1>2, <1>8 DEF WorkflowsTypeOK, WorkflowFine
  <2>2. CASE at'[r][p].mode \in {"closing", "failing", "done"} /\ at'[r][p].next = at[r][p].next
    <3>1. at[r][p].next > 1 => execution'[r][p] # "none"
      BY <1>2, <1>4, <1>8 DEF WorkflowFine
    <3>2. at'[r][p].mode = "closing" => at[r][p].next > 1
      BY <1>1, <1>8, <2>2 DEF Resumes
    <3>3. at'[r][p].mode = "done" => r \in unrecorded' \/ Over(r, p)'
      BY <1>1, <1>8, <2>2 DEF Resumes
    <3>4. at[r][p].next > 1 => Carries(r, p)
      BY <1>2 DEF WorkflowFine
    <3>5. ~Begin(r, p)'
      BY <2>2 DEF Begin
    <3> QED BY <1>1, <1>3, <1>8, <2>1, <2>2, <3>1, <3>2, <3>3, <3>4, <3>5 DEF WorkflowFine
  <2>3. CASE /\ at[r][p].mode = "calling" /\ at'[r][p].mode = "working"
             /\ at'[r][p].next = at[r][p].next /\ call.do = "step"
             /\ call = Program(r, p)[at[r][p].next]
    <3>1. at[r][p].next > 1
      <4>1. at[r][p].next # 1
        BY <1>1, <2>3 DEF Ordered
      <4> QED BY <2>1, <4>1
    <3>2. Carrying(r, p) /\ Carries(r, p) /\ execution[r][p] # "none"
      BY <1>2, <2>3, <3>1 DEF WorkflowFine
    <3>3. execution' = execution
      BY <1>1, <2>3 DEF Effect, RunRowKept
    <3>4. Carrying(r, p)'
      BY <3>2, <3>3 DEF Carrying
    <3>5. ~Begin(r, p)'
      BY <2>3 DEF Begin
    <3> QED BY <1>1, <1>3, <1>8, <2>1, <2>3, <3>1, <3>2, <3>3, <3>4, <3>5 DEF WorkflowFine
  <2>4. CASE /\ at[r][p].mode = "calling" /\ at'[r][p].mode = "calling"
             /\ at'[r][p].next = at[r][p].next + 1 /\ at[r][p].next < Len(Program(r, p))
             /\ call = Program(r, p)[at[r][p].next]
             /\ \E reply : reply \notin {"error", "lost_claim"}
                           /\ Answered(r, p, call, changes, reply)
    <3>1. Carries(r, p)
      BY <1>2, <2>4 DEF WorkflowFine
    <3>2. Carrying(r, p)'
      <4>1. CASE at[r][p].next = 1
        <5>1. call.do # "failed"
          BY <1>1, <2>4 DEF Ordered
        <5>2. call.do \in {"running", "claim"}
          BY <1>1, <4>1, <5>1 DEF Ordered
        <5> QED BY <2>4, <5>2 DEF Answered
      <4>2. CASE at[r][p].next > 1
        <5>1. Carrying(r, p)
          BY <1>2, <2>4, <4>2 DEF WorkflowFine
        <5>2. call.do # "failed"
          BY <1>1, <2>4 DEF Ordered
        <5>3. ~Stops(r, p, "completed") \/ call.do # "completed"
          <6>1. CASE call.do = "completed"
            BY <2>1, <2>4, <3>1, <6>1, LastCall
          <6> QED BY <6>1
        <5>4. ~(call.do = "finish" /\ changes /\ operation[r] # "plan")
          <6>1. CASE call.do = "finish" /\ changes /\ operation[r] # "plan"
            <7>1. at[r][p].changes
              BY <1>1, <6>1 DEF Ordered
            <7>2. at[r][p].next = Len(Program(r, p))
              BY <2>1, <2>4, <3>1, <6>1, <7>1, LastCall
            <7> QED BY <2>1, <2>4, <7>2, <3>1, ProgramLength
          <6> QED BY <6>1
        <5> QED BY <1>1, <1>2, <5>1, <5>2, <5>3, <5>4
            DEF Effect, RunRowKept, Starts, Keys, Tells, FindsNothing, Carrying
      <4> QED BY <2>1, <4>1, <4>2
    <3>3. execution'[r][p] # "none"
      BY <3>2 DEF Carrying
    <3>4. at'[r][p].next \in 1 .. Len(Program(r, p)) /\ at'[r][p].next > 1
      BY <2>1, <2>4, <3>1, ProgramLength
    <3>5. ~Begin(r, p)'
      BY <2>4, <3>4 DEF Begin
    <3> QED BY <1>1, <1>3, <1>8, <2>1, <2>4, <3>1, <3>2, <3>3, <3>4, <3>5 DEF WorkflowFine
  <2> QED BY <1>1, <1>8, <2>2, <2>3, <2>4 DEF Resumes
<1>9. CASE x = p /\ at'[r][p] = at[r][p] /\ at[r][p].mode = "calling"
  <2>1. at[r][p].next \in 0..20 /\ at[r][p].next + 1 # at[r][p].next
    BY <1>1 DEF WorkflowsTypeOK
  <2> QED BY <1>1, <1>9, <2>1 DEF Resumes
<1>10. x = p /\ at[r][p].mode \notin {"calling", "failing"} => at'[r][p] = at[r][p]
  BY <1>1 DEF Resumes
<1> QED BY <1>6, <1>7, <1>8, <1>9, <1>10

\* A workflow that has stopped stays where it stopped.
StaysStopped(q, x) ==
  at[q][x].mode \in {"closing", "failing", "done"} =>
    /\ at'[q][x].next = at[q][x].next /\ at'[q][x].changes = at[q][x].changes
    /\ at'[q][x].mode \in {"closing", "failing", "done"}
    /\ at[q][x].mode = "done" => at'[q][x].mode = "done"

LEMMA LateKept ==
  ASSUME NEW l, LateFine(l), StaysStopped(l.run, l.phase), unrecorded \subseteq unrecorded',
         operation'[l.run] = operation[l.run], autoApprove'[l.run] = autoApprove[l.run]
  PROVE  LateFine(l)'
<1>1. l.run \in Runs /\ l.phase \in Phases /\ l.changes \in BOOLEAN
  BY DEF LateFine
<1>2. CASE l.call = Do("failed") /\ at[l.run][l.phase].mode = "done" /\ l.run \in unrecorded
  BY <1>1, <1>2 DEF LateFine, StaysStopped
<1>3. CASE /\ at[l.run][l.phase].mode \in {"closing", "failing", "done"}
           /\ Carries(l.run, l.phase)
           /\ l.call = Program(l.run, l.phase)[at[l.run][l.phase].next] /\ l.call.do # "close"
           /\ l.changes = at[l.run][l.phase].changes
  <2>1. /\ Program(l.run, l.phase)' = Program(l.run, l.phase)
        /\ Carries(l.run, l.phase)' = Carries(l.run, l.phase)
    BY <1>1, <1>3, ProgramKept DEF StaysStopped
  <2> QED BY <1>1, <1>3, <2>1 DEF LateFine, StaysStopped
<1> QED BY <1>2, <1>3 DEF LateFine

LEMMA CallStepTemplates ==
  ASSUME WInv, NEW r \in Runs, NEW p \in Phases, NEW call, NEW changes,
         CallStep(r, p, call, changes), NEW t \in StackTemplates
  PROVE  DestroyingFine(t)' /\ DeployedFine(t)'
<1>1. /\ OfRun(r) /\ Elsewhere(r) /\ Effect(r, p, call, changes) /\ TypeOK
      /\ Ordered(r, p, call, changes) /\ deployed' = deployed
      /\ <<r, p>> \in intents
  BY EachRun, LegitIsOrdered DEF CallStep, Effect, Legit
<1>2. /\ DestroyingFine(t) /\ DeployedFine(t)
      /\ DeedsFine(r) /\ RunInvariant(r)
      /\ \A x \in Phases : WorkflowFine(r, x) /\ IntentFine(r, x)
  BY <1>1 DEF OfRun, WInv
<1>3. /\ template[r] \in StackTemplates
      /\ lifecycle \in [StackTemplates -> Lifecycles]
  BY <1>1 DEF TypeOK
<1>4. status[r] # "absent" /\ (p = "apply" => ~Carrying(r, "plan"))
  BY <1>1, HeldByItself
<1>5. status'[r] # "absent"
  BY <1>1, <1>4 DEF Effect, RunRowKept, Starts, Stops, NeverStarts, Keys, Tells,
                    FindsNothing, Reviews
<1>6. DeployedFine(t)'
  BY <1>1, <1>2, <1>5 DEF DeployedFine, Elsewhere
<1>7. ASSUME lifecycle'[t] = "destroying"
      PROVE  \E q \in Runs : /\ template'[q] = t /\ operation'[q] = "destroy"
                             /\ Carrying(q, "apply")'
  <2>1. CASE lifecycle[t] # "destroying"
    <3>1. /\ call.do = "event" /\ call.arg = "destroying" /\ Tells(r, "destroying")
          /\ t = template[r]
      BY <1>1, <1>3, <1>7, <2>1
      DEF Effect, Starts, Stops, NeverStarts, Keys, Tells, FindsNothing, Reviews, DeedsKept,
          InterruptedDestroy
    <3>2. p = "apply" /\ operation[r] = "destroy"
      BY <1>1, <3>1 DEF Ordered
    <3>3. Carrying(r, "apply")
      BY <1>2, <1>4, <3>1, <3>2 DEF Tells, RunInvariant, SomeCarrying
    <3>4. Carrying(r, "apply")'
      BY <3>1, <3>3 DEF Tells, RunRowKept, Carrying
    <3> QED BY <1>1, <3>1, <3>2, <3>4 DEF Elsewhere
  <2>2. CASE lifecycle[t] = "destroying"
    <3>1. PICK q \in Runs : template[q] = t /\ operation[q] = "destroy" /\ Carrying(q, "apply")
      BY <1>2, <2>2 DEF DestroyingFine
    <3>2. CASE q # r
      BY <1>1, <3>1, <3>2 DEF Elsewhere, Carrying
    <3>3. CASE q = r
      <4>1. ~Stops(r, p, "failed") /\ ~NeverStarts(r, p)
        BY <1>3, <1>7, <3>1, <3>3 DEF Stops, NeverStarts, InterruptedDestroy, SomeCarrying, Phases
      <4>2. ~(call.do = "completed" /\ Stops(r, p, "completed"))
        <5>1. SUFFICES ASSUME call.do = "completed", Stops(r, p, "completed") PROVE FALSE
          OBVIOUS
        <5>2. p = "apply"
          BY <1>2, <3>1, <3>3, <5>1 DEF Stops, RunInvariant, Phases
        <5>3. Past(r, p, Event("destroyed"))
          BY <1>1, <3>1, <3>3, <5>1 DEF Ordered
        <5>4. lifecycle[t] = "destroyed"
          BY <1>2, <3>1, <3>3, <5>2, <5>3 DEF DeedsFine
        <5> QED BY <2>2, <5>4
      <4>3. ~Reviews(r)
        BY <1>2, <3>1, <3>3 DEF Reviews, RunInvariant
      <4>4. Carrying(r, "apply")'
        BY <1>1, <3>1, <3>3, <4>1, <4>2, <4>3
        DEF Effect, RunRowKept, Starts, Keys, Tells, FindsNothing, Carrying, SomeCarrying, Phases
      <4> QED BY <1>1, <3>1, <3>3, <4>4 DEF Elsewhere
    <3> QED BY <3>2, <3>3
  <2> QED BY <2>1, <2>2
<1> QED BY <1>6, <1>7 DEF DestroyingFine

\* What a call keeps: everything but what late calls there are, and the count
\* of what went wrong.
RunsFine ==
  /\ \A q \in Runs :
       /\ RunFine(q) /\ SavedFine(q) /\ DeedsFine(q)
       /\ \A x \in Phases : WorkflowFine(q, x) /\ IntentFine(q, x)
  /\ \A t \in StackTemplates : DestroyingFine(t) /\ DeployedFine(t)

LEMMA CallStepKeeps ==
  ASSUME WInv, NEW r \in Runs, NEW p \in Phases, NEW call, NEW changes,
         CallStep(r, p, call, changes)
  PROVE  RunsFine' /\ \A l \in late : LateFine(l)'
<1>1. ASSUME NEW q \in Runs
      PROVE  (/\ RunFine(q) /\ SavedFine(q) /\ DeedsFine(q)
              /\ \A x \in Phases : WorkflowFine(q, x) /\ IntentFine(q, x))'
  <2>1. CASE q = r
    BY <2>1, CallStepIntents, CallStepSaved, CallStepDeeds, CallStepWorkflow
  <2>2. CASE q # r
    <3>1. RunKept(q) /\ (SomeCarrying(q) => DeedsStand(q))
      BY <2>2, CallStepElsewhere
    <3> QED BY <3>1, RunKeptFine, RunKeptDeeds
  <2> QED BY <2>1, <2>2
<1>2. ASSUME NEW l \in late PROVE LateFine(l)'
  <2>1. LateFine(l) /\ l.run \in Runs /\ l.phase \in Phases
    BY DEF WInv, LateFine
  <2>2. /\ OthersStay(r, p) /\ Resumes(r, p, call, changes) /\ Elsewhere(r)
        /\ unrecorded \subseteq unrecorded'
    BY DEF CallStep, Effect
  <2>3. StaysStopped(l.run, l.phase)
    BY <2>1, <2>2 DEF OthersStay, Resumes, StaysStopped
  <2> QED BY <2>1, <2>2, <2>3, LateKept DEF Elsewhere
<1> QED BY <1>1, <1>2, CallStepTemplates DEF RunsFine

-----------------------------------------------------------------------------
(* The calls of the actions are such calls.                                *)

LEMMA InRange ==
  ASSUME NEW n \in 0 .. 20, NEW len \in 10 .. 13, n \in 1 .. len
  PROVE  /\ n \in 1 .. 13 /\ (n = len => n > 1)
         /\ n # len => n < len /\ n + 1 \in 0 .. 20 /\ n + 1 \in 1 .. len /\ n + 1 > 1
         /\ n # 1 => n > 1
  OBVIOUS

LEMMA ErrorMoves ==
  ASSUME WInv, NEW r \in Runs, NEW p \in Phases, Error(r, p),
         at[r][p].mode \in {"calling", "working", "failing"}
  PROVE  /\ OthersStay(r, p)
         /\ at'[r][p].changes = at[r][p].changes /\ at'[r][p].next = at[r][p].next
         /\ IF at[r][p].mode = "failing" THEN at'[r][p].mode = "done"
            ELSE at'[r][p].mode \in {"closing", "failing"}
         /\ at'[r][p].mode = "closing" => at[r][p].next > 1
<1>1. WorkflowsTypeOK /\ at[r][p].next \in 0..20
  BY DEF WInv, WorkflowsTypeOK
<1>2. CASE at[r][p].mode = "failing"
  <2>1. Goto(r, p, "done", at[r][p].next)
    BY <1>2 DEF Error, WorkspaceOpen
  <2>2. Moves(r, p, "done", at[r][p].next)
    BY <1>1, <2>1, GotoMoves DEF Modes
  <2> QED BY <1>2, <2>2 DEF Moves
<1>3. CASE at[r][p].mode # "failing" /\ WorkspaceOpen(r, p)
  <2>1. Goto(r, p, "closing", at[r][p].next)
    BY <1>3 DEF Error
  <2>2. Moves(r, p, "closing", at[r][p].next)
    BY <1>1, <2>1, GotoMoves DEF Modes
  <2>3. at[r][p].next > 3
    BY <1>3 DEF WorkspaceOpen
  <2>4. at[r][p].next > 1
    BY <1>1, <2>3
  <2> QED BY <1>3, <2>2, <2>4 DEF Moves
<1>4. CASE at[r][p].mode # "failing" /\ ~WorkspaceOpen(r, p)
  <2>1. Goto(r, p, "failing", at[r][p].next)
    BY <1>4 DEF Error
  <2>2. Moves(r, p, "failing", at[r][p].next)
    BY <1>1, <2>1, GotoMoves DEF Modes
  <2> QED BY <1>4, <2>2 DEF Moves
<1> QED BY <1>2, <1>3, <1>4

LEMMA CurrentIsLegit ==
  ASSUME WInv, NEW r \in Runs, NEW p \in Phases, IsStoreCall(r, p)
  PROVE  /\ Legit(r, p, Current(r, p), at[r][p].changes)
         /\ at[r][p].mode = "calling" \/ Current(r, p).do = "failed"
         /\ at[r][p].mode = "calling" => Current(r, p) = Program(r, p)[at[r][p].next]
         /\ at[r][p].mode \in {"calling", "failing"}
<1>1. WorkflowFine(r, p)
  BY EachRun DEF OfRun
<1>2. CASE at[r][p].mode = "failing"
  BY <1>1, <1>2 DEF WorkflowFine, Legit, Current, Do
<1>3. CASE at[r][p].mode = "calling" /\ Current(r, p).do # "close"
  BY <1>1, <1>3 DEF WorkflowFine, Legit, Current
<1> QED BY <1>2, <1>3 DEF IsStoreCall

\* The place of a workflow that makes a call, or works, in its program.
LEMMA Place ==
  ASSUME WInv, NEW r \in Runs, NEW p \in Phases, at[r][p].mode \in {"calling", "working"}
  PROVE  /\ at[r][p].next \in 1 .. Len(Program(r, p)) /\ at[r][p].next \in 1..13
         /\ Len(Program(r, p)) \in 10 .. 13 /\ Carries(r, p) /\ <<r, p>> \in intents
         /\ at[r][p].next > 1 => Carrying(r, p)
         /\ at[r][p].next = Len(Program(r, p)) => at[r][p].next > 1
         /\ at[r][p].next # Len(Program(r, p)) =>
              /\ at[r][p].next < Len(Program(r, p))
              /\ at[r][p].next + 1 \in 1 .. Len(Program(r, p)) /\ at[r][p].next + 1 > 1
              /\ at[r][p].next + 1 \in 0 .. 20
         /\ at[r][p].next # 1 => at[r][p].next > 1
<1>1. WorkflowFine(r, p)
  BY EachRun DEF OfRun
<1>2. Carries(r, p) /\ at[r][p].next \in 1 .. Len(Program(r, p)) /\ <<r, p>> \in intents
  BY <1>1 DEF WorkflowFine
<1>3. Len(Program(r, p)) \in 10 .. 13
  BY <1>2, ProgramLength
<1>4. at[r][p].next \in 0 .. 20
  BY DEF WInv, WorkflowsTypeOK
<1>5. at[r][p].next > 1 => Carrying(r, p)
  BY <1>1 DEF WorkflowFine
<1> QED BY <1>2, <1>3, <1>4, <1>5, InRange

LEMMA AdvanceMoves ==
  ASSUME WInv, NEW r \in Runs, NEW p \in Phases, Advance(r, p),
         at[r][p].mode \in {"calling", "working"}
  PROVE  IF at[r][p].next = Len(Program(r, p)) THEN Moves(r, p, "done", at[r][p].next)
         ELSE Moves(r, p, "calling", at[r][p].next + 1) /\ at[r][p].next < Len(Program(r, p))
<1>1. WorkflowsTypeOK /\ at[r][p].next \in 0..20 /\ at[r][p].next \in 1 .. Len(Program(r, p))
      /\ at[r][p].next \in 1..13 /\ Len(Program(r, p)) \in 10 .. 13
  BY Place DEF WInv, WorkflowsTypeOK
<1>2. CASE at[r][p].next = Len(Program(r, p))
  <2>1. Goto(r, p, "done", at[r][p].next)
    BY <1>2 DEF Advance
  <2> QED BY <1>1, <1>2, <2>1, GotoMoves DEF Modes
<1>3. CASE at[r][p].next # Len(Program(r, p))
  <2>1. Goto(r, p, "calling", at[r][p].next + 1)
    BY <1>3 DEF Advance
  <2>2. at[r][p].next + 1 \in 0..20 /\ at[r][p].next < Len(Program(r, p))
    BY <1>3, Place
  <2> QED BY <1>1, <1>3, <2>1, <2>2, GotoMoves DEF Modes
<1> QED BY <1>2, <1>3

\* A program's last call ends what its workflow carries.
LEMMA LastCallEnds ==
  ASSUME WInv, NEW r \in Runs, NEW p \in Phases, at[r][p].mode = "calling",
         at[r][p].next = Len(Program(r, p)), NEW reply, reply # "error",
         Answered(r, p, Program(r, p)[at[r][p].next], at[r][p].changes, reply)
  PROVE  Over(r, p)'
<1>1. /\ at[r][p].next \in 1 .. Len(Program(r, p)) /\ at[r][p].next \in 1..13
      /\ Len(Program(r, p)) \in 10 .. 13 /\ Carries(r, p)
  BY Place
<1>2. at[r][p].next > 1
  BY Place
<1>3. Carrying(r, p)
  BY <1>2, Place
<1>4. LET c == Program(r, p)[at[r][p].next] IN
      c.do = "completed" \/ (c.do = "finish" /\ at[r][p].changes /\ operation[r] # "plan")
  BY <1>1, ProgramCalls DEF PlanOrder, ApplyOrder, Phases
<1> QED BY <1>3, <1>4 DEF Answered

LEMMA ResumeResumes ==
  ASSUME WInv, NEW r \in Runs, NEW p \in Phases, IsStoreCall(r, p), NEW reply,
         StoreCall(r, p, Current(r, p), at[r][p].changes, reply), Resume(r, p, reply)
  PROVE  OthersStay(r, p) /\ Resumes(r, p, Current(r, p), at[r][p].changes)
<1> DEFINE call == Current(r, p)
           changes == at[r][p].changes
<1>1. /\ Legit(r, p, call, changes)
      /\ at[r][p].mode = "calling" \/ call.do = "failed"
      /\ at[r][p].mode = "calling" => call = Program(r, p)[at[r][p].next]
      /\ at[r][p].mode \in {"calling", "failing"}
  BY CurrentIsLegit
<1>2. Answered(r, p, call, changes, reply)
  BY <1>1, CallIsAnswered
<1>3. at[r][p].mode = "failing" => Over(r, p)'
  BY <1>1, <1>2 DEF Answered, Current, Do
<1>4. WorkflowsTypeOK /\ at[r][p].next \in 0..20
  BY DEF WInv, WorkflowsTypeOK
<1> HIDE DEF call, changes
<1>5. CASE Error(r, p)
  <2>1. /\ OthersStay(r, p)
        /\ at'[r][p].changes = at[r][p].changes /\ at'[r][p].next = at[r][p].next
        /\ IF at[r][p].mode = "failing" THEN at'[r][p].mode = "done"
           ELSE at'[r][p].mode \in {"closing", "failing"}
        /\ at'[r][p].mode = "closing" => at[r][p].next > 1
    BY <1>1, <1>5, ErrorMoves
  <2> QED BY <1>1, <1>3, <2>1 DEF Resumes, call, changes
<1>6. CASE reply = "lost_claim" /\ Goto(r, p, "done", at[r][p].next)
  <2>1. Moves(r, p, "done", at[r][p].next)
    BY <1>4, <1>6, GotoMoves DEF Modes
  <2>2. Over(r, p)'
    BY <1>2, <1>6 DEF Answered, Over
  <2> QED BY <1>1, <2>1, <2>2 DEF Resumes, Moves, call, changes
<1>7. CASE at[r][p].mode = "calling" /\ call.do = "step" /\ Goto(r, p, "working", at[r][p].next)
  <2>1. Moves(r, p, "working", at[r][p].next)
    BY <1>4, <1>7, GotoMoves DEF Modes
  <2> QED BY <1>1, <1>7, <2>1 DEF Resumes, Moves, call, changes
<1>8. CASE /\ at[r][p].mode = "calling" /\ call.do # "step" /\ Advance(r, p)
           /\ reply \notin {"error", "lost_claim"}
  <2>1. IF at[r][p].next = Len(Program(r, p)) THEN Moves(r, p, "done", at[r][p].next)
        ELSE Moves(r, p, "calling", at[r][p].next + 1) /\ at[r][p].next < Len(Program(r, p))
    BY <1>8, AdvanceMoves
  <2>2. CASE at[r][p].next = Len(Program(r, p))
    <3>1. Over(r, p)'
      BY <1>1, <1>2, <1>8, <2>2, LastCallEnds DEF changes
    <3> QED BY <1>1, <1>8, <2>1, <2>2, <3>1 DEF Resumes, Moves, call, changes
  <2>3. CASE at[r][p].next # Len(Program(r, p))
    BY <1>1, <1>2, <1>8, <2>1, <2>3 DEF Resumes, Moves, call, changes
  <2> QED BY <2>2, <2>3
<1> QED BY <1>5, <1>6, <1>7, <1>8 DEF Resume, call

-----------------------------------------------------------------------------
(* Steps that make a call.                                                 *)

LEMMA CallStepInvariant ==
  ASSUME WInv, NEW r \in Runs, NEW p \in Phases, NEW call, NEW changes,
         CallStep(r, p, call, changes), late' \subseteq late,
         faults' \in 0 .. MaxFaults, unrecorded' \subseteq Runs
  PROVE  WInv'
<1>1. RunsFine' /\ \A l \in late : LateFine(l)'
  BY CallStepKeeps
<1>2. WorkflowsTypeOK'
  BY DEF CallStep, OthersStay, WInv, WorkflowsTypeOK
<1>3. \A l \in late' : LateFine(l)' /\ LateWrites
  BY <1>1 DEF WInv
<1>4. IInv'
  BY DEF CallStep
<1> QED BY <1>1, <1>2, <1>3, <1>4 DEF WInv, RunsFine

LEMMA CallKeeps ==
  ASSUME WInv, NEW r \in Runs, NEW p \in Phases, Call(r, p)
  PROVE  WInv'
<1>1. PICK reply \in Replies :
        /\ StoreCall(r, p, Current(r, p), at[r][p].changes, reply)
        /\ Resume(r, p, reply)
        /\ unrecorded' = IF at[r][p].mode = "failing" /\ reply = "error"
                         THEN unrecorded \cup {r} ELSE unrecorded
  BY DEF Call
<1>2. IsStoreCall(r, p) /\ UNCHANGED <<intents, late, faults, saved, deployed>>
  BY DEF Call
<1>3. /\ Legit(r, p, Current(r, p), at[r][p].changes)
      /\ at[r][p].mode = "calling" \/ Current(r, p).do = "failed"
  BY <1>2, CurrentIsLegit
<1>4. Effect(r, p, Current(r, p), at[r][p].changes)
  BY <1>1, <1>3, CallHasEffect
<1>5. IInv' /\ TypeOK'
  BY <1>1, <1>3, CallKeepsStore
<1>6. OthersStay(r, p) /\ Resumes(r, p, Current(r, p), at[r][p].changes)
  BY <1>1, <1>2, ResumeResumes
<1>7. unrecorded \subseteq unrecorded' /\ unrecorded' \subseteq Runs /\ faults' \in 0 .. MaxFaults
  BY <1>1, <1>2 DEF WInv, WorkflowsTypeOK
<1>8. CallStep(r, p, Current(r, p), at[r][p].changes)
  BY <1>2, <1>3, <1>4, <1>5, <1>6, <1>7 DEF CallStep
<1> QED BY <1>2, <1>7, <1>8, CallStepInvariant

LEMMA FaultCounts ==
  ASSUME WInv, Fault
  PROVE  faults' \in 0 .. MaxFaults
  BY FaultsAssumption DEF WInv, WorkflowsTypeOK, Fault

LEMMA LoseAcknowledgementKeeps ==
  ASSUME WInv, NEW r \in Runs, NEW p \in Phases, LoseAcknowledgement(r, p)
  PROVE  WInv'
<1>1. PICK reply \in Replies : StoreCall(r, p, Current(r, p), at[r][p].changes, reply)
  BY DEF LoseAcknowledgement
<1>2. /\ IsStoreCall(r, p) /\ Fault /\ Error(r, p)
      /\ UNCHANGED <<intents, late, unrecorded, saved, deployed>>
  BY DEF LoseAcknowledgement
<1>3. /\ Legit(r, p, Current(r, p), at[r][p].changes)
      /\ at[r][p].mode = "calling" \/ Current(r, p).do = "failed"
      /\ at[r][p].mode \in {"calling", "failing"}
  BY <1>2, CurrentIsLegit
<1>4. Effect(r, p, Current(r, p), at[r][p].changes)
  BY <1>1, <1>3, CallHasEffect
<1>5. IInv' /\ TypeOK'
  BY <1>1, <1>3, CallKeepsStore
<1>6. /\ OthersStay(r, p)
      /\ at'[r][p].changes = at[r][p].changes /\ at'[r][p].next = at[r][p].next
      /\ IF at[r][p].mode = "failing" THEN at'[r][p].mode = "done"
         ELSE at'[r][p].mode \in {"closing", "failing"}
      /\ at'[r][p].mode = "closing" => at[r][p].next > 1
  BY <1>2, <1>3, ErrorMoves
<1>7. at[r][p].mode = "failing" => Over(r, p)'
  <2>1. Answered(r, p, Current(r, p), at[r][p].changes, reply)
    BY <1>1, <1>3, CallIsAnswered
  <2> QED BY <2>1 DEF Answered, Current, Do
<1>8. Resumes(r, p, Current(r, p), at[r][p].changes)
  BY <1>3, <1>6, <1>7 DEF Resumes
<1>9. unrecorded \subseteq unrecorded' /\ unrecorded' \subseteq Runs
  BY <1>2 DEF WInv, WorkflowsTypeOK
<1>10. CallStep(r, p, Current(r, p), at[r][p].changes)
  BY <1>2, <1>3, <1>4, <1>5, <1>6, <1>8, <1>9 DEF CallStep
<1> QED BY <1>2, <1>9, <1>10, FaultCounts, CallStepInvariant

LEMMA LateIsLegit ==
  ASSUME WInv, NEW l \in late
  PROVE  /\ l.run \in Runs /\ l.phase \in Phases /\ LateWrites
         /\ Legit(l.run, l.phase, l.call, l.changes)
         /\ at[l.run][l.phase].mode # "calling"
<1>1. LateFine(l) /\ LateWrites
  BY DEF WInv
<1>2. l.run \in Runs /\ l.phase \in Phases
  BY <1>1 DEF LateFine
<1>3. WorkflowFine(l.run, l.phase)
  BY <1>2, EachRun DEF OfRun
<1>4. at[l.run][l.phase].mode \in {"closing", "failing", "done"}
  BY <1>1 DEF LateFine
<1>5. <<l.run, l.phase>> \in intents
  BY <1>3, <1>4 DEF WorkflowFine
<1> QED BY <1>1, <1>2, <1>4, <1>5 DEF LateFine, Legit

LEMMA LandLateCallKeeps ==
  ASSUME WInv, LandLateCall
  PROVE  WInv'
<1>1. PICK l \in late, reply \in Replies :
        /\ StoreCall(l.run, l.phase, l.call, l.changes, reply)
        /\ late' = late \ {l}
        /\ UNCHANGED <<intents, at, faults, unrecorded, saved, deployed>>
  BY DEF LandLateCall
<1>2. /\ l.run \in Runs /\ l.phase \in Phases /\ LateWrites
      /\ Legit(l.run, l.phase, l.call, l.changes)
      /\ at[l.run][l.phase].mode # "calling"
  BY LateIsLegit
<1>3. Effect(l.run, l.phase, l.call, l.changes)
  BY <1>1, <1>2, CallHasEffect
<1>4. IInv' /\ TypeOK'
  BY <1>1, <1>2, CallKeepsStore
<1>5. OthersStay(l.run, l.phase) /\ Resumes(l.run, l.phase, l.call, l.changes)
  BY <1>1, <1>2 DEF OthersStay, Resumes, WInv, WorkflowsTypeOK
<1>6. CallStep(l.run, l.phase, l.call, l.changes)
  BY <1>1, <1>2, <1>3, <1>4, <1>5 DEF CallStep
<1>7. late' \subseteq late /\ faults' \in 0 .. MaxFaults /\ unrecorded' \subseteq Runs
  BY <1>1 DEF WInv, WorkflowsTypeOK
<1> QED BY <1>2, <1>6, <1>7, CallStepInvariant

-----------------------------------------------------------------------------
(* Steps the tables do not see.                                            *)

\* What run r's work leaves deployed.
Deploys(r) ==
  /\ SomeCarrying(r)
  /\ \E d \in {r, NoRun, Unknown} : deployed' = [deployed EXCEPT ![template[r]] = d]

QuietStep(r, p) ==
  /\ UNCHANGED <<vars, intents>> /\ OthersStay(r, p)
  /\ unrecorded \subseteq unrecorded' /\ unrecorded' \subseteq Runs
  /\ saved' \subseteq Runs /\ \A q \in Runs \ {r} : q \in saved => q \in saved'
  /\ deployed' = deployed \/ Deploys(r)

LEMMA QuietStepElsewhere ==
  ASSUME WInv, NEW r \in Runs, NEW p \in Phases, QuietStep(r, p), NEW q \in Runs, q # r
  PROVE  RunKept(q) /\ (SomeCarrying(q) => DeedsStand(q))
<1>1. at'[q] = at[q]
  BY DEF QuietStep, OthersStay, WInv, WorkflowsTypeOK, Phases
<1>2. RunKept(q)
  BY <1>1 DEF QuietStep, vars, runVars, executionVars, RunKept
<1>3. ASSUME SomeCarrying(q) PROVE DeedsStand(q)
  <2>1. deployed'[template[q]] = deployed[template[q]]
    <3>1. CASE deployed' = deployed
      BY <3>1
    <3>2. CASE Deploys(r)
      <4>1. status[r] = "running" /\ SomeCarrying(r)
        BY <3>2, EachRun DEF Deploys, OfRun, RunInvariant, SomeCarrying, Phases
      <4>2. template[r] # template[q]
        BY <1>3, <4>1, AloneInTemplate DEF InFlight
      <4>3. deployed \in [StackTemplates -> Runs \cup {NoRun, Unknown}]
            /\ template[q] \in StackTemplates
        BY DEF WInv, WorkflowsTypeOK, TypeOK
      <4> QED BY <3>2, <4>2, <4>3 DEF Deploys
    <3> QED BY <3>1, <3>2 DEF QuietStep
  <2> QED BY <2>1 DEF QuietStep, vars, runVars, templateVars, DeedsStand
<1> QED BY <1>2, <1>3

LEMMA QuietStepInvariant ==
  ASSUME WInv, NEW r \in Runs, NEW p \in Phases, QuietStep(r, p),
         WorkflowFine(r, p)', SavedFine(r)', DeedsFine(r)', faults' \in 0 .. MaxFaults,
         \A l \in late' : LateFine(l)' /\ LateWrites
  PROVE  WInv'
<1>1. OfRun(r) /\ WorkflowsTypeOK
  BY EachRun
<1>2. RunFine(r)' /\ \A x \in Phases : IntentFine(r, x)'
  BY <1>1 DEF OfRun, QuietStep, RunFine, IntentFine, vars, runVars, executionVars
<1>3. ASSUME NEW x \in Phases, x # p PROVE WorkflowFine(r, x)'
  <2>1. at'[r][x] = at[r][x]
    BY <1>3 DEF QuietStep, OthersStay
  <2>2. Program(r, x)' = Program(r, x) /\ Carries(r, x)' = Carries(r, x)
    BY <2>1, ProgramKept DEF QuietStep, vars, runVars
  <2> QED BY <1>1, <2>1, <2>2
          DEF OfRun, WorkflowFine, QuietStep, vars, runVars, executionVars, Begin, Over, Carrying
<1>4. ASSUME NEW q \in Runs
      PROVE  (/\ RunFine(q) /\ SavedFine(q) /\ DeedsFine(q)
              /\ \A x \in Phases : WorkflowFine(q, x) /\ IntentFine(q, x))'
  <2>1. CASE q = r
    BY <1>2, <1>3, <2>1
  <2>2. CASE q # r
    BY <2>2, QuietStepElsewhere, RunKeptFine, RunKeptDeeds
  <2> QED BY <2>1, <2>2
<1>5. ASSUME NEW t \in StackTemplates PROVE DestroyingFine(t)' /\ DeployedFine(t)'
  <2>1. DestroyingFine(t)'
    BY DEF WInv, DestroyingFine, QuietStep, vars, runVars, executionVars, templateVars, Carrying
  <2>2. DeployedFine(t)'
    <3>1. CASE deployed' = deployed
      BY <3>1 DEF WInv, DeployedFine, QuietStep, vars, runVars
    <3>2. CASE Deploys(r)
      <4>1. status[r] # "absent"
        BY <1>1, <3>2 DEF Deploys, OfRun, RunInvariant, SomeCarrying, Phases
      <4>2. /\ deployed \in [StackTemplates -> Runs \cup {NoRun, Unknown}]
            /\ NoRun \notin Runs /\ Unknown \notin Runs
        BY <1>1, UnknownAssumption, NoRunAssumption DEF WorkflowsTypeOK
      <4>3. deployed'[t] \in Runs => deployed'[t] \in {r, deployed[t]}
        BY <3>2, <4>2 DEF Deploys
      <4> QED BY <4>1, <4>3 DEF WInv, DeployedFine, QuietStep, vars, runVars
    <3> QED BY <3>1, <3>2 DEF QuietStep
  <2> QED BY <2>1, <2>2
<1>6. IInv' /\ TypeOK'
  <2>1. [Next]_vars
    BY DEF QuietStep
  <2>2. IInv'
    BY <2>1, Inductive DEF WInv
  <2> QED BY <2>2 DEF IInv
<1>7. WorkflowsTypeOK'
  <2>1. deployed' \in [StackTemplates -> Runs \cup {NoRun, Unknown}]
    BY <1>1 DEF QuietStep, Deploys, WorkflowsTypeOK
  <2> QED BY <1>1, <1>6, <2>1 DEF QuietStep, OthersStay, WorkflowsTypeOK
<1> QED BY <1>4, <1>5, <1>6, <1>7 DEF WInv

-----------------------------------------------------------------------------
(* A workflow that stops, and one that moves on.                           *)

\* Only an apply removes the saved plan, and only once it has begun.
PlanStaysSaved(r, p) == r \in saved => r \in saved' \/ (p = "apply" /\ at[r][p].next > 1)

LEMMA PlanStillSaved ==
  ASSUME WInv, NEW r \in Runs, NEW p \in Phases, QuietStep(r, p), PlanStaysSaved(r, p),
         at[r][p].mode # "idle"
  PROVE  /\ Carrying(r, "plan") \/ status[r] \in {"waiting_approval", "approved"} =>
              (r \in saved => r \in saved')
         /\ status[r] \in {"waiting_approval", "approved"} => planKey[r]' /\ r \in saved'
<1>1. OfRun(r)
  BY EachRun
<1>2. WorkflowFine(r, p) /\ RunInvariant(r) /\ SavedFine(r)
  BY <1>1 DEF OfRun
<1>3. ASSUME p = "apply", at[r][p].next > 1
      PROVE  ~Carrying(r, "plan") /\ status[r] \notin {"waiting_approval", "approved"}
  <2>1. ~Carrying(r, "plan")
    BY <1>2, <1>3, HeldByItself DEF WorkflowFine
  <2> QED BY <1>2, <1>3, <2>1 DEF WorkflowFine, RunInvariant
<1> QED BY <1>2, <1>3 DEF PlanStaysSaved, QuietStep, vars, runVars, SavedFine

LEMMA StopsQuietly ==
  ASSUME WInv, NEW r \in Runs, NEW p \in Phases, QuietStep(r, p), PlanStaysSaved(r, p),
         at[r][p].mode # "idle",
         at'[r][p].next = at[r][p].next, at'[r][p].changes = at[r][p].changes,
         at'[r][p].mode \in {"closing", "failing", "done"},
         at'[r][p].mode = "closing" => at[r][p].next > 1,
         at'[r][p].mode = "done" => r \in unrecorded',
         \/ deployed' = deployed
         \/ at[r][p].mode = "working" /\ Program(r, p)[at[r][p].next] = Step("applying")
  PROVE  WorkflowFine(r, p)' /\ SavedFine(r)' /\ DeedsFine(r)'
<1>1. OfRun(r) /\ WorkflowsTypeOK
  BY EachRun
<1>2. /\ WorkflowFine(r, p) /\ RunInvariant(r) /\ SavedFine(r) /\ DeedsFine(r)
      /\ UNCHANGED <<status, execution, planKey, operation, autoApprove, template, snapshot,
                     lifecycle, lastAppliedRun, intents>>
  BY <1>1 DEF OfRun, QuietStep, vars, runVars, executionVars, templateVars
<1>3. \A x \in Phases : at'[r][x].next = at[r][x].next /\ at'[r][x].changes = at[r][x].changes
  BY DEF QuietStep, OthersStay
<1>4. \A x \in Phases : Program(r, x)' = Program(r, x) /\ Carries(r, x)' = Carries(r, x)
  BY <1>2, <1>3, ProgramKept
<1>5. \A x \in Phases : \A c : Past(r, x, c)' = Past(r, x, c)
  BY <1>3, <1>4, PastKept
<1>6. WorkflowFine(r, p)'
  BY <1>2, <1>4 DEF WorkflowFine, Begin
<1>7. \A x \in Phases : Carrying(r, x)' = Carrying(r, x)
  BY <1>2 DEF Carrying
<1>8. SavedFine(r)'
  <2>1. Past(r, "plan", Do("create_key"))' = Past(r, "plan", Do("create_key"))
    BY <1>5 DEF Phases
  <2>2. Past(r, "plan", Step("saving_plan"))' = Past(r, "plan", Step("saving_plan"))
    BY <1>5 DEF Phases
  <2>3. Carrying(r, "plan")' = Carrying(r, "plan")
    BY <1>7 DEF Phases
  <2> QED BY <1>2, <2>1, <2>2, <2>3, PlanStillSaved DEF SavedFine
<1>9. DeedsFine(r)'
  <2>1. /\ Past(r, "apply", Step("applying"))' = Past(r, "apply", Step("applying"))
        /\ Past(r, "apply", Event("applied"))' = Past(r, "apply", Event("applied"))
        /\ Past(r, "plan", Step("planning"))' = Past(r, "plan", Step("planning"))
        /\ Past(r, "plan", Do("finish"))' = Past(r, "plan", Do("finish"))
        /\ \A x \in Phases : Past(r, x, Event("destroyed"))' = Past(r, x, Event("destroyed"))
    BY <1>5 DEF Phases
  <2>2. Live(r)' = Live(r)
    BY <1>2 DEF Live
  <2>3. /\ (lifecycle[template[r]] = "destroyed")' = (lifecycle[template[r]] = "destroyed")
        /\ (~at[r]["plan"].changes)' = ~at[r]["plan"].changes
        /\ (operation[r] # "plan")' = (operation[r] # "plan")
        /\ (operation[r] = "apply")' = (operation[r] = "apply")
    BY <1>2, <1>3 DEF Phases
  <2>4. /\ Carrying(r, "plan")' = Carrying(r, "plan")
        /\ Carrying(r, "apply")' = Carrying(r, "apply")
    BY <1>7 DEF Phases
  <2>5. CASE deployed' = deployed
    <3>1. Deployed(r)' = Deployed(r)
      BY <1>2, <2>5 DEF Deployed
    <3> QED BY <1>2, <1>7, <2>1, <2>2, <2>3, <2>4, <3>1, Zenon DEF DeedsFine
  <2>6. CASE at[r][p].mode = "working" /\ Program(r, p)[at[r][p].next] = Step("applying")
    <3>1. at[r][p].next \in 1 .. Len(Program(r, p)) /\ Carries(r, p)
      BY <2>6, Place
    <3>2. p = "apply" /\ ~Past(r, "apply", Step("applying"))
      BY <2>6, <3>1, ProgramCalls DEF PlanOrder, ApplyOrder, Past, Phases, Step
    <3>3. ~Carrying(r, "plan")
      BY <2>6, <3>2, Place, HeldByItself
    <3> QED BY <1>2, <1>7, <2>1, <2>2, <2>3, <2>4, <3>2, <3>3, Zenon DEF DeedsFine
  <2> QED BY <2>5, <2>6
<1> QED BY <1>6, <1>8, <1>9

LEMMA AdvancesQuietly ==
  ASSUME WInv, NEW r \in Runs, NEW p \in Phases, QuietStep(r, p), PlanStaysSaved(r, p),
         at[r][p].mode \in {"calling", "working"},
         Program(r, p)[at[r][p].next].do \in {"step", "close"},
         Program(r, p)[at[r][p].next] # Step("planning"), at[r][p].next > 1,
         at'[r][p].next = at[r][p].next + 1, at'[r][p].changes = at[r][p].changes,
         at'[r][p].mode = "calling", at[r][p].next < Len(Program(r, p)),
         Program(r, p)[at[r][p].next] = Step("saving_plan") => r \in saved',
         deployed' = IF Program(r, p)[at[r][p].next] = Step("applying") THEN Deploy(r)
                     ELSE deployed
  PROVE  WorkflowFine(r, p)' /\ SavedFine(r)' /\ DeedsFine(r)'
<1> DEFINE call == Program(r, p)[at[r][p].next]
<1>1. OfRun(r) /\ WorkflowsTypeOK
  BY EachRun
<1>2. /\ WorkflowFine(r, p) /\ RunInvariant(r) /\ SavedFine(r) /\ DeedsFine(r)
      /\ UNCHANGED <<status, execution, planKey, operation, autoApprove, template, snapshot,
                     lifecycle, lastAppliedRun, intents>>
  BY <1>1 DEF OfRun, QuietStep, vars, runVars, executionVars, templateVars
<1>3. /\ at[r][p].next \in 1 .. Len(Program(r, p)) /\ at[r][p].next \in 1..13
      /\ Len(Program(r, p)) \in 10 .. 13 /\ Carries(r, p) /\ <<r, p>> \in intents
      /\ Carrying(r, p) /\ at[r][p].next + 1 \in 1 .. Len(Program(r, p)) /\ at[r][p].next + 1 > 1
  BY Place
<1>4. \A x \in Phases : at'[r][x].changes = at[r][x].changes
  BY DEF QuietStep, OthersStay
<1>5. \A x \in Phases : Program(r, x)' = Program(r, x) /\ Carries(r, x)' = Carries(r, x)
  BY <1>2, <1>4, ProgramKept
<1>6. ASSUME NEW x \in Phases, NEW c, Past(r, x, c)'
      PROVE  Past(r, x, c) \/ (x = p /\ c = call)
  <2>1. CASE x = p
    <3>1. at[r][p].next \in Nat \ {0}
      BY <1>3
    <3> QED BY <1>5, <1>6, <2>1, <3>1, PastAdvances
  <2>2. CASE x # p
    <3>1. at'[r][x].next = at[r][x].next
      BY <2>2 DEF QuietStep, OthersStay
    <3> QED BY <1>5, <1>6, <3>1, PastKept
  <2> QED BY <2>1, <2>2
<1>7. /\ call.do \notin {"create_key", "event", "finish"}
      /\ call # Step("planning")
      /\ call = Step("saving_plan") => r \in saved'
      /\ deployed' = IF call = Step("applying") THEN Deploy(r) ELSE deployed
  OBVIOUS
<1> HIDE DEF call
<1>8. \A x \in Phases : Carrying(r, x)' = Carrying(r, x)
  BY <1>2 DEF Carrying
<1>9. WorkflowFine(r, p)'
  <2>1. Carrying(r, p)' /\ execution'[r][p] # "none"
    BY <1>3, <1>8 DEF Carrying
  <2>2. ~Begin(r, p)'
    BY <1>3 DEF Begin
  <2> QED BY <1>2, <1>3, <1>5, <2>1, <2>2 DEF WorkflowFine
<1>10. SavedFine(r)'
  <2>1. Past(r, "plan", Do("create_key"))' => Past(r, "plan", Do("create_key"))
    BY <1>6, <1>7 DEF Phases, Do
  <2>2. Past(r, "plan", Step("saving_plan"))' =>
          Past(r, "plan", Step("saving_plan")) \/ r \in saved'
    BY <1>6, <1>7 DEF Phases
  <2>3. Carrying(r, "plan")' = Carrying(r, "plan")
    BY <1>8 DEF Phases
  <2> QED BY <1>2, <2>1, <2>2, <2>3, PlanStillSaved DEF SavedFine
<1>11. DeedsFine(r)'
  <2>1. /\ Past(r, "apply", Event("applied"))' => Past(r, "apply", Event("applied"))
        /\ Past(r, "plan", Step("planning"))' => Past(r, "plan", Step("planning"))
        /\ Past(r, "plan", Do("finish"))' => Past(r, "plan", Do("finish"))
        /\ \A x \in Phases : Past(r, x, Event("destroyed"))' => Past(r, x, Event("destroyed"))
    BY <1>6, <1>7 DEF Phases, Event, Do
  <2>2. Live(r)' = Live(r)
    BY <1>2 DEF Live
  <2>3. /\ (lifecycle[template[r]] = "destroyed")' = (lifecycle[template[r]] = "destroyed")
        /\ (~at[r]["plan"].changes)' = ~at[r]["plan"].changes
        /\ (operation[r] # "plan")' = (operation[r] # "plan")
        /\ (operation[r] = "apply")' = (operation[r] = "apply")
    BY <1>2, <1>4 DEF Phases
  <2>4. /\ Carrying(r, "plan")' = Carrying(r, "plan")
        /\ Carrying(r, "apply")' = Carrying(r, "apply")
    BY <1>8 DEF Phases
  <2>5. CASE call # Step("applying")
    <3>1. Deployed(r)' = Deployed(r)
      BY <1>2, <1>7, <2>5 DEF Deployed
    <3>2. Past(r, "apply", Step("applying"))' => Past(r, "apply", Step("applying"))
      BY <1>6, <2>5 DEF Phases
    <3> QED BY <1>2, <1>8, <2>1, <2>2, <2>3, <2>4, <3>1, <3>2, Zenon DEF DeedsFine
  <2>6. CASE call = Step("applying")
    <3>1. p = "apply"
      BY <1>3, <2>6, ProgramCalls DEF PlanOrder, Phases, Step, call
    <3>2. ~Carrying(r, "plan")
      BY <1>3, <3>1, HeldByItself
    <3>3. Deployed(r)'
      <4>1. deployed \in [StackTemplates -> Runs \cup {NoRun, Unknown}]
            /\ template[r] \in StackTemplates
        BY <1>1, EachRun DEF WorkflowsTypeOK, TypeOK
      <4> QED BY <1>2, <1>7, <2>6, <4>1 DEF Deployed, Deploy
    <3> QED BY <1>2, <1>8, <2>1, <2>2, <2>3, <2>4, <3>2, <3>3, Zenon DEF DeedsFine
  <2> QED BY <2>5, <2>6
<1> QED BY <1>9, <1>10, <1>11

LEMMA LongEnough ==
  ASSUME NEW len \in 10 .. 13, NEW j \in 1 .. 8
  PROVE  j \in 1 .. len
  OBVIOUS

LEMMA StartsQuietly ==
  ASSUME WInv, NEW r \in Runs, NEW p \in Phases, StartWorkflow(r, p)
  PROVE  /\ QuietStep(r, p) /\ WorkflowFine(r, p)' /\ SavedFine(r)' /\ DeedsFine(r)'
         /\ \A l \in late : LateFine(l)'
<1>1. OfRun(r) /\ WorkflowsTypeOK
  BY EachRun
<1>2. /\ WorkflowFine(r, p) /\ SavedFine(r) /\ DeedsFine(r)
  BY <1>1 DEF OfRun
<1>3. /\ at[r][p].mode = "idle" /\ <<r, p>> \in intents
      /\ UNCHANGED <<vars, intents, late, faults, unrecorded, saved, deployed>>
      /\ Goto(r, p, IF Carries(r, p) THEN "calling" ELSE "failing", 1)
  BY DEF StartWorkflow
<1>4. at[r][p].next = 0 /\ execution[r][p] = "none"
  BY <1>2, <1>3 DEF WorkflowFine, Begin
<1>5. Moves(r, p, IF Carries(r, p) THEN "calling" ELSE "failing", 1)
  BY <1>1, <1>3, GotoMoves DEF Modes
<1>6. UNCHANGED <<status, execution, planKey, operation, autoApprove, template, snapshot,
                  lifecycle, lastAppliedRun, intents>>
  BY <1>3 DEF vars, runVars, executionVars, templateVars
<1>7. QuietStep(r, p)
  BY <1>1, <1>3, <1>5 DEF QuietStep, Moves, WorkflowsTypeOK
<1>8. Program(r, p)' = Program(r, p) /\ Carries(r, p)' = Carries(r, p)
  BY <1>5, <1>6, ProgramKept DEF Moves
<1>9. \A x \in Phases : x # p => at'[r][x] = at[r][x]
  BY <1>5 DEF Moves, OthersStay
<1>10. \A x \in Phases : at'[r][x].changes = at[r][x].changes
  BY <1>5, <1>9 DEF Moves
<1>11. \A x \in Phases : Program(r, x)' = Program(r, x)
  BY <1>6, <1>10, ProgramKept
<1>12. ASSUME NEW x \in Phases, NEW c PROVE Past(r, x, c)' <=> Past(r, x, c)
  <2>1. CASE x = p
    <3>1. at'[r][p].next = 1
      BY <1>5 DEF Moves
    <3> QED BY <1>4, <2>1, <3>1 DEF Past, Before
  <2>2. CASE x # p
    BY <1>9, <1>11, <2>2, PastKept
  <2> QED BY <2>1, <2>2
<1>13. \A x \in Phases : Carrying(r, x)' = Carrying(r, x)
  BY <1>6 DEF Carrying
<1>14. WorkflowFine(r, p)'
  <2>1. Len(Program(r, p)) \in 10 .. 13
    BY ProgramLength
  <2>2. 1 \in 1 .. Len(Program(r, p))
    BY <2>1, LongEnough
  <2> QED BY <1>3, <1>4, <1>5, <1>6, <1>8, <2>2 DEF Moves, WorkflowFine, Begin
<1>15. SavedFine(r)'
  <2>1. Past(r, "plan", Do("create_key"))' <=> Past(r, "plan", Do("create_key"))
    BY <1>12 DEF Phases
  <2>2. Past(r, "plan", Step("saving_plan"))' <=> Past(r, "plan", Step("saving_plan"))
    BY <1>12 DEF Phases
  <2> QED BY <1>2, <1>3, <1>6, <2>1, <2>2 DEF SavedFine, Carrying
<1>16. DeedsFine(r)'
  <2>1. /\ Past(r, "apply", Step("applying"))' <=> Past(r, "apply", Step("applying"))
        /\ Past(r, "apply", Event("applied"))' <=> Past(r, "apply", Event("applied"))
        /\ Past(r, "plan", Step("planning"))' <=> Past(r, "plan", Step("planning"))
        /\ Past(r, "plan", Do("finish"))' <=> Past(r, "plan", Do("finish"))
        /\ \A x \in Phases : Past(r, x, Event("destroyed"))' <=> Past(r, x, Event("destroyed"))
    BY <1>12 DEF Phases
  <2>2. Live(r)' = Live(r) /\ Deployed(r)' = Deployed(r)
    BY <1>3, <1>6 DEF Live, Deployed
  <2>3. /\ (lifecycle[template[r]] = "destroyed")' = (lifecycle[template[r]] = "destroyed")
        /\ (~at[r]["plan"].changes)' = ~at[r]["plan"].changes
        /\ (operation[r] # "plan")' = (operation[r] # "plan")
        /\ (operation[r] = "apply")' = (operation[r] = "apply")
    BY <1>6, <1>10 DEF Phases
  <2>4. /\ Carrying(r, "plan")' = Carrying(r, "plan")
        /\ Carrying(r, "apply")' = Carrying(r, "apply")
    BY <1>13 DEF Phases
  <2> QED BY <1>2, <1>13, <2>1, <2>2, <2>3, <2>4, Zenon DEF DeedsFine
<1>17. ASSUME NEW l \in late PROVE LateFine(l)'
  <2>1. LateFine(l) /\ l.run \in Runs /\ l.phase \in Phases
    BY DEF WInv, LateFine
  <2>2. StaysStopped(l.run, l.phase)
    BY <1>3, <1>5, <2>1 DEF Moves, OthersStay, StaysStopped
  <2> QED BY <1>3, <1>6, <2>1, <2>2, LateKept
<1> QED BY <1>7, <1>14, <1>15, <1>16, <1>17

\* The plan is made: its workflow goes by what the plan found.
LEMMA PlansQuietly ==
  ASSUME WInv, NEW r \in Runs, NEW p \in Phases, QuietStep(r, p),
         at[r][p].mode = "working", Program(r, p)[at[r][p].next] = Step("planning"),
         saved' = saved, deployed' = deployed, NEW changes \in PlanMayFind(r),
         at' = [at EXCEPT ![r][p] = [mode |-> "calling", changes |-> changes,
                                     next |-> at[r][p].next + 1]]
  PROVE  WorkflowFine(r, p)' /\ SavedFine(r)' /\ DeedsFine(r)'
<1>1. OfRun(r) /\ WorkflowsTypeOK
  BY EachRun
<1>2. /\ WorkflowFine(r, p) /\ RunInvariant(r) /\ SavedFine(r) /\ DeedsFine(r)
      /\ UNCHANGED <<status, execution, planKey, operation, autoApprove, template, snapshot,
                     lifecycle, lastAppliedRun, intents>>
  BY <1>1 DEF OfRun, QuietStep, vars, runVars, executionVars, templateVars
<1>3. /\ at[r][p].next \in 1 .. Len(Program(r, p)) /\ Carries(r, p) /\ <<r, p>> \in intents
      /\ at[r][p].next # 1 => at[r][p].next > 1 /\ Carrying(r, p)
  BY Place
<1>4. p = "plan" /\ at[r][p].next = 7
  BY <1>3, ProgramCalls DEF PlanOrder, ApplyOrder, Phases, Step
<1>5. Carrying(r, "plan") /\ ~Carrying(r, "apply")
  BY <1>2, <1>3, <1>4 DEF RunInvariant
<1>6. changes \in BOOLEAN /\ (~changes => Deployed(r))
  BY DEF PlanMayFind, Deployed
<1>7. /\ at'[r]["plan"].mode = "calling" /\ at'[r]["plan"].next = 8
      /\ at'[r]["plan"].changes = changes
  <2> DEFINE w == [mode |-> "calling", changes |-> changes, next |-> 8]
  <2>1. w \in [mode : Modes, next : 0..20, changes : BOOLEAN]
    BY <1>6 DEF Modes
  <2>2. at[r][p].next + 1 = 8
    BY <1>4
  <2>3. at' = [at EXCEPT ![r][p] = w]
    BY <2>2
  <2>4. w.mode = "calling" /\ w.next = 8 /\ w.changes = changes
    OBVIOUS
  <2> HIDE DEF w
  <2>5. at'[r][p] = w
    BY <1>1, <2>3 DEF WorkflowsTypeOK
  <2> QED BY <1>4, <2>4, <2>5
<1>8. Program(r, "plan")' = PlanProgram(r, changes)
  BY <1>2, <1>7 DEF Program, PlanProgram
<1>9. PlanOrder(PlanProgram(r, changes), changes /\ operation[r] # "plan",
                ~changes /\ operation[r] = "destroy")
  BY <1>6, PlanCalls
<1>10. ASSUME NEW c, Past(r, "plan", c)' PROVE c.do \in {"running", "step"} /\ c.arg # "saving_plan"
  <2>1. PICK j \in 1 .. 7 : PlanProgram(r, changes)[j] = c
    BY <1>7, <1>8, <1>10 DEF Past, Before
  <2>2. Len(PlanProgram(r, changes)) \in 10 .. 13
    BY <1>9 DEF PlanOrder
  <2>3. j < 8 /\ j \in 1 .. 8
    OBVIOUS
  <2>4. j \in 1 .. Len(PlanProgram(r, changes))
    BY <2>2, <2>3, LongEnough
  <2> QED BY <1>9, <2>1, <2>3, <2>4 DEF PlanOrder
<1>11. WorkflowFine(r, p)'
  <2>1. Len(PlanProgram(r, changes)) \in 10 .. 13
    BY <1>9 DEF PlanOrder
  <2>2. 8 \in 1 .. Len(PlanProgram(r, changes))
    <3>1. 8 \in 1 .. 8
      OBVIOUS
    <3> QED BY <2>1, <3>1, LongEnough, Zenon
  <2>3. Carries(r, "plan")' /\ Carrying(r, "plan")' /\ execution'[r]["plan"] # "none"
    BY <1>2, <1>3, <1>4, <1>5 DEF Carries, Carrying
  <2>4. <<r, "plan">> \in intents'
    BY <1>2, <1>3, <1>4
  <2> QED BY <1>4, <1>7, <1>8, <2>2, <2>3, <2>4 DEF WorkflowFine, Begin
<1>12. SavedFine(r)'
  <2>1. ~Past(r, "plan", Do("create_key"))'
    BY <1>10 DEF Do
  <2>2. ~Past(r, "plan", Step("saving_plan"))'
    BY <1>10 DEF Step
  <2> QED BY <1>2, <2>1, <2>2 DEF SavedFine
<1>13. DeedsFine(r)'
  <2>1. ~Past(r, "plan", Do("finish"))' /\ ~Past(r, "plan", Event("destroyed"))'
    BY <1>10 DEF Do, Event
  <2>2. ~Carrying(r, "apply")'
    BY <1>2, <1>5 DEF Carrying
  <2>3. \A x \in Phases : ~(Carrying(r, x)' /\ Past(r, x, Event("destroyed"))')
    BY <2>1, <2>2 DEF Phases
  <2>4. ~changes => Deployed(r)'
    BY <1>2, <1>6 DEF Deployed
  <2> QED BY <1>7, <2>1, <2>2, <2>3, <2>4, Zenon DEF DeedsFine
<1> QED BY <1>11, <1>12, <1>13

LEMMA QuietStepLate ==
  ASSUME WInv, NEW r \in Runs, NEW p \in Phases, QuietStep(r, p), StaysStopped(r, p)
  PROVE  \A l \in late : LateFine(l)' /\ LateWrites
<1>1. ASSUME NEW l \in late PROVE LateFine(l)'
  <2>1. LateFine(l) /\ l.run \in Runs /\ l.phase \in Phases
    BY DEF WInv, LateFine
  <2>2. StaysStopped(l.run, l.phase)
    BY <2>1 DEF QuietStep, OthersStay, StaysStopped
  <2> QED BY <2>1, <2>2, LateKept DEF QuietStep, vars, runVars
<1> QED BY <1>1 DEF WInv

\* A call that goes wrong before it commits.
LEMMA ErrorIsQuiet ==
  ASSUME WInv, NEW r \in Runs, NEW p \in Phases, IsStoreCall(r, p), Error(r, p),
         Unrecorded(r, p), UNCHANGED <<vars, intents, saved, deployed>>
  PROVE  /\ QuietStep(r, p) /\ WorkflowFine(r, p)' /\ SavedFine(r)' /\ DeedsFine(r)'
         /\ at[r][p].mode \in {"calling", "failing"}
         /\ at'[r][p].mode \in {"closing", "failing", "done"}
         /\ at'[r][p].next = at[r][p].next /\ at'[r][p].changes = at[r][p].changes
         /\ at[r][p].mode = "failing" => at'[r][p].mode = "done" /\ r \in unrecorded'
<1>1. at[r][p].mode \in {"calling", "failing"}
  BY CurrentIsLegit
<1>2. /\ OthersStay(r, p)
      /\ at'[r][p].changes = at[r][p].changes /\ at'[r][p].next = at[r][p].next
      /\ IF at[r][p].mode = "failing" THEN at'[r][p].mode = "done"
         ELSE at'[r][p].mode \in {"closing", "failing"}
      /\ at'[r][p].mode = "closing" => at[r][p].next > 1
  BY <1>1, ErrorMoves
<1>3. /\ at[r][p].mode = "failing" => r \in unrecorded'
      /\ unrecorded \subseteq unrecorded' /\ unrecorded' \subseteq Runs
  BY DEF Unrecorded, WInv, WorkflowsTypeOK
<1>4. QuietStep(r, p)
  BY <1>2, <1>3 DEF QuietStep, WInv, WorkflowsTypeOK
<1>5. PlanStaysSaved(r, p)
  BY DEF PlanStaysSaved
<1>6. at'[r][p].mode \in {"closing", "failing", "done"} /\ at[r][p].mode # "idle"
      /\ (at'[r][p].mode = "done" => r \in unrecorded')
  BY <1>1, <1>2, <1>3
<1>7. WorkflowFine(r, p)' /\ SavedFine(r)' /\ DeedsFine(r)'
  BY <1>2, <1>4, <1>5, <1>6, StopsQuietly
<1> QED BY <1>1, <1>2, <1>3, <1>4, <1>6, <1>7

LEMMA LoseCallKeeps ==
  ASSUME WInv, NEW r \in Runs, NEW p \in Phases, LoseCall(r, p)
  PROVE  WInv'
<1>1. /\ IsStoreCall(r, p) /\ Fault /\ Error(r, p) /\ Unrecorded(r, p)
      /\ UNCHANGED <<vars, intents, late, saved, deployed>>
  BY DEF LoseCall
<1>2. /\ QuietStep(r, p) /\ WorkflowFine(r, p)' /\ SavedFine(r)' /\ DeedsFine(r)'
      /\ at[r][p].mode \in {"calling", "failing"}
      /\ at'[r][p].mode \in {"closing", "failing", "done"}
      /\ at'[r][p].next = at[r][p].next /\ at'[r][p].changes = at[r][p].changes
      /\ at[r][p].mode = "failing" => at'[r][p].mode = "done"
  BY <1>1, ErrorIsQuiet
<1>3. StaysStopped(r, p)
  BY <1>2 DEF StaysStopped
<1>4. \A l \in late : LateFine(l)' /\ LateWrites
  BY <1>2, <1>3, QuietStepLate
<1>5. faults' \in 0 .. MaxFaults
  BY <1>1, FaultCounts
<1> QED BY <1>1, <1>2, <1>4, <1>5, QuietStepInvariant

LEMMA DelayCallKeeps ==
  ASSUME WInv, NEW r \in Runs, NEW p \in Phases, DelayCall(r, p)
  PROVE  WInv'
<1> DEFINE new == [run |-> r, phase |-> p, call |-> Current(r, p), changes |-> at[r][p].changes]
<1>1. /\ IsStoreCall(r, p) /\ Fault /\ Error(r, p) /\ Unrecorded(r, p) /\ LateWrites
      /\ UNCHANGED <<vars, intents, saved, deployed>>
      /\ late' = late \cup {new}
  BY DEF DelayCall
<1>2. /\ QuietStep(r, p) /\ WorkflowFine(r, p)' /\ SavedFine(r)' /\ DeedsFine(r)'
      /\ at[r][p].mode \in {"calling", "failing"}
      /\ at'[r][p].mode \in {"closing", "failing", "done"}
      /\ at'[r][p].next = at[r][p].next /\ at'[r][p].changes = at[r][p].changes
      /\ at[r][p].mode = "failing" => at'[r][p].mode = "done" /\ r \in unrecorded'
  BY <1>1, ErrorIsQuiet
<1>3. StaysStopped(r, p)
  BY <1>2 DEF StaysStopped
<1>4. \A l \in late : LateFine(l)' /\ LateWrites
  BY <1>2, <1>3, QuietStepLate
<1>5. faults' \in 0 .. MaxFaults
  BY <1>1, FaultCounts
<1>6. ASSUME NEW l, l = new PROVE LateFine(l)'
  <2>1. l.run = r /\ l.phase = p /\ l.call = Current(r, p) /\ l.changes = at[r][p].changes
    BY <1>6
  <2>2. l.changes \in BOOLEAN
    BY <2>1 DEF WInv, WorkflowsTypeOK
  <2> HIDE DEF new
  <2>3. CASE at[r][p].mode = "failing"
    BY <1>2, <2>1, <2>2, <2>3 DEF LateFine, Current
  <2>4. CASE at[r][p].mode = "calling"
    <3>1. Current(r, p) = Program(r, p)[at[r][p].next] /\ Current(r, p).do # "close"
      BY <1>1, <2>4 DEF IsStoreCall, Current
    <3>2. Carries(r, p)
      BY <2>4, Place
    <3>3. Program(r, p)' = Program(r, p) /\ Carries(r, p)' = Carries(r, p)
      BY <1>1, <1>2, ProgramKept DEF vars, runVars
    <3> QED BY <1>2, <2>1, <2>2, <3>1, <3>2, <3>3 DEF LateFine
  <2> QED BY <1>2, <2>3, <2>4
<1> HIDE DEF new
<1>7. \A l \in late' : LateFine(l)' /\ LateWrites
  BY <1>1, <1>4, <1>6
<1> QED BY <1>2, <1>5, <1>7, QuietStepInvariant

LEMMA StartWorkflowKeeps ==
  ASSUME WInv, NEW r \in Runs, NEW p \in Phases, StartWorkflow(r, p)
  PROVE  WInv'
<1>1. /\ QuietStep(r, p) /\ WorkflowFine(r, p)' /\ SavedFine(r)' /\ DeedsFine(r)'
      /\ \A l \in late : LateFine(l)'
  BY StartsQuietly
<1>2. late' = late /\ faults' = faults
  BY DEF StartWorkflow
<1>3. faults' \in 0 .. MaxFaults /\ \A l \in late' : LateFine(l)' /\ LateWrites
  BY <1>1, <1>2 DEF WInv, WorkflowsTypeOK
<1> QED BY <1>1, <1>3, QuietStepInvariant

\* What a workflow works on.
LEMMA WorkingOn ==
  ASSUME WInv, NEW r \in Runs, NEW p \in Phases, at[r][p].mode = "working"
  PROVE  /\ Current(r, p) = Program(r, p)[at[r][p].next]
         /\ Current(r, p) = Step(Current(r, p).arg)
         /\ at[r][p].next > 1 /\ at[r][p].next < Len(Program(r, p))
         /\ at[r][p].next + 1 \in 0..20
<1>1. WorkflowFine(r, p)
  BY EachRun DEF OfRun
<1>2. at[r][p].next \in 1 .. Len(Program(r, p)) /\ Program(r, p)[at[r][p].next].do = "step"
  BY <1>1 DEF WorkflowFine
<1>3. /\ Program(r, p)[at[r][p].next] = Step(Program(r, p)[at[r][p].next].arg)
      /\ at[r][p].next # 1 /\ at[r][p].next # Len(Program(r, p))
  BY <1>2, ProgramCalls DEF PlanOrder, ApplyOrder, Phases, Do
<1>4. /\ at[r][p].next > 1 /\ at[r][p].next < Len(Program(r, p))
      /\ at[r][p].next + 1 \in 0..20
  BY <1>3, Place
<1> QED BY <1>3, <1>4 DEF Current

LEMMA PlanningMoves ==
  ASSUME WInv, NEW r \in Runs, NEW p \in Phases, NEW changes \in PlanMayFind(r),
         at[r][p].mode = "working",
         at' = [at EXCEPT ![r][p] = [mode |-> "calling", changes |-> changes,
                                     next |-> at[r][p].next + 1]]
  PROVE  OthersStay(r, p) /\ at'[r][p].mode = "calling"
<1> DEFINE w == [mode |-> "calling", changes |-> changes, next |-> at[r][p].next + 1]
           Ws == [mode : Modes, next : 0..20, changes : BOOLEAN]
<1>1. at[r][p].next + 1 \in 0..20
  BY WorkingOn
<1>2. changes \in BOOLEAN
  BY DEF PlanMayFind
<1>3. w \in Ws /\ w.mode = "calling"
  BY <1>1, <1>2 DEF Modes
<1>4. at \in [Runs -> [Phases -> Ws]]
  BY DEF WInv, WorkflowsTypeOK
<1> HIDE DEF w, Ws
<1>5. at' = [at EXCEPT ![r][p] = w]
  BY DEF w
<1>6. at' \in [Runs -> [Phases -> Ws]] /\ at'[r][p] = w
  BY <1>3, <1>4, <1>5
<1>7. \A q \in Runs, x \in Phases : (q # r \/ x # p) => at'[q][x] = at[q][x]
  BY <1>4, <1>5
<1> QED BY <1>3, <1>6, <1>7 DEF OthersStay, Ws

LEMMA WorkKeeps ==
  ASSUME WInv, NEW r \in Runs, NEW p \in Phases, Work(r, p)
  PROVE  WInv'
<1> DEFINE s == Current(r, p).arg
<1>1. /\ at[r][p].mode = "working"
      /\ IF s = "planning"
         THEN \E changes \in PlanMayFind(r) :
                at' = [at EXCEPT ![r][p] = [mode |-> "calling", changes |-> changes,
                                            next |-> at[r][p].next + 1]]
         ELSE Advance(r, p)
      /\ saved' = IF s = "saving_plan" THEN saved \cup {r} ELSE saved
      /\ deployed' = IF s = "applying" THEN Deploy(r) ELSE deployed
      /\ UNCHANGED <<vars, intents, late, faults, unrecorded>>
  BY DEF Work
<1>2. /\ Current(r, p) = Program(r, p)[at[r][p].next] /\ Current(r, p) = Step(s)
      /\ at[r][p].next > 1 /\ at[r][p].next < Len(Program(r, p))
  BY <1>1, WorkingOn
<1> HIDE DEF s
<1>3. Carrying(r, p)
  BY <1>1, <1>2, Place
<1>4. deployed' = deployed \/ Deploys(r)
  BY <1>1, <1>3 DEF Deploys, SomeCarrying, Deploy
<1>5. /\ unrecorded \subseteq unrecorded' /\ unrecorded' \subseteq Runs /\ saved' \subseteq Runs
      /\ \A q \in Runs : q \in saved => q \in saved'
      /\ faults' \in 0 .. MaxFaults
  BY <1>1 DEF WInv, WorkflowsTypeOK
<1>6. ASSUME OthersStay(r, p), WorkflowFine(r, p)', SavedFine(r)', DeedsFine(r)'
      PROVE  WInv'
  <2>1. QuietStep(r, p)
    BY <1>1, <1>4, <1>5, <1>6 DEF QuietStep
  <2>2. StaysStopped(r, p)
    BY <1>1 DEF StaysStopped
  <2>3. \A l \in late' : LateFine(l)' /\ LateWrites
    BY <1>1, <2>1, <2>2, QuietStepLate
  <2> QED BY <1>5, <1>6, <2>1, <2>3, QuietStepInvariant
<1>7. CASE s = "planning"
  <2>1. PICK changes \in PlanMayFind(r) :
          at' = [at EXCEPT ![r][p] = [mode |-> "calling", changes |-> changes,
                                      next |-> at[r][p].next + 1]]
    BY <1>1, <1>7
  <2>2. OthersStay(r, p)
    BY <1>1, <2>1, PlanningMoves
  <2>3. QuietStep(r, p)
    BY <1>1, <1>4, <1>5, <2>2 DEF QuietStep
  <2>4. saved' = saved /\ deployed' = deployed /\ Program(r, p)[at[r][p].next] = Step("planning")
    BY <1>1, <1>2, <1>7
  <2>5. WorkflowFine(r, p)' /\ SavedFine(r)' /\ DeedsFine(r)'
    BY <1>1, <2>1, <2>3, <2>4, PlansQuietly
  <2> QED BY <1>6, <2>2, <2>5
<1>8. CASE s # "planning"
  <2>1. Advance(r, p)
    BY <1>1, <1>8
  <2>2. at[r][p].next # Len(Program(r, p))
    BY <1>1, <1>2, ProgramCalls, Place DEF PlanOrder, ApplyOrder, Phases, Step
  <2>3. Moves(r, p, "calling", at[r][p].next + 1)
    BY <1>1, <2>1, <2>2, AdvanceMoves
  <2>4. QuietStep(r, p)
    BY <1>1, <1>4, <1>5, <2>3 DEF QuietStep, Moves
  <2>5. /\ Program(r, p)[at[r][p].next].do \in {"step", "close"}
        /\ Program(r, p)[at[r][p].next] # Step("planning")
        /\ Program(r, p)[at[r][p].next] = Step("saving_plan") => s = "saving_plan"
        /\ Program(r, p)[at[r][p].next] = Step("applying") <=> s = "applying"
    BY <1>2, <1>8 DEF Step
  <2>6. /\ Program(r, p)[at[r][p].next] = Step("saving_plan") => r \in saved'
        /\ deployed' = IF Program(r, p)[at[r][p].next] = Step("applying") THEN Deploy(r)
                       ELSE deployed
    BY <1>1, <2>5
  <2>7. PlanStaysSaved(r, p)
    BY <1>5 DEF PlanStaysSaved
  <2>8. WorkflowFine(r, p)' /\ SavedFine(r)' /\ DeedsFine(r)'
    BY <1>1, <1>2, <2>3, <2>4, <2>5, <2>6, <2>7, AdvancesQuietly DEF Moves
  <2> QED BY <1>6, <2>3, <2>8 DEF Moves
<1> QED BY <1>7, <1>8

LEMMA WorkFailsKeeps ==
  ASSUME WInv, NEW r \in Runs, NEW p \in Phases, WorkFails(r, p)
  PROVE  WInv'
<1> DEFINE s == Current(r, p).arg
<1>1. /\ at[r][p].mode = "working" /\ Error(r, p)
      /\ saved' \in IF s = "saving_plan" THEN {saved, saved \cup {r}} ELSE {saved}
      /\ deployed' \in IF s = "applying"
                       THEN {deployed, Deploy(r), [deployed EXCEPT ![template[r]] = Unknown]}
                       ELSE {deployed}
      /\ UNCHANGED <<vars, intents, late, faults, unrecorded>>
  BY DEF WorkFails
<1>2. /\ Current(r, p) = Program(r, p)[at[r][p].next] /\ Current(r, p) = Step(s)
      /\ at[r][p].next > 1 /\ at[r][p].next < Len(Program(r, p))
  BY <1>1, WorkingOn
<1> HIDE DEF s
<1>3. Carrying(r, p)
  BY <1>1, <1>2, Place
<1>4. deployed' = deployed \/ (s = "applying" /\ Deploys(r))
  BY <1>1, <1>3 DEF Deploys, SomeCarrying, Deploy
<1>5. /\ unrecorded \subseteq unrecorded' /\ unrecorded' \subseteq Runs /\ saved' \subseteq Runs
      /\ \A q \in Runs : q \in saved => q \in saved'
      /\ faults' \in 0 .. MaxFaults
  BY <1>1 DEF WInv, WorkflowsTypeOK
<1>6. /\ OthersStay(r, p)
      /\ at'[r][p].changes = at[r][p].changes /\ at'[r][p].next = at[r][p].next
      /\ at'[r][p].mode \in {"closing", "failing"}
      /\ at'[r][p].mode = "closing" => at[r][p].next > 1
  BY <1>1, ErrorMoves
<1>7. QuietStep(r, p)
  BY <1>1, <1>4, <1>5, <1>6 DEF QuietStep
<1>8. StaysStopped(r, p)
  BY <1>1 DEF StaysStopped
<1>9. \A l \in late' : LateFine(l)' /\ LateWrites
  BY <1>1, <1>7, <1>8, QuietStepLate
<1>10. deployed' = deployed \/ Program(r, p)[at[r][p].next] = Step("applying")
  BY <1>2, <1>4
<1>11. PlanStaysSaved(r, p)
  BY <1>5 DEF PlanStaysSaved
<1>12. /\ at'[r][p].mode \in {"closing", "failing", "done"} /\ at[r][p].mode # "idle"
       /\ at'[r][p].mode # "done"
  BY <1>1, <1>6
<1>13. WorkflowFine(r, p)' /\ SavedFine(r)' /\ DeedsFine(r)'
  BY <1>1, <1>6, <1>7, <1>10, <1>11, <1>12, StopsQuietly
<1> QED BY <1>5, <1>7, <1>9, <1>13, QuietStepInvariant

LEMMA CloseKeeps ==
  ASSUME WInv, NEW r \in Runs, NEW p \in Phases, Close(r, p)
  PROVE  WInv'
<1>1. /\ \/ at[r][p].mode = "closing" /\ Goto(r, p, "failing", at[r][p].next)
         \/ at[r][p].mode = "calling" /\ Current(r, p).do = "close" /\ Advance(r, p)
      /\ saved' \in IF p = "apply" THEN {saved, saved \ {r}} ELSE {saved}
      /\ UNCHANGED <<vars, intents, late, faults, unrecorded, deployed>>
  BY DEF Close
<1>2. WorkflowFine(r, p) /\ WorkflowsTypeOK
  BY EachRun DEF OfRun
<1>3. /\ unrecorded \subseteq unrecorded' /\ unrecorded' \subseteq Runs /\ saved' \subseteq Runs
      /\ \A q \in Runs \ {r} : q \in saved => q \in saved'
      /\ r \in saved => r \in saved' \/ p = "apply"
      /\ faults' \in 0 .. MaxFaults
  BY <1>1, <1>2 DEF WorkflowsTypeOK
<1>4. ASSUME OthersStay(r, p), StaysStopped(r, p),
             WorkflowFine(r, p)', SavedFine(r)', DeedsFine(r)'
      PROVE  WInv'
  <2>1. QuietStep(r, p)
    BY <1>1, <1>3, <1>4 DEF QuietStep
  <2>2. \A l \in late' : LateFine(l)' /\ LateWrites
    BY <1>1, <1>4, <2>1, QuietStepLate
  <2> QED BY <1>3, <1>4, <2>1, <2>2, QuietStepInvariant
<1>5. CASE at[r][p].mode = "closing" /\ Goto(r, p, "failing", at[r][p].next)
  <2>1. at[r][p].next > 1 /\ at[r][p].next \in 0..20
    BY <1>2, <1>5 DEF WorkflowFine, WorkflowsTypeOK
  <2>2. Moves(r, p, "failing", at[r][p].next)
    BY <1>2, <1>5, <2>1, GotoMoves DEF Modes
  <2>3. QuietStep(r, p) /\ PlanStaysSaved(r, p)
    BY <1>1, <1>3, <2>1, <2>2 DEF QuietStep, Moves, PlanStaysSaved
  <2>4. /\ at'[r][p].next = at[r][p].next /\ at'[r][p].changes = at[r][p].changes
        /\ at'[r][p].mode = "failing" /\ OthersStay(r, p)
    BY <2>2 DEF Moves
  <2>5. /\ at'[r][p].mode \in {"closing", "failing", "done"} /\ at[r][p].mode # "idle"
        /\ at'[r][p].mode # "done" /\ at'[r][p].mode # "closing" /\ deployed' = deployed
    BY <1>1, <1>5, <2>4
  <2>6. WorkflowFine(r, p)' /\ SavedFine(r)' /\ DeedsFine(r)'
    BY <2>3, <2>4, <2>5, StopsQuietly
  <2>7. StaysStopped(r, p)
    BY <1>5, <2>4 DEF StaysStopped
  <2> QED BY <1>4, <2>4, <2>6, <2>7
<1>6. CASE at[r][p].mode = "calling" /\ Current(r, p).do = "close" /\ Advance(r, p)
  <2>1. Program(r, p)[at[r][p].next].do = "close"
    BY <1>6 DEF Current
  <2>2. at[r][p].next # 1 /\ at[r][p].next # Len(Program(r, p))
    <3>1. at[r][p].next \in 1 .. Len(Program(r, p))
      BY <1>6, Place
    <3> QED BY <2>1, <3>1, ProgramCalls DEF PlanOrder, ApplyOrder, Phases, Do
  <2>3. at[r][p].next > 1 /\ at[r][p].next < Len(Program(r, p))
    BY <1>6, <2>2, Place
  <2>4. Moves(r, p, "calling", at[r][p].next + 1)
    BY <1>6, <2>2, AdvanceMoves
  <2>5. QuietStep(r, p) /\ PlanStaysSaved(r, p)
    BY <1>1, <1>3, <2>3, <2>4 DEF QuietStep, Moves, PlanStaysSaved
  <2>6. /\ Program(r, p)[at[r][p].next].do \in {"step", "close"}
        /\ Program(r, p)[at[r][p].next] # Step("planning")
        /\ Program(r, p)[at[r][p].next] # Step("saving_plan")
        /\ deployed' = IF Program(r, p)[at[r][p].next] = Step("applying") THEN Deploy(r)
                       ELSE deployed
    BY <1>1, <2>1 DEF Step
  <2>7. WorkflowFine(r, p)' /\ SavedFine(r)' /\ DeedsFine(r)'
    BY <1>6, <2>3, <2>4, <2>5, <2>6, AdvancesQuietly DEF Moves
  <2>8. StaysStopped(r, p)
    BY <1>6 DEF StaysStopped
  <2> QED BY <1>4, <2>4, <2>7, <2>8 DEF Moves
<1> QED BY <1>1, <1>5, <1>6

-----------------------------------------------------------------------------
(* The service's transactions.                                             *)

\* One touches a run that no workflow carries, and nothing of what runs did.
ServiceStep(r) ==
  /\ [Next]_vars
  /\ UNCHANGED <<at, late, faults, unrecorded, saved, deployed, execution, lifecycle,
                 lastAppliedRun>>
  /\ \A q \in Runs \ {r} : RunKept(q) /\ snapshot'[q] = snapshot[q]
  /\ intents \subseteq intents' /\ intents' \subseteq Runs \X Phases
  /\ ~SomeCarrying(r) /\ status[r] \notin Terminal /\ status'[r] # "absent"

LEMMA ServiceStepInvariant ==
  ASSUME WInv, NEW r \in Runs, ServiceStep(r), RunFine(r)', SavedFine(r)',
         \A x \in Phases : WorkflowFine(r, x)' /\ IntentFine(r, x)',
         \/ UNCHANGED <<operation, autoApprove, snapshot, template>>
         \/ status[r] = "absent"
  PROVE  WInv'
<1>1. OfRun(r) /\ WorkflowsTypeOK /\ TypeOK
  BY EachRun
<1>2. IInv' /\ TypeOK'
  <2>1. IInv'
    BY Inductive DEF ServiceStep, WInv
  <2> QED BY <2>1 DEF IInv
<1>3. WorkflowsTypeOK'
  BY <1>1, <1>2 DEF ServiceStep, WorkflowsTypeOK
<1>4. status[r] = "absent" =>
        /\ \A x \in Phases : <<r, x>> \notin intents /\ at[r][x].mode = "idle"
        /\ \A t \in StackTemplates : deployed[t] # r
  BY <1>1 DEF OfRun, IntentFine, WorkflowFine, WInv, DeployedFine
<1>5. ~SomeCarrying(r)'
  BY DEF ServiceStep, SomeCarrying, Carrying
<1>6. ASSUME NEW q \in Runs \ {r} PROVE DeedsStand(q)
  <2>1. \A s \in Runs : s = deployed[template[q]] => snapshot'[s] = snapshot[s]
    BY <1>1, <1>4 DEF ServiceStep, TypeOK
  <2>2. \A s \in Runs : status[s] \in Terminal => status'[s] \in Terminal
    BY DEF ServiceStep, RunKept
  <2> QED BY <2>1, <2>2 DEF ServiceStep, DeedsStand
<1>7. ASSUME NEW q \in Runs
      PROVE  (/\ RunFine(q) /\ SavedFine(q) /\ DeedsFine(q)
              /\ \A x \in Phases : WorkflowFine(q, x) /\ IntentFine(q, x))'
  <2>1. CASE q = r
    <3>1. DeedsFine(r)'
      BY <1>5 DEF DeedsFine, SomeCarrying, Phases
    <3> QED BY <2>1, <3>1
  <2>2. CASE q # r
    <3>1. RunKept(q)
      BY <2>2 DEF ServiceStep
    <3> QED BY <1>6, <2>2, <3>1, RunKeptFine, RunKeptDeeds
  <2> QED BY <2>1, <2>2
<1>8. ASSUME NEW t \in StackTemplates PROVE DestroyingFine(t)' /\ DeployedFine(t)'
  <2>1. DestroyingFine(t) /\ DeployedFine(t)
    BY DEF WInv
  <2>2. ASSUME NEW q \in Runs, Carrying(q, "apply")
        PROVE  q # r /\ RunKept(q) /\ Carrying(q, "apply")'
    BY <2>2 DEF ServiceStep, SomeCarrying, Phases, Carrying
  <2>3. DestroyingFine(t)'
    BY <2>1, <2>2 DEF DestroyingFine, RunKept, ServiceStep
  <2>4. DeployedFine(t)'
    BY <2>1 DEF DeployedFine, ServiceStep, RunKept
  <2> QED BY <2>3, <2>4
<1>9. ASSUME NEW l \in late' PROVE LateFine(l)' /\ LateWrites
  <2>1. l \in late
    BY DEF ServiceStep
  <2>2. LateFine(l) /\ l.run \in Runs /\ l.phase \in Phases /\ LateWrites
    BY <2>1 DEF WInv, LateFine
  <2>3. at[l.run][l.phase].mode # "idle"
    BY <2>2 DEF LateFine
  <2>4. operation'[l.run] = operation[l.run] /\ autoApprove'[l.run] = autoApprove[l.run]
    BY <1>4, <2>2, <2>3 DEF ServiceStep, RunKept
  <2>5. StaysStopped(l.run, l.phase) /\ unrecorded \subseteq unrecorded'
    BY DEF ServiceStep, StaysStopped
  <2> QED BY <2>2, <2>4, <2>5, LateKept
<1> QED BY <1>2, <1>3, <1>7, <1>8, <1>9 DEF WInv

LEMMA StartTemplateRunKeeps ==
  ASSUME WInv, NEW r \in Runs, StartTemplateRun(r)
  PROVE  WInv'
<1>1. PICK t \in StackTemplates, o \in Operations, auto \in BOOLEAN, snap \in Snapshots :
        /\ auto => o = "apply"
        /\ CreateTemplateRun(r, t, o, auto, snap, "ok")
        /\ intents' = intents \cup {<<r, IF auto THEN "apply" ELSE "plan">>}
  BY DEF StartTemplateRun
<1>2. UNCHANGED <<at, late, faults, unrecorded, saved, deployed>>
  BY DEF StartTemplateRun
<1>3. /\ status[r] = "absent"
      /\ status' = [status EXCEPT ![r] = "queued"]
      /\ operation' = [operation EXCEPT ![r] = o]
      /\ autoApprove' = [autoApprove EXCEPT ![r] = auto]
      /\ template' = [template EXCEPT ![r] = t]
      /\ snapshot' = [snapshot EXCEPT ![r] = snap]
      /\ UNCHANGED <<planKey, approvals, execution, lifecycle, lastAppliedRun>>
  BY <1>1 DEF CreateTemplateRun, Rejected, executionVars, templateVars
<1>4. OfRun(r) /\ TypeOK /\ WorkflowsTypeOK
  BY EachRun
<1>5. /\ \A x \in Phases : <<r, x>> \notin intents /\ at[r][x].mode = "idle"
      /\ \A x \in Phases : at[r][x].next = 0 /\ execution[r][x] = "none"
      /\ r \notin approvals
  BY <1>3, <1>4 DEF OfRun, IntentFine, WorkflowFine, Begin, RunFine
<1>6. [Next]_vars
  <2>1. StoreStep(r, "ok")
    BY <1>1 DEF StoreStep
  <2> QED BY <2>1 DEF Next, Replies
<1>7. \A q \in Runs \ {r} : RunKept(q) /\ snapshot'[q] = snapshot[q]
  BY <1>1, <1>2, <1>3, <1>4 DEF RunKept, TypeOK
<1>8. ServiceStep(r)
  <2>1. ~SomeCarrying(r) /\ status[r] \notin Terminal
    BY <1>3, <1>5 DEF SomeCarrying, Carrying, Terminal
  <2>2. intents \subseteq intents' /\ intents' \subseteq Runs \X Phases
    BY <1>1, <1>4 DEF WorkflowsTypeOK, Phases
  <2>3. status'[r] # "absent"
    BY <1>3, <1>4 DEF TypeOK
  <2> QED BY <1>2, <1>3, <1>6, <1>7, <2>1, <2>2, <2>3 DEF ServiceStep
<1>9. status'[r] = "queued" /\ operation'[r] = o /\ autoApprove'[r] = auto
  BY <1>3, <1>4 DEF TypeOK
<1>10. RunFine(r)' /\ SavedFine(r)'
  BY <1>1, <1>3, <1>5, <1>9 DEF RunFine, SavedFine, Carrying, Phases
<1>11. ASSUME NEW x \in Phases PROVE WorkflowFine(r, x)' /\ IntentFine(r, x)'
  <2>1. WorkflowFine(r, x)'
    BY <1>2, <1>3, <1>5 DEF WorkflowFine
  <2>2. IntentFine(r, x)'
    BY <1>1, <1>5, <1>9 DEF IntentFine
  <2> QED BY <2>1, <2>2
<1> QED BY <1>3, <1>8, <1>10, <1>11, ServiceStepInvariant

LEMMA ApproveRunKeeps ==
  ASSUME WInv, NEW r \in Runs, ApproveRun(r)
  PROVE  WInv'
<1>1. /\ ApproveTemplateRun(r, "ok")
      /\ intents' = intents \cup {<<r, "apply">>}
      /\ UNCHANGED <<at, late, faults, unrecorded, saved, deployed>>
  BY DEF ApproveRun
<1>2. /\ status[r] = "waiting_approval"
      /\ status' = [status EXCEPT ![r] = "approved"]
      /\ approvals' = approvals \cup {r}
      /\ UNCHANGED <<operation, autoApprove, template, snapshot, planKey, execution,
                     lifecycle, lastAppliedRun>>
  BY <1>1 DEF ApproveTemplateRun, Rejected, executionVars, templateVars
<1>3. OfRun(r) /\ TypeOK /\ WorkflowsTypeOK
  BY EachRun
<1>4. execution[r]["plan"] = "succeeded" /\ execution[r]["apply"] = "none"
  BY <1>2, <1>3 DEF OfRun, RunInvariant
<1>5. [Next]_vars
  <2>1. StoreStep(r, "ok")
    BY <1>1 DEF StoreStep
  <2> QED BY <2>1 DEF Next, Replies
<1>6. status'[r] = "approved"
  BY <1>2, <1>3 DEF TypeOK
<1>7. \A q \in Runs \ {r} : RunKept(q) /\ snapshot'[q] = snapshot[q]
  BY <1>1, <1>2, <1>3 DEF RunKept, TypeOK
<1>8. ServiceStep(r)
  <2>1. ~SomeCarrying(r) /\ status[r] \notin Terminal /\ status'[r] # "absent"
    BY <1>2, <1>4, <1>6 DEF SomeCarrying, Carrying, Terminal, Phases
  <2>2. intents \subseteq intents' /\ intents' \subseteq Runs \X Phases
    BY <1>1, <1>3 DEF WorkflowsTypeOK, Phases
  <2> QED BY <1>1, <1>2, <1>5, <1>7, <2>1, <2>2 DEF ServiceStep
<1>9. RunFine(r)' /\ SavedFine(r)'
  BY <1>1, <1>2, <1>3, <1>4, <1>6 DEF OfRun, RunFine, SavedFine, Carrying
<1>10. ASSUME NEW x \in Phases PROVE WorkflowFine(r, x)' /\ IntentFine(r, x)'
  <2>1. Program(r, x)' = Program(r, x) /\ Carries(r, x)' = Carries(r, x)
    BY <1>1, <1>2, ProgramKept
  <2>2. Over(r, x) => Over(r, x)'
    BY <1>2 DEF Over, Terminal
  <2>3. WorkflowFine(r, x)'
    BY <1>1, <1>2, <1>3, <2>1, <2>2 DEF OfRun, WorkflowFine, Begin, Carrying
  <2>4. IntentFine(r, x)'
    BY <1>1, <1>2, <1>3, <1>6 DEF OfRun, IntentFine
  <2> QED BY <2>3, <2>4
<1> QED BY <1>2, <1>8, <1>9, <1>10, ServiceStepInvariant

LEMMA DiscardRunKeeps ==
  ASSUME WInv, NEW r \in Runs, DiscardRun(r)
  PROVE  WInv'
<1>1. /\ DiscardTemplateRun(r, "ok")
      /\ UNCHANGED <<intents, at, late, faults, unrecorded, saved, deployed>>
  BY DEF DiscardRun, workflowVars
<1>2. /\ status[r] \in {"waiting_approval", "approved"}
      /\ status' = [status EXCEPT ![r] = "canceled"]
      /\ ReleaseRunPlan(r)
      /\ UNCHANGED <<operation, autoApprove, template, snapshot, approvals, execution,
                     lifecycle, lastAppliedRun>>
  BY <1>1 DEF DiscardTemplateRun, Rejected, executionVars
<1>3. OfRun(r) /\ TypeOK /\ WorkflowsTypeOK
  BY EachRun
<1>4. execution[r]["plan"] = "succeeded" /\ execution[r]["apply"] = "none"
  BY <1>2, <1>3 DEF OfRun, RunInvariant
<1>5. [Next]_vars
  <2>1. StoreStep(r, "ok")
    BY <1>1 DEF StoreStep
  <2> QED BY <2>1 DEF Next, Replies
<1>6. status'[r] = "canceled"
  BY <1>2, <1>3 DEF TypeOK
<1>7. \A q \in Runs \ {r} : RunKept(q) /\ snapshot'[q] = snapshot[q]
  BY <1>1, <1>2, <1>3, ReleasedPlan DEF RunKept, TypeOK
<1>8. ServiceStep(r)
  <2>1. ~SomeCarrying(r) /\ status[r] \notin Terminal /\ status'[r] # "absent"
    BY <1>2, <1>4, <1>6 DEF SomeCarrying, Carrying, Terminal, Phases
  <2> QED BY <1>1, <1>2, <1>3, <1>5, <1>7, <2>1 DEF ServiceStep, WorkflowsTypeOK
<1>9. RunFine(r)' /\ SavedFine(r)'
  BY <1>1, <1>2, <1>3, <1>4, <1>6 DEF OfRun, RunFine, SavedFine, Carrying
<1>10. ASSUME NEW x \in Phases PROVE WorkflowFine(r, x)' /\ IntentFine(r, x)'
  <2>1. Program(r, x)' = Program(r, x) /\ Carries(r, x)' = Carries(r, x)
    BY <1>1, <1>2, ProgramKept
  <2>2. Over(r, x)'
    BY <1>6 DEF Over, Terminal
  <2>3. WorkflowFine(r, x)'
    BY <1>1, <1>2, <1>3, <2>1, <2>2 DEF OfRun, WorkflowFine, Begin, Carrying
  <2>4. IntentFine(r, x)'
    BY <1>1, <1>2, <1>3, <1>6 DEF OfRun, IntentFine
  <2> QED BY <2>3, <2>4
<1> QED BY <1>2, <1>8, <1>9, <1>10, ServiceStepInvariant

-----------------------------------------------------------------------------
(* Every step.                                                             *)

LEMMA WorkflowsInitInvariant == WorkflowsInit => WInv
<1> SUFFICES ASSUME WorkflowsInit PROVE WInv
  OBVIOUS
<1>1. IInv /\ TypeOK
  <2>1. IInv
    BY InitInvariant DEF WorkflowsInit
  <2> QED BY <2>1 DEF IInv
<1>2. WorkflowsTypeOK
  <2>1. at \in [Runs -> [Phases -> [mode : Modes, next : 0..20, changes : BOOLEAN]]]
    BY DEF WorkflowsInit, Modes
  <2> QED BY <1>1, <2>1, FaultsAssumption DEF WorkflowsInit, WorkflowsTypeOK
<1>3. \A r \in Runs : status[r] = "absent" /\ autoApprove[r] = FALSE
  BY DEF WorkflowsInit, Init
<1>4. \A r \in Runs, p \in Phases :
        at[r][p].mode = "idle" /\ at[r][p].next = 0 /\ execution[r][p] = "none"
  BY DEF WorkflowsInit, Init
<1>5. approvals = {} /\ intents = {} /\ late = {} /\ NoRun \notin Runs
  BY NoRunAssumption DEF WorkflowsInit, Init
<1>6. \A t \in StackTemplates : lifecycle[t] = "active" /\ deployed[t] = NoRun
  BY DEF WorkflowsInit, Init
<1>7. ASSUME NEW r \in Runs
      PROVE  /\ RunFine(r) /\ SavedFine(r) /\ DeedsFine(r)
             /\ \A p \in Phases : WorkflowFine(r, p) /\ IntentFine(r, p)
  BY <1>3, <1>4, <1>5
  DEF RunFine, SavedFine, DeedsFine, WorkflowFine, IntentFine, Carrying, Phases
<1>8. \A t \in StackTemplates : DestroyingFine(t) /\ DeployedFine(t)
  BY <1>5, <1>6 DEF DestroyingFine, DeployedFine
<1> QED BY <1>1, <1>2, <1>5, <1>7, <1>8 DEF WInv

LEMMA StutterKeeps ==
  ASSUME WInv, UNCHANGED allVars
  PROVE  WInv'
<1>1. UNCHANGED <<vars, intents, at, late, faults, unrecorded, saved, deployed>>
  BY DEF allVars, workflowVars
<1>2. IInv'
  BY <1>1, Inductive DEF WInv
<1>3. TypeOK'
  BY <1>2 DEF IInv
<1>4. WorkflowsTypeOK'
  BY <1>1, <1>3 DEF WInv, WorkflowsTypeOK
<1>5. ASSUME NEW q \in Runs
      PROVE  (/\ RunFine(q) /\ SavedFine(q) /\ DeedsFine(q)
              /\ \A x \in Phases : WorkflowFine(q, x) /\ IntentFine(q, x))'
  <2>1. RunKept(q) /\ DeedsStand(q)
    BY <1>1 DEF RunKept, DeedsStand, vars
  <2> QED BY <2>1, RunKeptFine, RunKeptDeeds
<1>6. \A l \in late' : LateFine(l)' /\ LateWrites
  <2> SUFFICES ASSUME NEW l \in late' PROVE LateFine(l)' /\ LateWrites
    OBVIOUS
  <2>1. LateFine(l) /\ LateWrites
    BY <1>1 DEF WInv
  <2>2. StaysStopped(l.run, l.phase)
    BY <1>1 DEF StaysStopped
  <2> QED BY <1>1, <2>1, <2>2, LateKept DEF vars
<1>7. \A t \in StackTemplates : DestroyingFine(t)' /\ DeployedFine(t)'
  BY <1>1 DEF WInv, DestroyingFine, DeployedFine, vars, Carrying
<1> QED BY <1>2, <1>4, <1>5, <1>6, <1>7 DEF WInv

LEMMA WorkflowsInductive ==
  ASSUME WInv, [WorkflowsNext]_allVars
  PROVE  WInv'
<1>1. ASSUME NEW r \in Runs, NEW p \in Phases, Progress(r, p) PROVE WInv'
  BY <1>1, StartWorkflowKeeps, CallKeeps, WorkKeeps, WorkFailsKeeps, CloseKeeps DEF Progress
<1>2. ASSUME NEW r \in Runs, NEW p \in Phases,
             LoseCall(r, p) \/ LoseAcknowledgement(r, p) \/ DelayCall(r, p)
      PROVE  WInv'
  BY <1>2, LoseCallKeeps, LoseAcknowledgementKeeps, DelayCallKeeps
<1>3. ASSUME NEW r \in Runs, StartTemplateRun(r) \/ ApproveRun(r) \/ DiscardRun(r)
      PROVE  WInv'
  BY <1>3, StartTemplateRunKeeps, ApproveRunKeeps, DiscardRunKeeps
<1> QED BY <1>1, <1>2, <1>3, LandLateCallKeeps, StutterKeeps DEF WorkflowsNext

\* A step on the tables is a workflow's call, or one of the service's
\* transactions on a run that nothing carries.
CallTaken(r, p, call, changes) ==
  /\ Legit(r, p, call, changes) /\ Effect(r, p, call, changes) /\ deployed' = deployed
  /\ at[r][p].mode = "calling" \/ call.do = "failed" \/ LateWrites

ServiceTaken(r) ==
  /\ \A q \in Runs \ {r} : status'[q] = status[q]
  /\ <<status[r], status'[r]>> \in
       {<<"absent", "queued">>, <<"waiting_approval", "approved">>,
        <<"waiting_approval", "canceled">>, <<"approved", "canceled">>}
  /\ lastAppliedRun' = lastAppliedRun

LEMMA CallsTaken ==
  ASSUME WInv, NEW r \in Runs, NEW p \in Phases,
         Call(r, p) \/ LoseAcknowledgement(r, p)
  PROVE  [Next]_vars /\ \E call, changes : CallTaken(r, p, call, changes)
<1>1. PICK reply \in Replies : StoreCall(r, p, Current(r, p), at[r][p].changes, reply)
  BY DEF Call, LoseAcknowledgement
<1>2. IsStoreCall(r, p) /\ deployed' = deployed
  BY DEF Call, LoseAcknowledgement
<1>3. /\ Legit(r, p, Current(r, p), at[r][p].changes)
      /\ at[r][p].mode = "calling" \/ Current(r, p).do = "failed"
  BY <1>2, CurrentIsLegit
<1>4. [Next]_vars /\ Effect(r, p, Current(r, p), at[r][p].changes)
  BY <1>1, <1>3, CallIsStoreStep, CallHasEffect
<1> QED BY <1>2, <1>3, <1>4 DEF CallTaken

LEMMA LateCallTaken ==
  ASSUME WInv, LandLateCall
  PROVE  /\ [Next]_vars
         /\ \E r \in Runs, p \in Phases : \E call, changes : CallTaken(r, p, call, changes)
<1>1. PICK l \in late, reply \in Replies :
        StoreCall(l.run, l.phase, l.call, l.changes, reply) /\ deployed' = deployed
  BY DEF LandLateCall
<1>2. /\ l.run \in Runs /\ l.phase \in Phases /\ LateWrites
      /\ Legit(l.run, l.phase, l.call, l.changes)
  BY LateIsLegit
<1>3. [Next]_vars /\ Effect(l.run, l.phase, l.call, l.changes)
  BY <1>1, <1>2, CallIsStoreStep, CallHasEffect
<1>4. CallTaken(l.run, l.phase, l.call, l.changes)
  BY <1>1, <1>2, <1>3 DEF CallTaken
<1> QED BY <1>2, <1>3, <1>4

LEMMA ServicesTaken ==
  ASSUME WInv, NEW r \in Runs, StartTemplateRun(r) \/ ApproveRun(r) \/ DiscardRun(r)
  PROVE  [Next]_vars /\ ServiceTaken(r)
<1>1. TypeOK /\ "ok" \in Replies
  BY EachRun DEF Replies
<1>2. CASE StartTemplateRun(r)
  <2>1. PICK t \in StackTemplates, o \in Operations, auto \in BOOLEAN, snap \in Snapshots :
          (auto => o = "apply") /\ CreateTemplateRun(r, t, o, auto, snap, "ok")
    BY <1>2 DEF StartTemplateRun
  <2>2. StoreStep(r, "ok")
    BY <2>1 DEF StoreStep
  <2>3. status[r] = "absent" /\ status' = [status EXCEPT ![r] = "queued"]
        /\ lastAppliedRun' = lastAppliedRun
    BY <2>1 DEF CreateTemplateRun, Rejected, templateVars
  <2> QED BY <1>1, <2>2, <2>3 DEF Next, ServiceTaken, TypeOK
<1>3. CASE ApproveRun(r)
  <2>1. ApproveTemplateRun(r, "ok")
    BY <1>3 DEF ApproveRun
  <2>2. StoreStep(r, "ok")
    BY <2>1 DEF StoreStep
  <2>3. status[r] = "waiting_approval" /\ status' = [status EXCEPT ![r] = "approved"]
        /\ lastAppliedRun' = lastAppliedRun
    BY <2>1 DEF ApproveTemplateRun, Rejected, templateVars
  <2> QED BY <1>1, <2>2, <2>3 DEF Next, ServiceTaken, TypeOK
<1>4. CASE DiscardRun(r)
  <2>1. DiscardTemplateRun(r, "ok")
    BY <1>4 DEF DiscardRun
  <2>2. StoreStep(r, "ok")
    BY <2>1 DEF StoreStep
  <2>3. status[r] \in {"waiting_approval", "approved"}
        /\ status' = [status EXCEPT ![r] = "canceled"] /\ lastAppliedRun' = lastAppliedRun
    BY <2>1 DEF DiscardTemplateRun, Rejected
  <2> QED BY <1>1, <2>2, <2>3 DEF Next, ServiceTaken, TypeOK
<1> QED BY <1>2, <1>3, <1>4

LEMMA StepsTaken ==
  ASSUME WInv, [WorkflowsNext]_allVars
  PROVE  /\ [Next]_vars
         /\ \/ UNCHANGED vars
            \/ \E r \in Runs, p \in Phases : \E call, changes : CallTaken(r, p, call, changes)
            \/ \E r \in Runs : ServiceTaken(r)
<1>1. ASSUME NEW r \in Runs, NEW p \in Phases,
             \/ StartWorkflow(r, p) \/ Work(r, p) \/ WorkFails(r, p) \/ Close(r, p)
             \/ LoseCall(r, p) \/ DelayCall(r, p)
      PROVE  UNCHANGED vars
  BY <1>1 DEF StartWorkflow, Work, WorkFails, Close, LoseCall, DelayCall
<1>2. UNCHANGED allVars => UNCHANGED vars
  BY DEF allVars
<1> QED BY <1>1, <1>2, CallsTaken, LateCallTaken, ServicesTaken DEF WorkflowsNext, Progress

-----------------------------------------------------------------------------
(* What follows.                                                           *)

\* The inductive invariant holds of every reachable state: the tables, the
\* workflows' places in their programs, the calls still on their way and what
\* the runs have deployed agree, through every lost, failed and late call.
THEOREM WorkflowsInvariant == WorkflowsSpec => []WInv
<1>1. WorkflowsInit => WInv
  BY WorkflowsInitInvariant
<1>2. WInv /\ [WorkflowsNext]_allVars => WInv'
  BY WorkflowsInductive
<1> QED BY <1>1, <1>2, PTL DEF WorkflowsSpec

\* Every variable keeps its type; no program is longer than the bound on a
\* workflow's place in it.
THEOREM WorkflowsTypeCorrect == WorkflowsSpec => []WorkflowsTypeOK
<1>1. WInv => WorkflowsTypeOK
  BY DEF WInv
<1> QED BY <1>1, WorkflowsInvariant, PTL

\* The workflows and the service's transactions are a client of RunStore, so
\* that what is proved of the tables can be cited of them.
LEMMA StoreIsUsed == WorkflowsSpec => Spec
<1>1. WorkflowsInit => Init
  BY DEF WorkflowsInit
<1>2. WInv /\ [WorkflowsNext]_allVars => [Next]_vars
  BY StepsTaken
<1> QED BY <1>1, <1>2, WorkflowsInvariant, PTL DEF WorkflowsSpec, Spec

\* A plan someone may approve has its file in the artifact store and its key
\* in the run's row (saved_plans.go, keep and forget).
THEOREM ReviewablePlansApply == WorkflowsSpec => []ReviewablePlanCanBeApplied
<1>1. WInv => ReviewablePlanCanBeApplied
  BY DEF WInv, SavedFine, ReviewablePlanCanBeApplied
<1> QED BY <1>1, WorkflowsInvariant, PTL

\* A workflow that ends leaves no run running, unless its failure could not be
\* recorded; and destroying is read only of a stack template being destroyed.
THEOREM EndedWorkflowsLeaveNothing == WorkflowsSpec => []EndedWorkflowLeavesNothingRunning
<1>1. ASSUME WInv PROVE EndedWorkflowLeavesNothingRunning
  <2>1. \A r \in Runs : RunInvariant(r) /\ (SomeCarrying(r) => status[r] = "running")
    BY <1>1, EachRun DEF OfRun, RunInvariant, SomeCarrying, Phases
  <2>2. ASSUME NEW r \in Runs, NEW p \in Phases, at[r][p].mode = "done", Carrying(r, p)
        PROVE  r \in unrecorded
    <3>1. status[r] = "running" /\ execution[r][p] = "running"
      BY <2>1, <2>2 DEF SomeCarrying, Carrying
    <3> QED BY <1>1, <2>2, <3>1 DEF WInv, WorkflowFine, Over, Terminal
  <2>3. ASSUME NEW t \in StackTemplates, lifecycle[t] = "destroying"
        PROVE  \E r \in Runs : /\ template[r] = t /\ operation[r] = "destroy"
                               /\ status[r] = "running" /\ Carrying(r, "apply")
    BY <1>1, <2>1, <2>3 DEF WInv, DestroyingFine, SomeCarrying, Phases
  <2> QED BY <2>2, <2>3 DEF EndedWorkflowLeavesNothingRunning
<1> QED BY <1>1, WorkflowsInvariant, PTL

\* A run ends as completed only by its workflow's last call.
LEMMA CompletedByCall ==
  ASSUME WInv, [WorkflowsNext]_allVars, NEW r \in Runs,
         status[r] = "running", status'[r] = "completed"
  PROVE  \E p \in Phases : \E call, changes :
           CallTaken(r, p, call, changes) /\ call.do = "completed" /\ Stops(r, p, "completed")
<1>1. status' # status
  OBVIOUS
<1>2. ~\E q \in Runs : ServiceTaken(q)
  BY DEF ServiceTaken
<1>3. PICK q \in Runs, p \in Phases : \E call, changes : CallTaken(q, p, call, changes)
  BY <1>1, <1>2, StepsTaken DEF vars
<1>4. PICK call, changes : CallTaken(q, p, call, changes)
  BY <1>3
<1>5. Effect(q, p, call, changes)
  BY <1>4 DEF CallTaken
<1>6. q = r
  BY <1>5 DEF Effect, Elsewhere
<1>7. call.do = "completed" /\ Stops(r, p, "completed")
  BY <1>5, <1>6
  DEF Effect, RunRowKept, Starts, Stops, NeverStarts, Keys, Tells, FindsNothing, Reviews
<1> QED BY <1>4, <1>6, <1>7

\* A run that completes did what it was for, whatever was lost, retried or
\* late on the way (workflow.go: completed is recorded after the work's events).
THEOREM CompletedRunsDidTheirWork == WorkflowsSpec => CompletedRunDidItsWork
<1> DEFINE Did(r) ==
      LET t == template[r] IN
      /\ operation[r] = "apply" =>
           /\ \/ lastAppliedRun'[t] = r
              \/ LateWrites /\ lastAppliedRun'[t] \in {q \in Runs : status[q] \in Terminal}
           /\ deployed'[t] \in Runs /\ snapshot[deployed'[t]] = snapshot[r]
      /\ operation[r] = "destroy" => lifecycle'[t] = "destroyed" /\ deployed'[t] = NoRun
<1>1. ASSUME WInv, [WorkflowsNext]_allVars, NEW r \in Runs,
             status[r] = "running", status'[r] = "completed"
      PROVE  Did(r)
  <2>1. PICK p \in Phases : \E call, changes :
          CallTaken(r, p, call, changes) /\ call.do = "completed" /\ Stops(r, p, "completed")
    BY <1>1, CompletedByCall
  <2>2. PICK call, changes :
          CallTaken(r, p, call, changes) /\ call.do = "completed" /\ Stops(r, p, "completed")
    BY <2>1
  <2>3. Ordered(r, p, call, changes)
    BY <1>1, <2>2, LegitIsOrdered DEF CallTaken
  <2>4. /\ DeedsFine(r) /\ TypeOK
    BY <1>1, EachRun DEF OfRun
  <2>5. Carrying(r, p) /\ lastAppliedRun' = lastAppliedRun /\ lifecycle' = lifecycle
        /\ deployed' = deployed
    BY <2>2 DEF Stops, InterruptedDestroy, CallTaken
  <2>6. operation[r] # "plan" => Deployed(r)
    <3>1. CASE p = "apply"
      BY <2>2, <2>3, <2>4, <2>5, <3>1 DEF Ordered, DeedsFine
    <3>2. CASE p = "plan"
      BY <2>2, <2>3, <2>4, <2>5, <3>2 DEF Ordered, DeedsFine
    <3> QED BY <3>1, <3>2 DEF Phases
  <2>7. operation[r] = "apply" => Live(r)
    <3>1. CASE p = "apply"
      BY <2>2, <2>3, <2>4, <2>5, <3>1 DEF Ordered, DeedsFine
    <3>2. CASE p = "plan"
      BY <2>2, <2>3, <2>4, <2>5, <3>2 DEF Ordered, DeedsFine
    <3> QED BY <3>1, <3>2 DEF Phases
  <2>8. operation[r] = "destroy" => lifecycle[template[r]] = "destroyed"
    BY <2>2, <2>3, <2>4, <2>5 DEF Ordered, DeedsFine
  <2> QED BY <2>5, <2>6, <2>7, <2>8 DEF Deployed, Live
<1>2. WInv /\ [WorkflowsNext]_allVars =>
        [\A r \in Runs : status[r] = "running" /\ status'[r] = "completed" => Did(r)]_allVars
  BY <1>1
<1> QED BY <1>2, WorkflowsInvariant, PTL DEF WorkflowsSpec, CompletedRunDidItsWork

\* A run under review leaves it by a person or by its apply, never by the
\* plan workflow failing afterwards (run_executions.go, endWorkflowExecution).
THEOREM PlanFailuresEndNoReview == WorkflowsSpec => PlanFailureNeverEndsAReview
<1> DEFINE Undisturbed(r) ==
      /\ status[r] = "waiting_approval" =>
           status'[r] \in {"waiting_approval", "approved", "canceled"}
      /\ status[r] = "approved" /\ status'[r] = "failed" =>
           at[r]["apply"].mode \in {"failing", "done"}
      /\ Carrying(r, "apply") /\ status'[r] = "failed" =>
           at[r]["apply"].mode \in {"failing", "done"}
<1>1. ASSUME WInv, [WorkflowsNext]_allVars, NEW r \in Runs
      PROVE  Undisturbed(r)
  <2>1. OfRun(r)
    BY <1>1, EachRun
  <2>2. RunInvariant(r) /\ RunFine(r)
    BY <2>1 DEF OfRun
  <2>3. Carrying(r, "apply") => status[r] = "running"
    BY <2>2 DEF RunInvariant
  <2>4. CASE status'[r] = status[r]
    BY <2>3, <2>4
  <2>5. ASSUME NEW q \in Runs, ServiceTaken(q) PROVE Undisturbed(r)
    BY <2>3, <2>5 DEF ServiceTaken
  <2>6. ASSUME NEW q \in Runs, NEW p \in Phases, NEW call, NEW changes,
               CallTaken(q, p, call, changes), status'[r] # status[r]
        PROVE  Undisturbed(r)
    <3>1. Effect(q, p, call, changes) /\ Ordered(q, p, call, changes) /\ <<q, p>> \in intents
      BY <1>1, <2>6, LegitIsOrdered DEF CallTaken, Legit
    <3>2. q = r
      BY <2>6, <3>1 DEF Effect, Elsewhere
    <3>3. status[r] = "waiting_approval" => ~NeverStarts(r, p)
      <4>1. execution[r][p] = "none" /\ p = "apply" => status[r] # "waiting_approval"
        BY <1>1, <3>1, <3>2, HeldByItself
      <4>2. status[r] = "waiting_approval" => execution[r]["plan"] = "succeeded"
        BY <2>2 DEF RunInvariant
      <4> QED BY <4>1, <4>2 DEF NeverStarts, Phases
    <3>4. status[r] = "waiting_approval" => FALSE
      BY <2>6, <3>1, <3>2, <3>3
      DEF Effect, RunRowKept, Starts, Stops, Keys, Tells, FindsNothing, Reviews
    <3>5. ASSUME status[r] = "approved", status'[r] = "failed"
          PROVE  at[r]["apply"].mode \in {"failing", "done"}
      <4>1. call.do = "failed" /\ NeverStarts(r, p)
        BY <3>1, <3>2, <3>5
        DEF Effect, RunRowKept, Starts, Stops, Keys, Tells, FindsNothing, Reviews
      <4>2. execution[r]["plan"] = "succeeded"
        BY <2>2, <3>5 DEF RunInvariant
      <4>3. p = "apply"
        BY <4>1, <4>2 DEF NeverStarts, Phases
      <4> QED BY <3>1, <3>2, <4>1, <4>3 DEF Ordered
    <3>6. ASSUME Carrying(r, "apply"), status'[r] = "failed"
          PROVE  at[r]["apply"].mode \in {"failing", "done"}
      <4>1. call.do = "failed" /\ Stops(r, p, "failed")
        BY <2>3, <3>1, <3>2, <3>6
        DEF Effect, RunRowKept, Starts, Stops, NeverStarts, Keys, Tells, FindsNothing, Reviews,
            SomeCarrying, Phases
      <4>2. p = "apply"
        BY <2>2, <3>6, <4>1 DEF Stops, RunInvariant, Phases
      <4> QED BY <3>1, <3>2, <4>1, <4>2 DEF Ordered
    <3> QED BY <3>4, <3>5, <3>6
  <2>7. UNCHANGED vars => status'[r] = status[r]
    BY DEF vars
  <2> QED BY <1>1, <2>4, <2>5, <2>6, <2>7, StepsTaken
<1>2. WInv /\ [WorkflowsNext]_allVars => [\A r \in Runs : Undisturbed(r)]_allVars
  BY <1>1
<1> QED BY <1>2, WorkflowsInvariant, PTL DEF WorkflowsSpec, PlanFailureNeverEndsAReview

\* Without late writes a run that is over does not become live
\* (recordStackTemplateLastApplied); with them it may.
THEOREM OverRunsStayOver == WorkflowsSpec /\ ~LateWrites => OverRunsNeverGoLive
<1> SUFFICES ASSUME ~LateWrites PROVE WorkflowsSpec => OverRunsNeverGoLive
  OBVIOUS
<1> DEFINE Lives(t) == lastAppliedRun'[t] # lastAppliedRun[t] =>
                         status[lastAppliedRun'[t]] \in InFlight
<1>1. ASSUME WInv, [WorkflowsNext]_allVars, NEW t \in StackTemplates
      PROVE  Lives(t)
  <2>1. ASSUME NEW r \in Runs, NEW p \in Phases, NEW call, NEW changes,
               CallTaken(r, p, call, changes), lastAppliedRun'[t] # lastAppliedRun[t]
        PROVE  status[lastAppliedRun'[t]] \in InFlight
    <3>1. /\ Effect(r, p, call, changes) /\ Ordered(r, p, call, changes)
          /\ at[r][p].mode = "calling" \/ call.do = "failed"
      BY <1>1, <2>1, LegitIsOrdered DEF CallTaken
    <3>2. TypeOK /\ OfRun(r)
      BY <1>1, EachRun
    <3>3. \/ call.do = "event" /\ Tells(r, "applied")
          \/ call.do = "finish" /\ FindsNothing(r)
      BY <2>1, <3>1
      DEF Effect, DeedsKept, Starts, Stops, NeverStarts, Keys, Tells, FindsNothing, Reviews
    <3>4. lastAppliedRun'[t] = r
      BY <2>1, <3>2, <3>3 DEF Tells, FindsNothing, TypeOK
    <3>5. CASE call.do = "event" /\ Tells(r, "applied")
      BY <3>4, <3>5 DEF Tells, InFlight
    <3>6. CASE call.do = "finish"
      <4>1. at[r][p].mode = "calling" /\ at[r][p].next # 1
        BY <3>1, <3>6 DEF Ordered
      <4>2. Carrying(r, p)
        BY <1>1, <4>1, Place
      <4>3. status[r] = "running"
        BY <3>2, <4>2 DEF OfRun, RunInvariant, Phases
      <4> QED BY <3>4, <4>3 DEF InFlight
    <3> QED BY <3>3, <3>5, <3>6
  <2>2. UNCHANGED vars => lastAppliedRun' = lastAppliedRun
    BY DEF vars
  <2>3. (\E r \in Runs : ServiceTaken(r)) => lastAppliedRun' = lastAppliedRun
    BY DEF ServiceTaken
  <2> QED BY <1>1, <2>1, <2>2, <2>3, StepsTaken
<1>2. WInv /\ [WorkflowsNext]_allVars =>
        [\A t \in StackTemplates : Lives(t)]_allVars
  BY <1>1
<1> QED BY <1>2, WorkflowsInvariant, PTL DEF WorkflowsSpec, OverRunsNeverGoLive
=============================================================================
