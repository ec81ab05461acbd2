# Verification of tflive

tflive is a control plane for Terraform/OpenTofu: people register templates from
git repositories, install them on stacks, and ask for runs that plan, wait for a
review and apply. This directory holds TLA+ models of the parts of it where an
order of events decides what is correct, the TLC runs that check them on small
instances, and proofs, checked by TLAPS, of what holds for instances of any size.

All paths below are relative to the repository. `PROJECT.json` is the index: for
every definition the lines it models, for every property a run that checks it and
a plausible bug that the run catches, and the list of hazards.

## 1. The system

| component | state | operations | what makes it correct |
|---|---|---|---|
| **Run tables** `src/internal/postgres/{repositories,saved_plans,run_executions,run_progress}.go` | `template_runs`, approvals, workflow executions, step executions, the run columns of `stack_templates` | one transaction each: create, record status / step / event, create plan key, finish plan, begin apply, approve, discard, update the desired state | tables agree with each other after every transaction, called by anyone, late and repeatedly; a run follows its lifecycle and never comes back |
| **Plan and apply workflows** `src/internal/workflows/template_run.go`, `src/internal/activities/template_run.go` | a Temporal history, the executor's workspace, the saved plan, the infrastructure | calls on the control plane, one attempt each; work on the executor; close; fail on error | a completed run did its work; a failure is recorded; a plan under review can be applied; a late write hurts nobody |
| **Run service** `src/internal/app/service.go` | none | StartTemplateRun, ApproveRun, DiscardRun, UpdateConfig, Upgrade: checks, then a transaction with an intent | what was checked still holds when it is used |
| **Work queue** `src/internal/queue`, `src/internal/postgres/workqueue.go` | `work_queue` rows; each controller's batch | Enqueue, Claim, handler, follow-ups, Complete, Reschedule, Prune | nothing accepted is lost; two deliveries of a key do not overlap; the newest target state wins |
| **Start handlers, dispatcher** `src/internal/app/start_*_handler.go`, `src/internal/temporal/dispatcher.go` | workflow IDs in Temporal | start a workflow from an intent, at least once | a repeated intent starts nothing twice |
| **Stack access** `src/internal/app/service.go`, `src/internal/authorization` | OpenFGA tuples in Postgres | AssignStackRole, RevokeStackRole | a stack keeps an owner, a user has one role, nobody removes what somebody else removed |
| **Sessions and sign-in** `src/internal/api/auth.go`, `src/internal/api/backchannel_logout.go`, `src/internal/postgres/sessions.go`, `src/internal/authentication` | `sessions`, projected users, sign-in transactions | sign in, touch, log out, back-channel logout, reap | what the provider ended does not work, and nothing else is ended; idle and absolute bounds hold |
| **OIDC verification keys** `src/internal/authentication/oidc_provider.go` | a key set with its lifetimes, a cooldown | verify, refresh, discover, swap | a rotated key is found, a withdrawn one is not kept too long, the provider is not hammered |
| **Template registration and sync** `src/internal/workflows/template_sync.go`, `src/internal/activities/template_sync.go` | registrations, source templates, revisions | register, resolve, inspect, record | the latest revision is the one synced last; retries mint nothing twice; what ended is settled |
| **GitHub App tokens** `src/internal/githubapp` | one cached token per repository | look up, mint, hand out | a token outlives what it is handed out for |
| **Run keys** `src/internal/runseal/runseal.go` | an executor's key ring in memory | generate, open, forget, evict | what is sealed for a session can be opened until it ends |
| **Saved plans** `src/internal/planbundle`, `src/internal/artifacts`, `src/internal/runner` | the artifact store's objects, run workspaces on the executors' disks | plan, save, restore, apply, clean up | a run that can be approved has its plan, and what was reviewed is what is applied |
| **Authorization bootstrap** `src/internal/authorization/bootstrap.go` | OpenFGA stores and models | find or create | one store, one model |
| others | see the last section | | |

How they meet. A service transaction writes the run tables and, in the same
transaction, an intent into the work queue. A controller claims the intent and its
handler asks Temporal to start a workflow under an ID derived from the run. The
workflow calls back into the run tables through activities and drives the executor.
The browser reads the run tables; access to everything is decided by OpenFGA, whose
tuples live in the same database. A person comes to the API on a session, which a
sign-in minted from a token that the verification keys bore out; a plan comes to its
apply through the artifact store, by an executor that need not be the one that made it.

What is hard. Several API processes and several workers share the tables, and the
decisions they take are mostly one conditional `update` each, so what protects
the data is which `where` clause meets which order of calls. Control activities
have one attempt, so an error the workflow sees says nothing about whether the
transaction committed. Two workflows of one run, the plan's and the apply's, overlap
as soon as the first fails late. Deliveries from the queue overlap when leases end.
Access changes are read unlocked and written later. Executors keep keys in memory and
workspaces on disk under the run's name, while activities Temporal gave up on run on.
The identity provider ends sessions and changes keys on its own, and tells late or never.

## 2. The modules

| module | models | role |
|---|---|---|
| `RunLifecycle` | what a run promises its users | abstract specification |
| `RunStore` | the run tables and all of their transactions | core; refines `RunLifecycle` |
| `RunStoreProofs` | | theorems about `RunStore` |
| `RunWorkflows` | both workflows, their intents and faults | composes with `RunStore` (EXTENDS) |
| `RunWorkflowsProofs` | | theorems about `RunWorkflows`, on top of `RunStoreProofs` |
| `RunService` | the requests that check first and write later | composes with `RunStore` (EXTENDS) |
| `RunServiceProofs` | | theorems about `RunService`, on top of `RunStoreProofs` |
| `Outbox` | what the queue promises whoever enqueues | abstract specification |
| `WorkQueue` | the table, the controllers, time, crashes | refines `Outbox` |
| `WorkQueueProofs` | | theorems about `WorkQueue` |
| `StackAccess` | role changes on one stack | |
| `StackAccessProofs` | | theorems about `StackAccess` |
| `SavedPlan` | executor sessions, run keys, workspaces, the artifact store | what `RunWorkflows` calls the executor's work |
| `SavedPlanProofs` | | theorems about `SavedPlan` |
| `TemplateSync` | registrations, the sync workflow, the token cache | |
| `TemplateSyncProofs` | | theorems about `TemplateSync` |
| `Sessions` | browser sessions, from sign-in to their end | |
| `SessionsProofs` | | theorems about `Sessions` and about `VerifierKeys` |
| `VerifierKeys` | the provider's keys as the API process knows them | |
| `MC...` | | instances for TLC |

A definition whose name carries another definition's name and an underscore
(`Close_Swallows` for `Close`) is a mutant: a bug somebody could have written there.
No specification uses one; each shows that some property notices that bug.

### RunStore

One operator is one transaction with everything it calls. All but one lock the run's row
in their first statement, or are that statement, and so are one step. The exception is
`RecordTemplateRunStep`, which locks the execution's row and only reads the run's status. It meets the
end of its execution, which `finishRunningExecution` makes in two statements: the first ends the running
steps it can see, the second waits for the execution's row. A step whose insert commits in between is missed
and stays running (`FinishRunningExecution`, over the steps `underWay`). `FinishTemplatePlan` cannot
miss one when it ends the plan, because recording the counts has locked the execution's row before
(`UnderWayAfterCounts`). An operator's
parameter `reply` is what the caller is told, and a transaction that rolls
back replies an error and changes nothing. `Next` lets anyone call anything in any
order, so what holds of `RunStore` needs no assumption about workflows.

Correspondence: `status`, `operation`, `autoApprove`, `template`, `snapshot`,
`planKey` are columns of `template_runs`; `approvals`, `execution` and `step` are the
three child tables (an execution of a run by phase, a step by execution and name);
`lifecycle`, `desired`, `pendingRun`, `lastAppliedRun` are columns of
`stack_templates`. A `(revision, config)` pair is one value, a snapshot. The copies of
it beside `pending_plan_run_id` and `last_applied_run_id` are written by the
statement that names the run, and are read through the run here. Resource counts
keep only the guard on them. Log rows decide nothing and are left out.

The conditional updates carry the design: `Carried` is `endWorkflowExecution`
(a status write reaches the run only through an execution that is still running),
`WorkflowStatusSources` is the table of allowed predecessors, `ReleaseRunPlan`
clears the pending plan when a run ends, `InterruptedDestroy` corrects the
lifecycle of a stack template whose destroy failed.

### RunWorkflows

A workflow is a program, the sequence of calls its lifecycle makes
(`PlanProgram`, `ApplyProgram`), and a position in it. A call to the control plane
is one `RunStore` transaction. It may be lost before it commits (`LoseCall`), lose
its acknowledgement (`LoseAcknowledgement`), or, with `LateWrites`, commit after the
workflow gave up on it (`DelayCall`, `LandLateCall`): an activity's timeout cancels
its context, but a statement already with the database commits anyway. A late step is also
what can be under way as the run ends (`StepsUnderWay`), since a workflow waits for the others. The workflow
cannot tell these apart; it closes its workspace and records the failure, again with
one attempt. The executor's work succeeds or fails at every step; what it leaves
outside the tables is `saved`, whether the plan's file is there, and `deployed`, the
run whose snapshot the infrastructure is in, which a broken apply may leave
`Unknown`. `StartTemplateRun` takes any snapshot, since what it read of the stack
template before its transaction may be out of date. A plan may find changes though the
deployed snapshot is the planned one, since what is deployed may have drifted. An intent is delivered at least
once and Temporal refuses the workflow ID a second time, so `StartWorkflow` moves an
idle workflow only.

### RunService

Start, edit, upgrade and approve each read a stack template, decide, and write in
a later transaction; nothing holds what was read. `request[q]` is one open request
with what it has read so far (`seen` of the stack template, `known` the runs there
were when an edit looked for runs in flight, `run` the run being approved), and its
stages are the reads in the order of the code. A check that fails ends it. The writes
are `RunStore`'s operators, unchanged, and `Elsewhere` is everything else the
workflows and DiscardRun may do to a run meanwhile, in any order.

A config is the set of variables it gives a value, which is all that
`validateTemplateConfig` and `carryForwardConfig` look at, besides that no value is null. An
update of the config writes that column only, so it keeps the revision there is by
then; an upgrade writes both. `stale` is a history variable: whether a request ever
wrote after what it had read changed. ApproveRun also reads the run by itself, before
the stack template; that read is left out, as the pending plan and the transaction ask
the same again. Every revision counts as active; authorization and audit rows are left
out.

### WorkQueue

`rows` is the table, `hand` what each controller holds after a claim, an item
copying the row as `Claim` returned it. An item goes through stages: waiting for a
worker, delivering, reached (the handler's effect took place), then delivered,
failed or superseded, which name the settling statement to come. Time is a `Tick`
that lowers every relative timer; nothing else in the code compares absolute times.
`ItemTimeout` is `safeItemTimeout`, with its rounds and its safety divisor, and
`Backoff` the capped doubling. `Slow` names the stages in which a controller may
stall past its deadline: with the empty set every handler stops when its context
ends and every settling statement is prompt. `Crash` forgets what a controller holds.

Left open or out: the claim order `(available_at, id)`, so any batch may be claimed,
which includes what `skip locked` passes over; jitter; the kinds filter;
`last_error`; Prune's advisory lock, which only saves work. A row whose kind has no
handler is given back at once with the largest delay. The registered handlers are
all of mode `job` and return no follow-ups; the model keeps both modes and
follow-ups, since the controller implements them.

### StackAccess

A request is authorized, begins a transaction, reads the stack's grants unlocked,
decides, locks and deletes the roles that go, inserts the one that comes, commits.
Postgres runs it at READ COMMITTED: `ReadGrants` sees what is committed, a written
tuple makes another writer of that tuple wait, and a tuple that is gone or already
there is a conflict. `Rollback` is a cancelled request, a deadlock's victim or a
dead process. The last-owner guard is modelled by what it looks at: `ListGrants` sorts
by role name, an assignment judges by the first of the user's roles, a revoke by the
last, which only matters once somebody has two (`JudgedOwner`).

### SavedPlan

`RunWorkflows` takes the executor's work as a success or a failure. Here it is opened: a
run's row is its status and whether it has a plan key, and `work[r]` is the session
of its present workflow, at one of the activities of `Places`, on the host that holds it.
`ring`, `dir` and `object` are what outlives an activity: each executor's `KeyRing`
(with the phase whose session made the key, which the code cannot tell), each
executor's run directories, the artifact store's plans. A plan is known by its run and
the provider versions it was made with: `tofu init` takes the lock file's versions, or any if there
is none, and `tofu apply tfplan` refuses a plan made with others. The upload is
two steps, as the filesystem store truncates an object before it copies; what the code
seals is bound to its run (`OpensBundle`).

Faults, together at most `MaxFaults`: an executor restarts (its keys and sessions
go, its disk stays), a session expires, a deletion fails, an activity is given up on and
does its work later (`late`, `RunLate`). That any activity simply fails is not counted (`Fail`).
`robbed` is a history variable: runs whose apply met a late activity of their plan.

### TemplateSync

`RegisterTemplate` commits a row and an intent; `StartTemplateSync` is a delivery, which may come again
and then starts a second workflow if the first has ended. `sync[g]` is the workflow: where it is
and its activity's present attempt (`try`), which has a number, an age and, in
SyncTemplate, the credential it clones with and then the commit it cloned. An attempt fails before it did
anything (`AttemptFails`), after it committed (`UpsertRevision` unanswered), or is given up on
with its statement under way: a status (`LoseStatus`, `RecordLate`) or a save (`LoseSave`,
`UpsertLate`), which lands whenever it lands, also after the next attempt's newer one. `RecordTemplateRegistrationStatus` is unconditional, as in the code.
`token` is the cache's one entry, in time left; a lookup that fails is no error before
the clone has failed as well (`FailClone`). Whether a commit holds a template is a property of the commit (`Valid`).
History: `faulted` (something went wrong for it), `crossed` (its sync overlapped another of its ref),
`overtaken` (a late save of its ref landed between its own save and its end), `refused` (the saves that
met another source's revision and were rolled back), `misled` (its row does not say how its sync ended).

### Sessions

A statement on `sessions` is a step, and so is a reading of the clock; what a handler carries
between them is in `signIn[s]`, `request[q]` and `handler[h]`. `now` is a clock, since the table
compares absolute times; logout tokens and sign-in transactions have an age. The provider is external:
it ends its sessions (`EndIdPSession`), and while a logout token is fresh a notice may arrive any
number of times or never. Whether its ID and logout tokens carry a `sid` is chosen at the
start and fixed (`provider`). A redeemed code is a token of a session the provider still has. A row is named
by its session rather than its hash. `lastUsed` and `told` are history: what a request was judged at
and the end `/v1/me` told; `missed`, `overtaken` and `overlapped` name the excuses the properties admit.

### VerifierKeys

`set` is the live view of the key cache, which a refresh changes before it vets it (`LandKeys`, `PinKeys`), or builds
anew at another address (`SwapKeys`). `token[t]` is one verification: waiting for `refreshMu`, refreshing,
looking again, or with its verdict. What a lookup with the ID decides and what the signature
decides are one step, as nothing else of the process can change the outcome in between but a refresh, which is a step of its own
before or after. The provider is external and may publish another document, move it, and fail; two keys may share an ID.
`Admits` says which tokens a key's `alg` and `use` let through; a set that names an ID twice, or has under the
token's ID a key that does not admit it, `Refuses` the token, and `cachedKeyFor` then calls it invalid without a refresh.
A refresh runs on the context of the request that asked for it, so it fails when that caller
disconnects (`Disconnect`, `Abandoned`), with its cooldown spent. The cache's workers run on the context the cache was
made with: `owner` is the process's for the first and the refreshing request's for one made when the JWKS
moved. Once that request is over nobody works for the cache (`Hung`), and a refresh asked of it neither ends
nor times out unless the ending workers still answer it (`DropRefresh`) or its caller leaves. This is how the code's `jwx` and `httprc` behave as
`oidc_provider.go:103-114` uses them. They are external: a cache whose context is done answers nobody. An answer that
arrives after its refresh was abandoned is not modelled. All timers count down and stop at zero, so time goes on without a bound. The process is never stopped
between two of its steps (`Settled`), only the provider takes time, up to the client's
`Timeout`. `gone`, `quiet` and `excused` are history variables.

## 3. What the runs show

| run | configuration | shows |
|---|---|---|
| `run_store` | 2 runs on one stack template, 2 steps, any of them under way while its execution ends | the tables agree after every transaction: an execution is on one step at a time, and a step outlives its execution only in a run that completed or failed; a pending plan is one that waits, is approved or is being applied; a run that is over has no key; `RunStore` implements `RunLifecycle` |
| `run_workflows` | 2 runs, two faults, late commits | a completed run did its work; a plan under review can be applied; a workflow that ended left its run, or could not record that it failed; a plan's late failure touches neither the review nor the apply |
| `run_workflows_live` | 2 runs, one fault, no late commit | every started or approved run settles, unless its failure could not be recorded; only runs in flight become live |
| `run_service` | one run, 2 open requests, 2 revisions of which the second requires a variable the first does not | while no request writes on a stale read, runs, desired state and configs agree; what an overlap can break is bounded: an edit never reaches a run it could see, a config misfits only if a revision changed under its check, an outdated plan is approved only if an edit committed meanwhile |
| `work_queue` | 2 controllers, a reconcile key whose delivery enqueues a job key, batches of 2 worked in 2 rounds, a crash or failed settle | two deliveries of one key never overlap; the newest target state is never overwritten by an older one; a processed row was delivered in the version it holds, and the queue implements `Outbox` |
| `work_queue_live` | stalls in every stage but delivery, fairness | every row is processed in the end |
| `stack_access` | 2 users, one an administrator, 2 overlapping requests | a stack loses its last owner, and a user gains a second role, only by overlapping requests (or after one such); no grant is removed twice |
| `saved_plan` | 2 runs on 2 executors, 2 provider versions, one fault | a run that can be approved has its plan, whole and openable; a session on a live executor finds its key, its workspace and its plan, but for a late activity of its own run; what is applied is what was reviewed |
| `template_sync` | 2 registrations, 2 refs, 3 commits of which one holds no template, one fault (a status or a save that lands late among them), 2 moves, 2 attempts | a completed registration has a revision of its own source template, and completes with the latest unless a sync of its ref overlapped it or a late save overtook it; a sync that ended is settled; a registration fails only for a reason; a token outlives its clone |
| `shared_commit` | 2 registrations, 2 refs, 1 commit, no fault | *violation*, see section 5 |
| `sessions` | 2 sessions of one user on 2 sessions of the provider, 2 requests on one of them, 1 notice at a time, 3 kinds of tokens | nobody outstays the absolute bound; the idle bound follows use; the end a caller was told is kept; what the provider ended is ended, and nothing else; the reaper takes the dead |
| `verifier_keys` | 3 keys of one ID of which two have one algorithm, 2 addresses, 2 verifications whose callers may leave, one change or outage | a genuine token is not called invalid without an excuse; a withdrawn key is forgotten; one refresh per cooldown; in the end the tokens of a key that stays published are accepted, as long as the cache is the one made at startup and callers stay |

Bounds. Every interaction in the run tables is between two runs of one stack
template, or the two workflows of one run, so two runs and one stack template
meet all of them. The tables and the workflows only copy snapshots, so those runs have
one. In `run_service` at most one run is in flight, and a request meets at most one
that appears while it is open, so there is one; two requests are one overlap, and an
overlap of three is an overlap of two of them. A start on a stack template that a run
destroyed since it was read needs a second run and is not reached there; the theorems
of section 4, which hold for any number of runs and requests, cover it. A lost
call, a late one, and one of each are the combinations that differ, which `MaxFaults` at 2
covers; the second fault can hit the recording of the first. One case needs three runs and
is met by the proof alone: with late commits, a run that is over may take the record of the
last applied run while another completes, which `CompletedRunDidItsWork` excuses. Two
controllers are enough for a reclaim. In `work_queue` handlers stop when their
context ends and no time is lost outside them (`Slow` is empty), which `OneDeliveryPerKey` and
`NewestWins` need, there and in their proofs; what else is proved holds with stalls of any length. `Lease = 6` makes `ItemTimeout` two ticks for
two rounds, so a batch really nears its lease. `MaxIntents`, `MaxAttempts` and the
fault bounds cap counters the code leaves unbounded; the largest backoff is
reached within `MaxAttempts`. A run's and a controller's identity is
interchangeable, so the safety runs use symmetry; none that checks liveness does.
In `sessions` the sign-ins are over before the clock reaches
`Horizon`, and every row expires before it, so each row is seen alive, expired and
swept; a touch is due after two ticks of three that an idle session lives, so one that is used may lag behind its use; an overlap is of two touches, of a touch with what ends a session, or of a sign-in with a notice, each of
which two requests and one notice meet. The three kinds of tokens are those that differ: `sid` in both, in neither, and in the logout token only.
In `saved_plan` a session's time is one tick and a key's
two, the order the code's twenty-four and twenty-five hours have, so keys do get evicted; two executors are one that made the plan
and another that applies it. In `template_sync` two registrations share a ref or a
commit or neither, and two attempts are a first and a last one. In `verifier_keys` one change while up to two
verifications are under way is every order of them: a key is replaced by one of its own algorithm or another's, joined, or gone
with its address. A set is trusted for one tick, and `gone` and `quiet` stop where nothing compares them further; longer
lifetimes, and a second change that meets a refresh for the first, are the theorems'.
Deadlock checking is off for `RunWorkflows` and `SavedPlan`, where every run may be over, and for `Sessions`, where time ends.

Fairness. `RunWorkflows` asks only that a workflow that can move does: the queue
keeps an intent until it is handled (this is what `EveryRowIsProcessed` shows of it)
and Temporal reschedules a workflow until it ends. Nobody has to start, approve or
discard, and a late call need not land. `WorkQueue` asks that time passes and
controllers go on with what they hold (WF), and, per key, that claims, starts,
deliveries, successes and follow-ups that are possible again and again happen (SF): the controllers claim oldest first and retry for ever, so a row is not
passed over indefinitely, and a handler that always fails is not promised anything. `VerifierKeys` asks that time
passes, that a refresh and a verification under way go on (WF), and that whoever waits for
`refreshMu` gets it in the end (SF), which Go's mutex promises. A request that has its verdict ends (WF); nobody has to
disconnect, and a cache without workers need not answer. Of the provider it asks nothing:
`SteadyKeysAreAccepted` speaks of behaviours in which it stays up, nobody disconnects any more and the
cache is still the one made at startup. The other modules state safety only.

## 4. What is proved

TLAPS checks these for all values of the constants, under the assumptions the
modules name. They say that a stand-in for "none" is none of the things it stands in for
(`NoRunAssumption`, `UnknownAssumption`, `NoneAssumption`), that what must exist does
(`NonEmptyAssumption`, `StepsAssumption`), and the order of the code's own bounds: positive lease,
batch size, workers and backoffs, and a mode and follow-ups for every key (`WorkQueue`); a session no
longer than its keys (`SavedPlan`); bounds of a session that fit before the clock's end
(`Sessions`); an attempt no longer than the margin at which the cache lets go of a token
(`TemplateSync`). TLC evaluates each of them on a run of its module.

`RunStoreProofs`: `TypeCorrect`, `Agreement` (`TablesAgree`), `PendingAgrees`, `KeysDropped`,
and `Refinement`, that `RunStore` implements `RunLifecycle`; besides, what no run checks by itself any more:
`RunningAgrees`, `StepsFollow` (`StepsFollowTheRun`), `ApprovalNeeded`, and `HistoryKept`. Only `StepsFollow` looks at steps, and it is proved with any step's write under way at any end of an execution;
what makes it inductive is that an end which may miss a step is the run's own, so that nothing starts
or is reviewed in the run afterwards. They rest on the inductive invariant `IInv`, which adds to
the checked invariants four facts they need: one unfinished run per stack template
(`OneUnfinishedRun`, the in-flight index), no execution of a run that has not begun
(`NothingBeforeTheRun`), no apply execution while the plan's still runs
(`ApplyFollowsPlan`), and an approval behind every approved run (`ApprovedByApproval`).
None of the checked invariants is inductive alone. `RunningExactlyWhenCarried`, for
one, survives the first status write of a run only because a queued run has no
execution yet, and a claim only because no plan execution is running any more. The
proof takes one lemma per transaction and one step per conjunct that the
transaction can disturb; the refinement maps each transaction to its abstract step
or to a stutter, `running` splitting into planning and applying by the execution
that carries it.

`RunServiceProofs`: `FreshAgree`, `EditsMeetLaterRuns`, `MisfitNeedsOverlap` and
`StaleApprovalNeedsOverlap`, all four properties of `run_service`, under
`RevisionsAssumption` (a snapshot is a revision and a set of variables). Every step of the
service is a step of `RunStore` (`ServiceStepsAreStoreSteps`), so `IInv` holds here too, and
with it `RunsStay`: an existing run keeps its stack template, snapshot and operation, and
one that is over stays so. Hence what a request carries stays true while it waits, which
is the inductive invariant `SInv`: the runs an edit knows are over, a run being approved is
of the desired state its approver read, a request that went on read an active stack
template. `FreshRequestsAgree` is part of it; its one hard case is a change of lifecycle,
which only the destroy in flight makes (`OnlyItsDestroyMovesLifecycle`), and by
`OneUnfinishedRun` that is the run the property speaks of.

`WorkQueueProofs`: `TypeCorrect`, `OnlyDeliveredIsProcessed` and `Refinement`, that
`WorkQueue` implements `Outbox`. The argument is the fence: `IInv` says that an item
whose revision still is its row's has the row's intent, and that an item in a stage
after delivery has its intent in `delivered`; `Complete` compares revisions, so it
can only mark what was delivered. That there is one pending row per key
(`OnePendingRow`) is what makes a coalescing enqueue replace the owed intent and no
other. Nothing in it depends on leases or time, which is why it holds with stalls
of any length.

Two more theorems do depend on time, `DeliveriesDoNotOverlap` (`OneDeliveryPerKey`) and
`NewestIsKept` (`NewestWins`). They assume `Prompt`: `Slow` is empty, and a lease is at least six units, so that
the sixth `safeItemTimeout` sets aside is not rounded to nothing (the code counts nanoseconds).
They hold for any lease, batch size and number of workers and controllers, crashes and lost
settlements included. `TInv` says that each controller has a
`Schedule`: a time since its claim, a count of items started, and a place in that order for each item in a
handler. A batch's n-th item, from 0, starts no later than `n \div Workers` deadlines after the claim
(`Due`); when time passes with items waiting, all workers are busy, so by the pigeonhole
principle one of them is at least a round ahead (`WorkersFull`). Hence all rounds end before
the lease does (`RoundsFit`, `TimeRemains`), a held row is never ready to be claimed, and no
two items are of one row. `NInv` builds `NewestWins` on that: a pending row has its key's newest
intent, and what an item brought to its target is still there when the item completes its row.

`StackAccessProofs`: `RemovedOnce` (`NoGrantIsRemovedTwice`), `OwnerlessNeedsOverlap` and
`SecondRoleNeedsOverlap`, all three properties of `stack_access`, for any users and any number of requests that
are open at a time. The inductive invariant `IInv` has two parts. One is what a request carries
(`Orderly`): it writes the difference between the role it is to leave and what it read,
it did not find its target the last owner, and it has locked what it wrote. The other is that no tuple is
locked twice (`Apart`), hence what a transaction deleted stays there until it commits
(`DeletesWhatIsThere`), which alone would not survive another's commit. That a commit leaves its user one
role and takes nobody for less than an owner then follows from what it read, unless
that has changed since.

`RunWorkflowsProofs`: all the safety properties of the workflows, for any number of runs,
calls that go wrong and calls that commit late. The lemma `StoreIsUsed` comes first: every step
of the workflows is one of the store's by the way the module is written, so `RunStoreProofs`' `IInv` holds here. The inductive
invariant `WInv` adds what the store, which serves any caller, cannot know and these callers
guarantee. `WorkflowFine` ties a workflow's position to its execution's row: nothing before the
first call, running while it works, ended or unrecorded when it is done. `SavedFine` and
`DeedsFine` say what a run has by the time its program is past getting it: the plan's key and
file, the deployed infrastructure, the record of it. `LateFine` says which calls can still
commit: the one its workflow stopped at, or its last. `DestroyingFine` and `DeployedFine` name
the run behind a lifecycle and behind what is deployed. `ReviewablePlanCanBeApplied`, for one,
survives a plan's last call only because its program made the key and saved the file before
it (`PlanOrder` and `ApplyOrder`, over the programs). One lemma per kind of call says what it
does to the tables, and `CallStep` joins them; it serves a prompt, an unacknowledged and
a late call alike. `QuietStep` is for steps the tables do not see, `ServiceStep` for the requests of
users. `OverRunsStayOver` assumes `~LateWrites`, as its run does; section 5 says why.
The proof corrected a property: `CompletedRunDidItsWork` was too strong beyond two runs (section 3).

`SavedPlanProofs`: `ReviewsHaveTheirPlan`, `SessionsFindWhatTheyNeed` and `ReviewedIsApplied`, all
three properties of `saved_plan`, for any runs, executors and versions and any number of faults.
`IInv` has a part for each thing a session relies on: its row (`RowFine`), the stored plan
from the moment its session may still succeed (`PlanFine`), the key, which is no older than its
session and so outlives it (`KeyFine`), the workspace from the plan's restoring on (`WorkspaceFine`).
What makes them inductive is `LateFine`: a late activity can only meet a run that is
over, a session that has that activity behind it, or the apply that followed its plan, and
no upload meets that apply. A late cleanup can empty an applying workspace, but then tofu
does not start in it, which is why `AppliesWhatWasReviewed` needs no exception.
A step of one run leaves all others alone (`StepsApart`) but for keys past their time,
so each lemma looks at one run.

`TemplateSyncProofs`: `CompletedHasItsRevision`, `EndedSyncIsSettled`, `FailsOnlyForAReason`,
`TokenOutlivesTheClone` and `CompletionTellsTheLatest`, all the properties of `template_sync`.
`IInv` says, place by place, what a sync carries: the row is at the stage it is about to leave, or
something went wrong (`ReportsInOrder`); what it, or a late status, is about to write names a
revision of its own source template (`NamesItsRevision`); its token has more left than
its attempt has (`TokenLasts`). `CompletesWithLatest` is inductive only with `Noticed`: two
syncs of one ref that have both cloned know that they overlapped, so the later insert excuses
what the earlier reports; a late save excuses those it finds about to report (`overtaken`). `FailsWithReason`
keeps the commits whose save was refused (`refused`), since a sync may clone another commit on its next
attempt: the failure is explained by a revision of another ref with the very commit that was refused, and revisions go by
their commit (`RevisionsByCommit`).

`SessionsProofs`: the six properties of `sessions`, for any sessions, requests and
notices and any bounds. `IInv` has two parts. `Clocked` is about time: a row's last use is
written or about to be (`Tracked`), what a request has read is no newer than the row unless an
older touch overtook it (`SeenFine`), a told end is kept (`ToldFine`). `Noticed` is about the
provider's ends: why each revoked row may be (`Narrow`), and that an answered notice left no
row standing and no sign-in underway but those it overlapped (`NoticeFine`, `EndedFine`), which
needs what a notice's first statement established by the time the second follows (`FallbackFine`).

`SessionsProofs` also proves the three safety properties of `verifier_keys`, because
sign-ins and notices are believed for those keys: `GenuineTokensAreNotInvalid`, `WithdrawnKeysEnd` and
`ProviderIsLeftAlone`, for any keys, documents, addresses and tokens and any times. The two
specifications share nothing; what `VerifierKeys` would call what `Sessions` does has a name of
its own instead (`KeysSpec`, `KeysInit`, `KeysNext`). The inductive invariant `KInv` follows a key on
its way into the set. What the provider serves is not gone (`PublishedIsNotGone`), an answer's keys are
gone for no longer than it has been under way
(`AnswerIsFresh`, which the HTTP client's timeout bounds), and so a set's keys are gone for no longer than
its remaining life allows (`SetIsFresh`); a token is accepted only from a set with life left. Of the answer to a refresh
that hangs nothing is claimed, as nobody makes a set of it. Being
called invalid takes the same way with one token in mind: every excuse is noted in the tokens being verified as it
arises (`ExcusesAreNoted`), so the answer to a refresh has the key of every token that asked for it and
has no excuse (`AnswerServes`), and once that refresh succeeded so has the set (`SetServes`). The
second needs `LandedIsHeld`, since a set is in use before it is vetted, and a move of the JWKS drops out
because it excuses everybody. `CooledDown` (`cooldown + quiet = RefreshCooldown`) is all that the
provider's rest depends on: the timer is set before anything is fetched and no failure resets it.

Only model-checked: all liveness (`RunsSettle`, `EveryRowIsProcessed`,
`SteadyKeysAreAccepted`), which is out of the prover's reach. Every safety property of a
passing run is stated by a theorem.

## 5. Where the code and what is said of it part

- **A second ref of a registered commit cannot be registered** (`shared_commit`).
  A revision's ID, the primary key of `template_revisions`, is derived from the repository, the root path and the
  commit, not from the ref (`template_sync.go:517`), while the insert gives way only to a
  conflict on the source template and the commit. Two refs have source templates of their own, so the second
  insert meets the primary key on every attempt and the registration fails.
  `docs/superpowers/specs/2026-07-08-template-revision-upgrades-design.md:63` says the refs of one commit
  can have separate source-template rows.

Further limits, each of which a property above states as an exception or an instance leaves out by name:

- *A run can be lost halfway.* Control activities have one attempt, the recording of a
  failure included. If both are lost the run stays `running` with no workflow, and its stack template
  takes no further run (the exception `unrecorded` in `RunsSettle` and
  `EndedWorkflowLeavesNothingRunning`; `README.md:56-57` says a plan or apply survives a restart).
- *A failed run can become the last applied one.* The branch of `FinishTemplatePlan` without
  changes reads the run's status and does not look at it, so it acts if it commits after its activity
  timed out. `OverRunsNeverGoLive` is checked without late commits and does not hold with them
  (`repositories.go:1456-1457` says a run that has moved on cannot become live).
- *Desired state can change under a run* that starts after an edit looked for runs in flight
  and before it writes (`EditsOnlyMeetLaterRuns`; `service.go:1535-1536` says it cannot change while
  a run is in flight). The pending plan then no longer matches, and an approval that reads it
  afterwards is refused.
- *Two deliveries of a key can overlap* if a settling statement commits after its lease:
  `Reschedule` is fenced by neither revision nor attempt, so it resets the delay of a row another
  controller holds. `OneDeliveryPerKey` is checked and proved with `Slow` empty.
- *A stack can lose its last owner.* Two owners who step down or demote each other at once each count the
  other (`OwnerlessOnlyByOverlap`;
  `docs/superpowers/specs/2026-07-14-authn-authz-security-architecture-design.md:210` says removing the last
  owner is rejected).
- *A step can stay running in an execution that has ended.* A step's write locks the
  execution and the end of a run locks the run, so they overlap; `finishRunningExecution` looks for running steps before it
  waits for the execution, and misses one that is being inserted. Its comment (`run_executions.go:54-55`) says it ends the
  step the execution was on the same way. It happens only as a run completes or fails, which `StepsFollowTheRun` says, and nothing ends such a
  step afterwards.
- *A replaced key may trigger no refresh.* If the key that is cached under a token's ID has
  another algorithm or use, `cachedKeyFor` calls the token invalid and `keyFor` returns that at once
  (`oidc_provider.go:169-172`, `220-224`; `Mismatched`, an excuse of `GenuineIsNotCalledInvalid`). A key replaced in place by one of another algorithm is refused until
  another token, or the set's age, brings a refresh; `docs/authentication.md:160` says a replaced key
  triggers one.
- *A moved JWKS leaves a cache that dies with a request.*
  `refreshDiscoveryIfDue` makes the new cache on the context of the request that happened to refresh
  (`oidc_provider.go:319`, `110`). When that request ends, so do the cache's workers, and the next refresh waits
  while it holds `refreshMu` until its own caller leaves (`Hung`, and `Undisturbed` in `SteadyKeysAreAccepted`);
  `docs/authentication.md:160-162` says rotation needs no restart.
- *A late save can take a ref back.* A save that Temporal gave up on lands after the next attempt's newer one and makes
  the older revision the latest (`overtaken` in `CompletionTellsTheLatest`).
- *A caller that leaves spends everybody's refresh.* Its refresh fails and the cooldown runs on, so others' tokens are
  unavailable for that long; `SteadyKeysAreAccepted` therefore speaks of callers that stay.
- *What else is excused.* A sign-in under way at a back-channel notice keeps its session (`overlapped`), a late
  `ReleaseRunKey` or cleanup can take the key or workspace of the run's apply (`robbed`), a late status can reopen a registration
  (`misled`): `EndedMeansEnded`, `SessionFindsWhatItNeeds` and `EndedSyncIsSettled` say that nothing else does.
  That one replica's clock may be ahead of another's is modelled nowhere. `Outbox` does not speak of follow-ups; `OnlyDeliveredIsProcessed` does.

## 6. The plan

In this order; each module comes with its instances, properties and mutants.

1. *(done)* `RunLifecycle`, `RunStore`, `RunWorkflows`, `RunStoreProofs`: the core.
2. *(done)* `Outbox`, `WorkQueue`, `WorkQueueProofs`: how work leaves a transaction.
3. *(done)* `StackAccess`: who may do it.
4. *(done)* `RunService`, `RunServiceProofs`: what is read before a run is created,
   approved or overtaken by an edit.
5. *(done)* `Sessions`: who is at the door, from sign-in to every way a session ends.
6. *(done)* `TemplateSync`: what is registered, with retried activities and late writes.
7. *(done)* `VerifierKeys`: whose tokens are believed.
8. *(done)* `SavedPlan`: how what was reviewed reaches its apply.
9. `StoreBootstrap`: two processes that find or create OpenFGA's store and model.
10. `CreateStack` in `StackAccess`, and installing a stack template in `RunService`.

No safety property is left to prove; items 9 and 10 would bring theirs.

## 7. What is not modelled

`PROJECT.json` gives each component's status and reason. In short: the authorization
bootstrap is planned; it runs before a process serves anybody. Users, credentials and
audit rows are single statements whose result nothing else decides on. The S3 client, log
files and the runner's subprocesses are I/O: of them the models keep what can fail, and
what is left where. Parsing and inspecting a template is a function of its commit. The
HTTP layer, the overview pages, configuration and the web interface keep no state the
other components rely on.
