---------------------------- MODULE TemplateSync ----------------------------
(***************************************************************************)
(* Registering a template: RegisterTemplate's transaction, the start       *)
(* intent the queue delivers at least once, TemplateSyncWorkflow and the   *)
(* attempts of its activities, the GitHub App token a clone is made with,  *)
(* and the tables source_templates and template_revisions.                 *)
(*                                                                         *)
(* One repository and root path is modelled; its refs move, and may name   *)
(* the same commit.  Temporal retries an activity MaxAttempts times: an    *)
(* attempt fails before it did anything, loses its answer, or is given up  *)
(* on while its transaction is on its way to the database.  Whether a      *)
(* commit holds a valid template (safeTemplateRootPath to                  *)
(* sensitiveVariableNames) depends on the commit.                          *)
(***************************************************************************)
EXTENDS Integers, FiniteSets

CONSTANTS
  Registrations, Refs, Commits,
  Valid,        \* the commits that hold a valid template
  None,
  TokenLife,    \* how long GitHub's installation tokens live
  ExpiryMargin, \* expiryMargin: the rest at which the cache lets go of one
  SyncTimeout,  \* StartToCloseTimeout of the sync's activities
  MaxAttempts,  \* of syncRetryPolicy
  MaxFaults,    \* bound: what goes wrong
  MaxMoves      \* bound: how often a ref moves, or who may read changes

ASSUME TemplateSyncAssumption ==
  /\ Valid \subseteq Commits /\ None \notin Commits \cup Refs
  /\ {TokenLife, ExpiryMargin, SyncTimeout, MaxAttempts} \subseteq Nat \ {0}
  /\ SyncTimeout <= ExpiryMargin /\ ExpiryMargin < TokenLife
  /\ {MaxFaults, MaxMoves} \subseteq Nat

VARIABLES
  head,     \* GitHub: the commit of each ref
  access,   \* GitHub: whether the repository is public, or has the App
  moves,    \* counted for their bound
  ref,      \* of each registration
  row,      \* template_registrations
  intents,  \* registrations whose start intent is in the queue
  sync,     \* their workflows, each with its activity's present attempt
  late,     \* statuses that given-up attempts have still to write
  lateSaves,\* revisions that they have still to save
  token,    \* the cached token: what is left of its life, 0 for none
  sources,  \* source_templates: the latest revision of each ref's row
  revisions,\* template_revisions
  faults,   \* counted for their bound
  faulted,  \* history: registrations that something went wrong for
  crossed,  \* history: whose sync overlapped another of the same ref
  overtaken,\* history: whose save was followed by a late one of the same ref
  refused,  \* history: the commits whose save was refused
  misled    \* history: whose row does not say how their sync ended

github == <<head, access, moves>>
tables == <<row, sources, revisions>>
story  == <<crossed, overtaken, refused>>
vars   == <<github, ref, tables, intents, sync, late, lateSaves, token,
            faults, faulted, story, misled>>

Over == {"completed", "invalid", "failed"}

NoRow  == [status |-> "absent", revision |-> None]
NoSync == [at |-> "idle"]

\* An activity's attempt: how many there were before it, how long it has taken
\* and, of SyncTemplate, the commit it cloned or the token it clones with.
Attempt == [tries : 0 .. MaxAttempts - 1, age : 0 .. SyncTimeout,
            commit : Commits \cup {None},
            credential : {"token", "not_installed", "unavailable", "none"},
            left : 0 .. TokenLife]

Fresh == [tries |-> 0, age |-> 0, commit |-> None, credential |-> "none", left |-> 0]

Statuses == [status : {"running"} \cup Over, revision : Commits \cup {None}]

Revisions == [id : Commits, source : Refs, commit : Commits]

TypeOK ==
  /\ head \in [Refs -> Commits]
  /\ access \in {"public", "installed", "private"}
  /\ moves \in 0 .. MaxMoves
  /\ ref \in [Registrations -> Refs \cup {None}]
  /\ row \in [Registrations ->
       [status : {"pending", "running"} \cup Over, revision : Commits \cup {None}]
       \cup {NoRow}]
  /\ intents \subseteq Registrations
  /\ sync \in [Registrations -> {NoSync, [at |-> "ended"]} \cup
       [at : {"marking_running", "recording_step", "resolving_token", "cloning",
              "saving", "recording_outcome", "recording_failure"},
        try : Attempt, outcome : Statuses \cup {None}]]
  /\ late \subseteq [of : Registrations, write : Statuses]
  /\ lateSaves \cup refused \subseteq [of : Registrations, commit : Commits]
  /\ token \in 0 .. TokenLife
  /\ sources \in [Refs -> Commits \cup {None}]
  /\ revisions \subseteq Revisions
  /\ faults \in 0 .. MaxFaults
  /\ faulted \cup crossed \cup overtaken \cup misled \subseteq Registrations

Init ==
  /\ head \in [Refs -> Commits]
  /\ access \in {"public", "installed", "private"}
  /\ ref = [g \in Registrations |-> None]
  /\ row = [g \in Registrations |-> NoRow]
  /\ sync = [g \in Registrations |-> NoSync]
  /\ intents = {} /\ late = {} /\ lateSaves = {} /\ token = 0 /\ moves = 0 /\ faults = 0
  /\ sources = [r \in Refs |-> None] /\ revisions = {}
  /\ faulted = {} /\ crossed = {} /\ overtaken = {} /\ refused = {} /\ misled = {}

Fault(g) ==
  /\ faults < MaxFaults /\ faults' = faults + 1
  /\ faulted' = faulted \cup {g}

NoFault == UNCHANGED <<faults, faulted>>

-----------------------------------------------------------------------------
(* Asking for a registration, and starting its workflow.                   *)

\* RegisterTemplate: the row and the intent in one transaction.
RegisterTemplate(g, r) ==
  /\ row[g] = NoRow
  /\ ref' = [ref EXCEPT ![g] = r]
  /\ row' = [row EXCEPT ![g] = [status |-> "pending", revision |-> None]]
  /\ intents' = intents \cup {g}
  /\ NoFault
  /\ UNCHANGED <<github, sync, late, lateSaves, token, sources, revisions, story, misled>>

Running(g) == sync[g].at \notin {"idle", "ended"}

\* StartTemplateSync: a workflow under way is left alone, one that has ended is
\* no obstacle to another.  The queue may deliver the intent again.
StartTemplateSync(g, again) ==
  /\ g \in intents
  /\ IF again THEN UNCHANGED intents /\ Fault(g)
     ELSE intents' = intents \ {g} /\ NoFault
  /\ sync' = IF Running(g) THEN sync
             ELSE [sync EXCEPT ![g] =
                    [at |-> "marking_running", try |-> Fresh, outcome |-> None]]
  /\ UNCHANGED <<github, ref, tables, late, lateSaves, token, story, misled>>

-----------------------------------------------------------------------------
(* The workflow's activities, and how they fail.                           *)

At(g, at) == sync[g].at = at

\* The activity is done and the next one begins.
GoOn(g, at) == sync' = [sync EXCEPT ![g].at = at, ![g].try = Fresh]

End(g) == sync' = [sync EXCEPT ![g] = [at |-> "ended"]]

\* SyncTemplate is under way.
Syncing(g) == sync[g].at \in {"resolving_token", "cloning", "saving"}

First(g) == IF Syncing(g) THEN "resolving_token" ELSE sync[g].at

\* Mutant: an error of the sync's work is returned and not recorded.
GiveUpOn_Unrecorded(g) ==
  IF sync[g].at \in {"recording_failure", "recording_step"} \/ Syncing(g)
  THEN End(g) /\ misled' = IF At(g, "recording_failure") THEN misled \cup {g} ELSE misled
  ELSE GoOn(g, "recording_failure") /\ UNCHANGED misled

\* An activity without attempts left: lifecycle records the failure, unless
\* that is what failed.
GiveUpOn(g) ==
  IF At(g, "recording_failure") THEN End(g) /\ misled' = misled \cup {g}
  ELSE GoOn(g, "recording_failure") /\ UNCHANGED misled

\* The attempt fails, and another one starts from the beginning.
Retry(g) ==
  LET failed == sync[g].try.tries + 1
  IN IF failed = MaxAttempts THEN GiveUpOn(g)
     ELSE /\ sync' = [sync EXCEPT ![g].at = First(g), ![g].try = [Fresh EXCEPT !.tries = failed]]
          /\ UNCHANGED misled

\* An attempt fails before it has done anything, or with nothing to show, and
\* so may all that are left.
AttemptFails(g) ==
  /\ Running(g) /\ Fault(g)
  /\ Retry(g) \/ GiveUpOn(g)
  /\ UNCHANGED <<github, ref, tables, intents, late, lateSaves, token, story>>

\* The status an attempt is to write.
Intended(g) ==
  CASE At(g, "marking_running")   -> [status |-> "running", revision |-> None]
    [] At(g, "recording_outcome") -> sync[g].outcome
    [] At(g, "recording_failure") -> [status |-> "failed", revision |-> None]

WritesStatus(g) == sync[g].at \in {"marking_running", "recording_outcome", "recording_failure"}

\* Temporal gives up on an attempt whose update is on its way.
LoseStatus(g) ==
  /\ WritesStatus(g) /\ Fault(g) /\ Retry(g)
  /\ late' = late \cup {[of |-> g, write |-> Intended(g)]}
  /\ UNCHANGED <<github, ref, tables, intents, lateSaves, token, story>>

\* RecordTemplateRegistrationStatus has no guard: whatever the row says, it is
\* replaced.
RecordLate(x) ==
  /\ x \in late /\ late' = late \ {x}
  /\ row' = [row EXCEPT ![x.of] = x.write]
  /\ misled' = misled \cup {x.of}
  /\ NoFault
  /\ UNCHANGED <<github, ref, sources, revisions, intents, sync, lateSaves, token, story>>

RecordTemplateRegistrationStatus(g) ==
  /\ WritesStatus(g)
  /\ row' = [row EXCEPT ![g] = Intended(g)]
  /\ IF At(g, "marking_running") THEN GoOn(g, "recording_step") ELSE End(g)
  /\ misled' = IF At(g, "marking_running") THEN misled ELSE misled \ {g}
  /\ NoFault
  /\ UNCHANGED <<github, ref, sources, revisions, intents, late, lateSaves, token, story>>

\* RecordTemplateRegistrationStep: only a running registration has one.
RecordTemplateRegistrationStep(g) ==
  /\ At(g, "recording_step")
  /\ IF row[g].status = "running" THEN GoOn(g, "resolving_token") /\ UNCHANGED misled
     ELSE Retry(g)
  /\ NoFault
  /\ UNCHANGED <<github, ref, tables, intents, late, lateSaves, token, story>>

-----------------------------------------------------------------------------
(* SyncTemplate.                                                           *)

Step(g, at, try) == sync' = [sync EXCEPT ![g].at = at, ![g].try = try]

Report(g, outcome) ==
  sync' = [sync EXCEPT ![g].at = "recording_outcome", ![g].try = Fresh, ![g].outcome = outcome]

ReportInvalid(g) == Report(g, [status |-> "invalid", revision |-> None])

\* Mutant: a token is handed out to its last moment.
Cached_ToTheEnd(rest) == rest > 0

Cached(rest) == rest > ExpiryMargin

\* InstallationForRepo and MintToken.
MintToken(answered) ==
  IF ~answered THEN [credential |-> "unavailable", left |-> 0]
  ELSE IF access = "installed" THEN [credential |-> "token", left |-> TokenLife]
  ELSE [credential |-> "not_installed", left |-> 0]

\* Token: the cached one, or one minted for the installation.  A lookup that
\* fails is no error yet.
ResolveToken(g, answered) ==
  /\ At(g, "resolving_token")
  /\ IF answered \/ Cached(token) THEN NoFault ELSE Fault(g)
  /\ LET given == IF Cached(token) THEN [credential |-> "token", left |-> token]
                  ELSE MintToken(answered)
     IN /\ Step(g, "cloning", [sync[g].try EXCEPT !.credential = given.credential,
                                                 !.left = given.left])
        /\ token' = given.left
  /\ UNCHANGED <<github, ref, tables, intents, late, lateSaves, story, misled>>

MayRead(g) == access = "public" \/ (access = "installed" /\ sync[g].try.left > 0)

Crossing(g) == {o \in Registrations : o # g /\ ref[o] = ref[g] /\ Running(o)}

\* The root path is there, its metadata can be read, its variables inferred, and
\* none of them is sensitive.
HoldsTemplate(commit) == commit \in Valid

\* Clone, ResolveHead and what is made of the tree.
Clone(g) ==
  /\ At(g, "cloning") /\ MayRead(g)
  /\ LET commit == head[ref[g]]
     IN IF HoldsTemplate(commit)
        THEN Step(g, "saving", [sync[g].try EXCEPT !.credential = "none", !.left = 0,
                                                   !.commit = commit])
        ELSE ReportInvalid(g)
  /\ crossed' = IF Crossing(g) = {} THEN crossed ELSE crossed \cup Crossing(g) \cup {g}
  /\ NoFault
  /\ UNCHANGED <<github, ref, tables, intents, late, lateSaves, token, overtaken, refused,
                 misled>>

\* A clone that fails is the registration's fault, unless its credential could
\* not be looked up.  One that may read fails when the network does.
FailClone(g) ==
  /\ At(g, "cloning")
  /\ IF MayRead(g) THEN Fault(g) ELSE NoFault
  /\ IF sync[g].try.credential = "unavailable" THEN Retry(g)
     ELSE ReportInvalid(g) /\ UNCHANGED misled
  /\ UNCHANGED <<github, ref, tables, intents, late, lateSaves, token, story>>

\* deterministicTemplateRevisionID: the ref has no part in it.
TemplateRevisionID(commit, source) == commit

\* Mutant: a revision is known by its commit alone.
Known_ByCommit(source, commit) == {revision \in revisions : revision.commit = commit}

\* selectTemplateRevisionByIdentity.
Known(source, commit) ==
  {revision \in revisions : revision.source = source /\ revision.commit = commit}

Taken(id) == \E revision \in revisions : revision.id = id

\* Mutant: the insert has no on conflict clause.
CanUpsert_NoConflictClause(source, commit) == ~Taken(TemplateRevisionID(commit, source))

\* Whether template_revisions' keys let UpsertTemplateRevisionWithVariables
\* through: a source's own revision of the commit is reused, another's is in
\* the way of the primary key.
CanUpsert(source, commit) ==
  Known(source, commit) # {} \/ ~Taken(TemplateRevisionID(commit, source))

\* Mutant: only a new revision becomes the latest.
LatestAfter_OnlyNew(source, commit) ==
  IF Known(source, commit) # {} THEN sources[source] ELSE TemplateRevisionID(commit, source)

LatestAfter(source, commit) == TemplateRevisionID(commit, source)

\* UpsertTemplateRevisionWithVariables, one transaction.
Upsert(source, commit) ==
  /\ revisions' = IF Known(source, commit) # {} THEN revisions
                  ELSE revisions \cup {[id |-> TemplateRevisionID(commit, source),
                                        source |-> source, commit |-> commit]}
  /\ sources' = [sources EXCEPT ![source] = LatestAfter(source, commit)]

\* The attempt's save; its answer may be lost.
UpsertRevision(g, answered) ==
  LET commit == sync[g].try.commit
  IN /\ At(g, "saving") /\ CanUpsert(ref[g], commit) /\ Upsert(ref[g], commit)
     /\ IF answered
        THEN /\ Report(g, [status |-> "completed",
                           revision |-> TemplateRevisionID(commit, ref[g])])
             /\ UNCHANGED misled /\ NoFault
        ELSE Retry(g) /\ Fault(g)
     /\ UNCHANGED <<github, ref, row, intents, late, lateSaves, token, story>>

\* The transaction is rolled back, the source's own row with it.
RefuseUpsert(g) ==
  /\ At(g, "saving") /\ ~CanUpsert(ref[g], sync[g].try.commit)
  /\ refused' = refused \cup {[of |-> g, commit |-> sync[g].try.commit]}
  /\ Retry(g) /\ NoFault
  /\ UNCHANGED <<github, ref, tables, intents, late, lateSaves, token, crossed, overtaken>>

\* Temporal gives up on an attempt whose save is on its way.
LoseSave(g) ==
  /\ At(g, "saving") /\ Fault(g) /\ Retry(g)
  /\ lateSaves' = lateSaves \cup {[of |-> g, commit |-> sync[g].try.commit]}
  /\ UNCHANGED <<github, ref, tables, intents, late, token, story>>

\* Nothing tells the database that a later attempt has saved meanwhile.
UpsertLate(x) ==
  /\ x \in lateSaves /\ lateSaves' = lateSaves \ {x}
  /\ IF CanUpsert(ref[x.of], x.commit)
     THEN /\ Upsert(ref[x.of], x.commit)
          /\ overtaken' = overtaken \cup
               {g \in Registrations : ref[g] = ref[x.of] /\ At(g, "recording_outcome")}
     ELSE UNCHANGED <<sources, revisions, overtaken>>
  /\ NoFault
  /\ UNCHANGED <<github, ref, row, intents, sync, late, token, crossed, refused, misled>>

-----------------------------------------------------------------------------
(* GitHub, and time.                                                       *)

Move == moves < MaxMoves /\ moves' = moves + 1

MoveRef(r, c) ==
  /\ Move /\ c # head[r] /\ head' = [head EXCEPT ![r] = c]
  /\ NoFault
  /\ UNCHANGED <<access, ref, tables, intents, sync, late, lateSaves, token, story, misled>>

\* An admin installs or removes the App; its tokens die with it.
ChangeAccess ==
  /\ Move /\ access # "public"
  /\ access' = IF access = "installed" THEN "private" ELSE "installed"
  /\ NoFault
  /\ UNCHANGED <<head, ref, tables, intents, sync, late, lateSaves, token, story, misled>>

\* An attempt is given up on when it has had its time.
Tick ==
  /\ \A g \in Registrations : Syncing(g) => sync[g].try.age < SyncTimeout
  /\ token' = IF token > 0 THEN token - 1 ELSE 0
  /\ sync' = [g \in Registrations |->
       IF Syncing(g)
       THEN [sync[g] EXCEPT !.try.age = @ + 1, !.try.left = IF @ > 0 THEN @ - 1 ELSE 0]
       ELSE sync[g]]
  /\ NoFault
  /\ UNCHANGED <<github, ref, tables, intents, late, lateSaves, story, misled>>

-----------------------------------------------------------------------------
Next ==
  \/ \E g \in Registrations :
       \/ \E r \in Refs : RegisterTemplate(g, r)
       \/ \E again \in BOOLEAN : StartTemplateSync(g, again)
       \/ RecordTemplateRegistrationStatus(g) \/ RecordTemplateRegistrationStep(g)
       \/ Clone(g) \/ FailClone(g) \/ RefuseUpsert(g)
       \/ \E answered \in BOOLEAN : ResolveToken(g, answered) \/ UpsertRevision(g, answered)
       \/ AttemptFails(g) \/ LoseStatus(g) \/ LoseSave(g)
  \/ \E x \in late : RecordLate(x)
  \/ \E x \in lateSaves : UpsertLate(x)
  \/ \E r \in Refs, c \in Commits : MoveRef(r, c)
  \/ ChangeAccess \/ Tick

Spec == Init /\ [][Next]_vars

-----------------------------------------------------------------------------
(* Properties.                                                             *)

\* A completed registration names a revision of its own source template, which
\* is there: never one of another ref, nor one that a rolled-back, repeated or
\* overtaken save left behind.
CompletedHasItsRevision ==
  \A g \in Registrations : row[g].status = "completed" =>
    \E revision \in revisions :
      revision.id = row[g].revision /\ revision.source = ref[g]

\* The revision a sync completes with is the latest of its source template,
\* also when the ref has gone back to a commit that was registered before:
\* only syncs of one ref that overlap, or a save that Temporal had given up on
\* and that lands between the sync's own and the end, can make it another.
CompletionTellsTheLatest ==
  [][\A g \in Registrations :
       At(g, "recording_outcome") /\ row'[g].status = "completed" /\ row[g].status # "completed"
       /\ sync'[g].at = "ended" /\ g \notin crossed \cup overtaken
       => row'[g].revision = sources[ref[g]]]_vars

\* A registration fails when something went wrong for it, or when the commit it
\* was to save is that of a revision of another ref's source template: syncing a
\* commit again, after a lost answer or by another registration of the ref, is
\* not a failure.
FailsOnlyForAReason ==
  \A g \in Registrations : row[g].status = "failed" =>
    \/ g \in faulted
    \/ \E x \in refused, revision \in revisions :
         /\ x.of = g /\ revision.commit = x.commit
         /\ revision.source # ref[g]

\* A clone made with a token is made while the token lives, however long ago it
\* was cached: the cache's margin covers the time an attempt may take.
TokenOutlivesTheClone ==
  \A g \in Registrations :
    At(g, "cloning") /\ sync[g].try.credential = "token" => sync[g].try.left > 0

\* A sync that has ended left its registration completed, invalid or failed,
\* whatever failed on the way, unless the failure could not be recorded either
\* or a status given up on was written last: nobody watches one that runs for
\* ever.
EndedSyncIsSettled ==
  \A g \in Registrations :
    At(g, "ended") => row[g].status \in Over \/ g \in misled

\* The refs that reach one commit have source templates of their own, each with
\* its revision, so a registration fails only when something went wrong for it.
RefsCanShareACommit ==
  \A g \in Registrations : row[g].status = "failed" => g \in faulted
=============================================================================
