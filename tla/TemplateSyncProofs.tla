------------------------- MODULE TemplateSyncProofs -------------------------
(***************************************************************************)
(* What registering and syncing templates guarantees, proved for any       *)
(* registrations, refs and commits, any number of attempts, and any number *)
(* of faults.                                                              *)
(***************************************************************************)
EXTENDS TemplateSync, TLAPS

-----------------------------------------------------------------------------
(* The inductive invariant.                                                *)

Ended == [at |-> "ended"]

Places == {"marking_running", "recording_step", "resolving_token", "cloning",
           "saving", "recording_outcome", "recording_failure"}

Underway == [at : Places, try : Attempt, outcome : Statuses \cup {None}]

Syncs == {NoSync, Ended} \cup Underway

Registered(g) == row[g].status # "absent"

Saves == [of : Registrations, commit : Commits]

SavesOf(g) == [of : {g}, commit : Commits]

\* A status that says completed names a revision of the registration's own
\* source template.
NamesItsRevision(g, write) ==
  write.status = "completed" =>
    \E revision \in revisions :
      revision.id = write.revision /\ revision.source = ref[g]

\* A revision goes by its commit.
RevisionsByCommit == \A revision \in revisions : revision.id = revision.commit

\* Why a registration may fail.
HasReason(g) ==
  \/ g \in faulted
  \/ \E x \in refused, revision \in revisions :
       x.of = g /\ revision.commit = x.commit /\ revision.source # ref[g]

\* Nothing is under way for a registration that is not there.
StartsRegistered(g) ==
  IF Registered(g) THEN ref[g] \in Refs
                   ELSE sync[g] = NoSync /\ g \notin intents

\* What the sync has to report.
ReportsInOrder(g) ==
  /\ At(g, "saving") => sync[g].try.commit \in Commits
  /\ At(g, "recording_outcome") =>
       /\ sync[g].outcome \in Statuses
       /\ sync[g].outcome.status \in {"completed", "invalid"}
       /\ NamesItsRevision(g, sync[g].outcome)

FailsWithReason(g) ==
  /\ At(g, "recording_failure") \/ row[g].status = "failed" => HasReason(g)
  /\ At(g, "recording_step") => row[g].status = "running" \/ g \in faulted
  /\ At(g, "cloning") /\ sync[g].try.credential = "unavailable" => g \in faulted

EndsSettled(g) == At(g, "ended") => row[g].status \in Over \/ g \in misled

\* The time an attempt has left is less than its token's.
TokenLasts(g) ==
  At(g, "cloning") /\ sync[g].try.credential = "token" =>
    sync[g].try.left + sync[g].try.age > SyncTimeout

Completes(g) == At(g, "recording_outcome") /\ sync[g].outcome.status = "completed"

CompletesWithLatest(g) ==
  Completes(g) =>
    g \in crossed \cup overtaken \/ sync[g].outcome.revision = sources[ref[g]]

\* From its clone on, a sync writes what it found then.
Cloned(g) == At(g, "saving") \/ Completes(g)

Fine(g) ==
  /\ StartsRegistered(g)
  /\ ReportsInOrder(g) /\ NamesItsRevision(g, row[g])
  /\ FailsWithReason(g) /\ EndsSettled(g)
  /\ TokenLasts(g) /\ CompletesWithLatest(g)

\* What a late status may say.
LateFine(x) == Registered(x.of) /\ x.of \in faulted /\ NamesItsRevision(x.of, x.write)

\* Two syncs of one ref that have both cloned know that they overlapped.
Noticed(g, o) == Cloned(g) /\ Cloned(o) /\ ref[g] = ref[o] => g \in crossed

IInv ==
  /\ TypeOK
  /\ RevisionsByCommit
  /\ \A g \in Registrations : Fine(g)
  /\ \A x \in late : LateFine(x)
  /\ \A x \in lateSaves : Registered(x.of)
  /\ \A g, o \in Registrations : g # o => Noticed(g, o)

-----------------------------------------------------------------------------
(* What a step of one registration leaves alone.                           *)

HistoryGrows ==
  /\ revisions \subseteq revisions' /\ faulted \subseteq faulted'
  /\ crossed \subseteq crossed' /\ overtaken \subseteq overtaken'
  /\ refused \subseteq refused'

\* The others keep their part of the invariant, unless the latest revision of
\* their source template changes under a sync that is about to report it.
LEMMA OthersStayFine ==
  ASSUME IInv, NEW g \in Registrations,
         NEW o \in Registrations \ {g},
         sync'[o] = sync[o], row'[o] = row[o], ref'[o] = ref[o],
         o \in intents' => o \in intents, o \in misled => o \in misled',
         HistoryGrows,
         Completes(o) =>
           o \in crossed \cup overtaken' \/ sources'[ref[o]] = sources[ref[o]]
  PROVE  Fine(o)'
<1>1. Fine(o)
  BY DEF IInv
<1>2. StartsRegistered(o)'
  BY <1>1 DEF HistoryGrows, Fine, StartsRegistered, Registered
<1>3. ReportsInOrder(o)' /\ NamesItsRevision(o, row[o])'
  BY <1>1 DEF HistoryGrows, Fine, ReportsInOrder, NamesItsRevision, At
<1>4. FailsWithReason(o)'
  BY <1>1 DEF HistoryGrows, Fine, FailsWithReason, HasReason, At
<1>5. EndsSettled(o)' /\ TokenLasts(o)'
  BY <1>1 DEF HistoryGrows, Fine, EndsSettled, TokenLasts, At
<1>6. CompletesWithLatest(o)'
  BY <1>1 DEF HistoryGrows, Fine, CompletesWithLatest, Completes, At
<1> QED BY <1>2, <1>3, <1>4, <1>5, <1>6 DEF Fine

\* A late status stays as fine as it was.
LEMMA LateStaysFine ==
  ASSUME NEW x, LateFine(x), Registered(x.of)', ref'[x.of] = ref[x.of],
         HistoryGrows
  PROVE  LateFine(x)'
  BY DEF HistoryGrows, LateFine, NamesItsRevision

\* A step of one registration keeps the invariant when it keeps its own part.
LEMMA StepKeeps ==
  ASSUME IInv, NEW g \in Registrations, TypeOK', RevisionsByCommit',
         ref' = ref, intents' \subseteq intents,
         \A o \in Registrations \ {g} : sync'[o] = sync[o] /\ row'[o] = row[o],
         HistoryGrows, misled \ {g} \subseteq misled',
         \A o \in Registrations \ {g} :
           Completes(o) =>
             o \in crossed \cup overtaken' \/ sources'[ref[o]] = sources[ref[o]],
         Registered(g)', Fine(g)',
         \A x \in late' \ late : LateFine(x)',
         \A x \in lateSaves' \ lateSaves : Registered(x.of)',
         \A o \in Registrations \ {g} : Noticed(g, o)' /\ Noticed(o, g)'
  PROVE  IInv'
<1>1. \A o \in Registrations : Fine(o)'
  <2> SUFFICES ASSUME NEW o \in Registrations \ {g} PROVE Fine(o)'
    OBVIOUS
  <2> QED BY OthersStayFine
<1>2. \A x \in late' : LateFine(x)'
  <2> SUFFICES ASSUME NEW x \in late PROVE LateFine(x)'
    OBVIOUS
  <2>1. LateFine(x) /\ x.of \in Registrations
    BY DEF IInv, TypeOK
  <2>2. Registered(x.of)'
    BY <2>1 DEF LateFine, Registered
  <2> QED BY <2>1, <2>2, LateStaysFine
<1>3. \A a, b \in Registrations : a # b => Noticed(a, b)'
  <2> SUFFICES ASSUME NEW a \in Registrations \ {g}, NEW b \in Registrations \ {g}, a # b
               PROVE  Noticed(a, b)'
    OBVIOUS
  <2> QED BY DEF IInv, Noticed, Cloned, Completes, At, HistoryGrows
<1>4. \A x \in lateSaves' : Registered(x.of)'
  <2> SUFFICES ASSUME NEW x \in lateSaves PROVE Registered(x.of)'
    OBVIOUS
  <2>1. Registered(x.of) /\ x.of \in Registrations
    BY DEF IInv, TypeOK
  <2> QED BY <2>1 DEF Registered
<1> QED BY <1>1, <1>2, <1>3, <1>4 DEF IInv

\* Nobody has to notice a sync that does not come to its clone.
LEMMA NothingToNotice ==
  ASSUME IInv, NEW g \in Registrations, ref' = ref, crossed \subseteq crossed',
         \A o \in Registrations \ {g} : sync'[o] = sync[o],
         Cloned(g)' => Cloned(g)
  PROVE  \A o \in Registrations \ {g} : Noticed(g, o)' /\ Noticed(o, g)'
  BY DEF IInv, Noticed, Cloned, Completes, At

LEMMA InitEstablishes == Init => IInv
<1> SUFFICES ASSUME Init PROVE IInv
  OBVIOUS
<1>1. TypeOK
  BY TemplateSyncAssumption DEF Init, TypeOK, NoRow, NoSync
<1>2. ASSUME NEW g \in Registrations PROVE Fine(g)
  <2>1. row[g] = NoRow /\ sync[g] = NoSync
    BY DEF Init
  <2> QED BY <2>1 DEF Init, Fine, StartsRegistered, Registered, ReportsInOrder, NamesItsRevision,
             FailsWithReason, EndsSettled, TokenLasts, CompletesWithLatest, Completes, At,
             NoRow, NoSync
<1>3. /\ RevisionsByCommit /\ \A x \in late : LateFine(x)
      /\ \A x \in lateSaves : Registered(x.of)
  BY DEF Init, RevisionsByCommit
<1>4. ASSUME NEW g \in Registrations, NEW o \in Registrations PROVE Noticed(g, o)
  BY DEF Init, Noticed, Cloned, Completes, At, NoSync
<1> QED BY <1>1, <1>2, <1>3, <1>4 DEF IInv

-----------------------------------------------------------------------------
(* Asking for a registration, and starting its workflow.                   *)

LEMMA RegisterTemplateKeeps ==
  ASSUME IInv, NEW g \in Registrations, NEW r \in Refs, RegisterTemplate(g, r)
  PROVE  IInv'
<1>1. /\ row' = [row EXCEPT ![g] = [status |-> "pending", revision |-> None]]
      /\ ref' = [ref EXCEPT ![g] = r] /\ intents' = intents \cup {g}
      /\ UNCHANGED <<head, access, moves, sync, late, lateSaves, token, sources, revisions>>
      /\ UNCHANGED <<crossed, overtaken, refused, misled, faults, faulted>>
  BY DEF RegisterTemplate, NoFault, github, story
<1>2. ~Registered(g) /\ sync[g] = NoSync
  BY DEF RegisterTemplate, NoRow, Registered, IInv, Fine, StartsRegistered
<1>3. TypeOK'
  BY <1>1 DEF IInv, TypeOK
<1>4. /\ row'[g] = [status |-> "pending", revision |-> None] /\ ref'[g] = r
      /\ \A o \in Registrations \ {g} : row'[o] = row[o] /\ ref'[o] = ref[o]
  BY <1>1 DEF IInv, TypeOK
<1>5. Fine(g)'
  BY <1>1, <1>2, <1>4 DEF Fine, StartsRegistered, Registered, ReportsInOrder, NamesItsRevision,
     FailsWithReason, EndsSettled, TokenLasts, CompletesWithLatest, Completes, At, NoSync
<1>6. ASSUME NEW o \in Registrations \ {g} PROVE Fine(o)'
  BY <1>1, <1>4, OthersStayFine DEF HistoryGrows
<1>7. ASSUME NEW x \in late' PROVE LateFine(x)'
  <2>1. LateFine(x) /\ x.of \in Registrations
    BY <1>1 DEF IInv, TypeOK
  <2>2. x.of # g
    BY <2>1, <1>2 DEF LateFine
  <2>3. Registered(x.of)'
    BY <2>1, <2>2, <1>4 DEF LateFine, Registered
  <2> QED BY <1>1, <1>4, <2>1, <2>2, <2>3, LateStaysFine DEF HistoryGrows
<1>8. ASSUME NEW a \in Registrations, NEW b \in Registrations, a # b PROVE Noticed(a, b)'
  <2>1. ~Cloned(g)'
    BY <1>1, <1>2 DEF Cloned, Completes, At, NoSync
  <2>2. CASE a = g \/ b = g
    BY <2>1, <2>2 DEF Noticed
  <2>3. CASE a # g /\ b # g
    <3>1. Noticed(a, b) /\ ref'[a] = ref[a] /\ ref'[b] = ref[b]
      BY <1>4, <2>3, <1>8 DEF IInv
    <3> QED BY <1>1, <3>1 DEF Noticed, Cloned, Completes, At
  <2> QED BY <2>2, <2>3
<1>9. ASSUME NEW x \in lateSaves' PROVE Registered(x.of)'
  <2>1. Registered(x.of) /\ x.of \in Registrations \ {g}
    BY <1>1, <1>2 DEF IInv, TypeOK
  <2> QED BY <2>1, <1>4 DEF Registered
<1> QED BY <1>1, <1>3, <1>5, <1>6, <1>7, <1>8, <1>9 DEF IInv, RevisionsByCommit

LEMMA StartTemplateSyncKeeps ==
  ASSUME IInv, NEW g \in Registrations, NEW again \in BOOLEAN, StartTemplateSync(g, again)
  PROVE  IInv'
<1> DEFINE begun == [at |-> "marking_running", try |-> Fresh, outcome |-> None]
<1>1. /\ UNCHANGED <<head, access, moves, ref, row, sources, revisions, late, lateSaves, token>>
      /\ UNCHANGED <<crossed, overtaken, refused, misled>>
      /\ intents' \subseteq intents /\ faulted \subseteq faulted'
      /\ faulted' \subseteq Registrations /\ faults' \in 0 .. MaxFaults
  BY TemplateSyncAssumption
  DEF StartTemplateSync, NoFault, Fault, github, tables, story, IInv, TypeOK
<1>2. Registered(g)
  BY DEF StartTemplateSync, IInv, Fine, StartsRegistered
<1>3. begun \in Underway
  BY TemplateSyncAssumption DEF Underway, Places, Attempt, Fresh
<1>4. /\ sync' \in [Registrations -> Syncs]
      /\ \A o \in Registrations \ {g} : sync'[o] = sync[o]
      /\ sync'[g] \in {begun, sync[g]}
  <2>1. sync' = sync \/ sync' = [sync EXCEPT ![g] = begun]
    BY DEF StartTemplateSync
  <2>2. sync \in [Registrations -> Syncs]
    BY DEF IInv, TypeOK, Syncs, Underway, Places, Ended
  <2> HIDE DEF begun
  <2> QED BY <2>1, <2>2, <1>3 DEF Syncs
<1>5. TypeOK'
  BY <1>1, <1>4 DEF IInv, TypeOK, Syncs, Underway, Places, Ended
<1>6. Fine(g)'
  <2>1. CASE sync'[g] = sync[g]
    BY <1>1, <2>1 DEF IInv, Fine, StartsRegistered, Registered, ReportsInOrder,
       NamesItsRevision, FailsWithReason, HasReason, EndsSettled, TokenLasts,
       CompletesWithLatest, Completes, At
  <2>2. CASE sync'[g] = begun
    <3>1. At(g, "marking_running")'
      BY <2>2 DEF At
    <3> QED BY <3>1, <1>1, <1>2 DEF IInv, Fine, StartsRegistered, Registered, ReportsInOrder,
       NamesItsRevision, FailsWithReason, HasReason, EndsSettled, TokenLasts,
       CompletesWithLatest, Completes, At
  <2> QED BY <2>1, <2>2, <1>4
<1>7. Cloned(g)' => Cloned(g)
  BY <1>4 DEF Cloned, Completes, At
<1> HIDE DEF begun
<1>8. /\ RevisionsByCommit' /\ Registered(g)' /\ late' \ late = {}
      /\ lateSaves' \ lateSaves = {} /\ HistoryGrows
  BY <1>1, <1>2 DEF IInv, RevisionsByCommit, Registered, HistoryGrows
<1>9. \A o \in Registrations \ {g} : Noticed(g, o)' /\ Noticed(o, g)'
  BY <1>1, <1>4, <1>7, NothingToNotice
<1> QED BY <1>1, <1>4, <1>5, <1>6, <1>8, <1>9, StepKeeps

-----------------------------------------------------------------------------
(* The activities, and how they fail.                                      *)

LEMMA FreshIsAnAttempt == Fresh \in Attempt
  BY TemplateSyncAssumption DEF Attempt, Fresh

\* A running sync is under way.
LEMMA UnderWay ==
  ASSUME TypeOK, NEW g \in Registrations, Running(g)
  PROVE  sync[g] \in Underway
  BY DEF TypeOK, Running, Underway, Places, NoSync

LEMMA SyncTyped ==
  ASSUME TypeOK
  PROVE  sync \in [Registrations -> Syncs]
  BY DEF TypeOK, Syncs, Underway, Places, Ended

LEMMA Overwritten ==
  ASSUME NEW r \in Underway, NEW at \in Places, NEW try \in Attempt
  PROVE  [[r EXCEPT !.at = at] EXCEPT !.try = try] =
           [at |-> at, try |-> try, outcome |-> r.outcome]
<1>1. [r EXCEPT !.at = at] = [at |-> at, try |-> r.try, outcome |-> r.outcome]
  BY DEF Underway
<1>2. [r EXCEPT !.at = at] \in Underway
  BY <1>1 DEF Underway
<1>3. ASSUME NEW s \in Underway
      PROVE  [s EXCEPT !.try = try] = [at |-> s.at, try |-> try, outcome |-> s.outcome]
  BY DEF Underway
<1> QED BY <1>1, <1>2, <1>3

\* The rest of a running sync's record is kept when its activity changes.
LEMMA StepTakes ==
  ASSUME TypeOK, NEW g \in Registrations, Running(g), NEW at \in Places, NEW try \in Attempt,
         Step(g, at, try)
  PROVE  /\ sync'[g] \in Underway /\ sync'[g].at = at /\ sync'[g].try = try
         /\ sync'[g].outcome = sync[g].outcome
         /\ sync' \in [Registrations -> Syncs]
         /\ \A o \in Registrations \ {g} : sync'[o] = sync[o]
<1> DEFINE next == [at |-> at, try |-> try, outcome |-> sync[g].outcome]
<1>1. sync[g] \in Underway /\ sync \in [Registrations -> Syncs]
  BY UnderWay, SyncTyped
<1>2. sync' = [[sync EXCEPT ![g].at = at] EXCEPT ![g].try = try]
  BY DEF Step
<1>3. sync'[g] = [[sync[g] EXCEPT !.at = at] EXCEPT !.try = try]
  BY <1>1, <1>2
<1>4. [[sync[g] EXCEPT !.at = at] EXCEPT !.try = try] = next
  BY <1>1, Overwritten
<1>5. next \in Underway
  BY <1>1 DEF Underway
<1>6. DOMAIN sync' = Registrations /\ sync' = [o \in Registrations |-> sync'[o]]
      /\ \A o \in Registrations \ {g} : sync'[o] = sync[o]
  BY <1>1, <1>2
<1> HIDE DEF next
<1>7. \A o \in Registrations : sync'[o] \in Syncs
  BY <1>1, <1>3, <1>4, <1>5, <1>6 DEF Syncs
<1> QED BY <1>3, <1>4, <1>5, <1>6, <1>7 DEF next

LEMMA EndTakes ==
  ASSUME TypeOK, NEW g \in Registrations, End(g)
  PROVE  /\ sync'[g] = Ended /\ sync' \in [Registrations -> Syncs]
         /\ \A o \in Registrations \ {g} : sync'[o] = sync[o]
  BY SyncTyped DEF End, Ended, Syncs

\* An attempt that fails leads to another of the same activity, to the record
\* of the failure, or to the end.
LEMMA FailingTakes ==
  ASSUME TypeOK, NEW g \in Registrations, Running(g), Retry(g) \/ GiveUpOn(g)
  PROVE  /\ sync' \in [Registrations -> Syncs]
         /\ \A o \in Registrations \ {g} : sync'[o] = sync[o]
         /\ \/ sync'[g] = Ended /\ misled' = misled \cup {g}
            \/ /\ sync'[g] \in Underway /\ misled' = misled
               /\ sync'[g].at \in {First(g), "recording_failure"}
               /\ sync'[g].outcome = sync[g].outcome
<1>1. CASE GiveUpOn(g)
  <2>1. CASE End(g) /\ misled' = misled \cup {g}
    BY <2>1, EndTakes
  <2>2. CASE GoOn(g, "recording_failure") /\ misled' = misled
    <3>1. "recording_failure" \in Places
      BY DEF Places
    <3>2. Step(g, "recording_failure", Fresh)
      BY <2>2 DEF GoOn, Step
    <3> QED BY <2>2, <3>1, <3>2, StepTakes, FreshIsAnAttempt
  <2> QED BY <1>1, <2>1, <2>2 DEF GiveUpOn
<1>2. CASE Retry(g) /\ ~GiveUpOn(g)
  <2> DEFINE again == [Fresh EXCEPT !.tries = sync[g].try.tries + 1]
  <2>1. Step(g, First(g), again) /\ misled' = misled
    BY <1>2 DEF Retry, Step
  <2>2. sync[g].try.tries \in 0 .. MaxAttempts - 1 /\ sync[g].try.tries + 1 # MaxAttempts
    BY <1>2, UnderWay DEF Underway, Attempt, Retry
  <2>3. again \in Attempt
    BY <2>2, FreshIsAnAttempt, TemplateSyncAssumption DEF Attempt, Fresh
  <2>4. First(g) \in Places
    BY UnderWay DEF First, Underway, Places
  <2> HIDE DEF again
  <2> QED BY <2>1, <2>3, <2>4, StepTakes
<1> QED BY <1>1, <1>2

LEMMA FaultTakes ==
  ASSUME TypeOK, NEW g \in Registrations, Fault(g) \/ NoFault
  PROVE  faults' \in 0 .. MaxFaults /\ faulted \subseteq faulted' /\ faulted' \subseteq Registrations
  BY TemplateSyncAssumption DEF TypeOK, Fault, NoFault

\* A registration whose sync fails for a reason keeps its part.
LEMMA FailingStaysFine ==
  ASSUME IInv, NEW g \in Registrations, Running(g), Retry(g) \/ GiveUpOn(g),
         row'[g] = row[g], ref' = ref, intents' = intents,
         HistoryGrows, Completes(g) => sources' = sources, HasReason(g)'
  PROVE  Fine(g)' /\ Registered(g)' /\ (Cloned(g)' => Cloned(g))
<1> DEFINE s == sync'[g]
<1>1. Fine(g) /\ Registered(g)
  BY DEF IInv, Fine, StartsRegistered, Running, NoSync
<1>2. StartsRegistered(g)' /\ Registered(g)'
  BY <1>1 DEF Fine, StartsRegistered, Registered
<1>3. NamesItsRevision(g, row[g])'
  BY <1>1 DEF Fine, NamesItsRevision, HistoryGrows
<1>4. CASE sync'[g] = Ended /\ misled' = misled \cup {g}
  <2>1. /\ At(g, "ended")' /\ g \in misled'
        /\ \A at \in Places : ~At(g, at)'
    BY <1>4 DEF At, Ended, Places
  <2> QED BY <1>2, <1>3, <2>1 DEF Fine, ReportsInOrder, FailsWithReason, EndsSettled, TokenLasts,
     CompletesWithLatest, Completes, Cloned, Places
<1>5. CASE /\ sync'[g] \in Underway /\ sync'[g].at \in {First(g), "recording_failure"}
           /\ sync'[g].outcome = sync[g].outcome
  <2>1. /\ ~At(g, "ended")' /\ ~At(g, "cloning")' /\ ~At(g, "saving")'
        /\ \A at \in {"recording_step", "recording_outcome"} : At(g, at)' => At(g, at)
    BY <1>5 DEF At, Underway, Places, First, Syncing, Running
  <2>2. ReportsInOrder(g)'
    BY <1>1, <1>5, <2>1 DEF Fine, ReportsInOrder, NamesItsRevision, HistoryGrows
  <2>3. FailsWithReason(g)'
    BY <1>1, <2>1 DEF Fine, FailsWithReason, HistoryGrows
  <2>4. CompletesWithLatest(g)' /\ (Completes(g)' => Completes(g))
    BY <1>1, <1>5, <2>1 DEF Fine, CompletesWithLatest, Completes, HistoryGrows
  <2> QED BY <1>2, <1>3, <2>1, <2>2, <2>3, <2>4 DEF Fine, EndsSettled, TokenLasts, Cloned
<1> QED BY <1>4, <1>5, FailingTakes DEF IInv

LEMMA FailingKeeps ==
  ASSUME IInv, NEW g \in Registrations, Running(g), Retry(g) \/ GiveUpOn(g),
         UNCHANGED <<github, ref, row, intents, token, crossed, overtaken>>,
         Fault(g) \/ NoFault,
         late' \subseteq [of : Registrations, write : Statuses],
         lateSaves' \subseteq lateSaves \cup SavesOf(g),
         refused' \subseteq Saves, refused \subseteq refused',
         sources' \in [Refs -> Commits \cup {None}],
         revisions \subseteq revisions', revisions' \subseteq Revisions, RevisionsByCommit',
         \A x \in late' \ late : LateFine(x)',
         \A o \in Registrations :
           Completes(o) => sources' = sources
                        \/ (o # g /\ (o \in crossed \/ sources'[ref[o]] = sources[ref[o]])),
         HasReason(g)'
  PROVE  IInv'
<1>1. /\ sync' \in [Registrations -> Syncs] /\ misled \subseteq misled'
      /\ misled' \subseteq Registrations
      /\ \A o \in Registrations \ {g} : sync'[o] = sync[o]
  BY FailingTakes DEF IInv, TypeOK
<1>2. faults' \in 0 .. MaxFaults /\ faulted \subseteq faulted' /\ faulted' \subseteq Registrations
  BY FaultTakes DEF IInv
<1>3. TypeOK' /\ HistoryGrows
  BY <1>1, <1>2
  DEF IInv, TypeOK, Syncs, Underway, Places, Ended, Saves, SavesOf, github, HistoryGrows
<1>4. Fine(g)' /\ Registered(g)' /\ (Cloned(g)' => Cloned(g))
  <2>1. Completes(g) => sources' = sources
    OBVIOUS
  <2> QED BY <1>3, <2>1, FailingStaysFine
<1>5. \A o \in Registrations \ {g} : Noticed(g, o)' /\ Noticed(o, g)'
  BY <1>1, <1>4, NothingToNotice
<1>6. \A x \in lateSaves' \ lateSaves : Registered(x.of)'
  BY <1>4 DEF SavesOf
<1> QED BY <1>1, <1>2, <1>3, <1>4, <1>5, <1>6, StepKeeps

LEMMA AttemptFailsKeeps ==
  ASSUME IInv, NEW g \in Registrations, AttemptFails(g)
  PROVE  IInv'
<1>1. /\ Running(g) /\ (Retry(g) \/ GiveUpOn(g)) /\ Fault(g)
      /\ UNCHANGED <<github, ref, row, intents, token, crossed, overtaken, refused>>
      /\ UNCHANGED <<late, lateSaves, sources, revisions>>
  BY DEF AttemptFails, tables, story
<1>2. HasReason(g)'
  BY <1>1 DEF HasReason, Fault
<1>3. RevisionsByCommit' /\ revisions' \subseteq Revisions
      /\ late' \subseteq [of : Registrations, write : Statuses]
      /\ refused' \subseteq Saves
      /\ sources' \in [Refs -> Commits \cup {None}]
  BY <1>1 DEF IInv, TypeOK, RevisionsByCommit, Saves
<1> QED BY <1>1, <1>2, <1>3, FailingKeeps

\* What an attempt is to write is a status, and if it says completed, then of a
\* revision that is there.
LEMMA IntendedIsFine ==
  ASSUME IInv, NEW g \in Registrations, WritesStatus(g)
  PROVE  /\ Running(g) /\ Registered(g) /\ ref[g] \in Refs
         /\ Intended(g) \in Statuses
         /\ NamesItsRevision(g, Intended(g))
         /\ Intended(g).status = "failed" => HasReason(g)
         /\ ~At(g, "marking_running") => Intended(g).status \in Over
<1>1. Running(g) /\ Fine(g)
  BY DEF WritesStatus, Running, IInv
<1>2. Registered(g) /\ ref[g] \in Refs
  BY <1>1 DEF Fine, StartsRegistered, Running, NoSync
<1>3. CASE At(g, "marking_running")
  <2>1. Intended(g) = [status |-> "running", revision |-> None]
    BY <1>3 DEF Intended, At
  <2> QED BY <1>1, <1>2, <1>3, <2>1 DEF Statuses, NamesItsRevision
<1>4. CASE At(g, "recording_outcome")
  <2>1. Intended(g) = sync[g].outcome
    BY <1>4 DEF Intended, At
  <2> QED BY <1>1, <1>2, <1>4, <2>1 DEF Fine, ReportsInOrder, Over
<1>5. CASE At(g, "recording_failure")
  <2>1. Intended(g) = [status |-> "failed", revision |-> None]
    BY <1>5 DEF Intended, At
  <2> QED BY <1>1, <1>2, <1>5, <2>1 DEF Statuses, NamesItsRevision, Fine, FailsWithReason, Over
<1> QED BY <1>3, <1>4, <1>5 DEF WritesStatus, At

LEMMA LoseStatusKeeps ==
  ASSUME IInv, NEW g \in Registrations, LoseStatus(g)
  PROVE  IInv'
<1> DEFINE lost == [of |-> g, write |-> Intended(g)]
<1>1. /\ WritesStatus(g) /\ Retry(g) /\ Fault(g)
      /\ UNCHANGED <<github, ref, row, intents, token, crossed, overtaken, refused>>
      /\ UNCHANGED <<lateSaves, sources, revisions>> /\ late' = late \cup {lost}
  BY DEF LoseStatus, tables, story
<1>2. HasReason(g)' /\ g \in faulted'
  BY <1>1 DEF HasReason, Fault
<1>3. /\ Running(g) /\ Registered(g) /\ Intended(g) \in Statuses
      /\ NamesItsRevision(g, Intended(g))
  BY <1>1, IntendedIsFine
<1>4. lost \in [of : Registrations, write : Statuses]
  BY <1>3
<1>5. ASSUME NEW x, x = lost PROVE LateFine(x)'
  <2>1. x.of = g /\ x.write = Intended(g)
    BY <1>5
  <2> QED BY <1>1, <1>2, <1>3, <2>1 DEF LateFine, Registered, NamesItsRevision
<1> HIDE DEF lost
<1>6. RevisionsByCommit' /\ revisions' \subseteq Revisions
      /\ late' \subseteq [of : Registrations, write : Statuses]
      /\ refused' \subseteq Saves
      /\ sources' \in [Refs -> Commits \cup {None}]
      /\ \A x \in late' \ late : LateFine(x)'
  BY <1>1, <1>4, <1>5 DEF IInv, TypeOK, RevisionsByCommit, Saves
<1> QED BY <1>1, <1>2, <1>3, <1>6, FailingKeeps

LEMMA RecordLateKeeps ==
  ASSUME IInv, NEW x \in late, RecordLate(x)
  PROVE  IInv'
<1> DEFINE g == x.of
<1>1. /\ late' = late \ {x} /\ row' = [row EXCEPT ![x.of] = x.write]
      /\ misled' = misled \cup {x.of}
      /\ UNCHANGED <<head, access, moves, ref, sources, revisions, intents, sync, token>>
      /\ UNCHANGED <<lateSaves, crossed, overtaken, refused, faults, faulted>>
  BY DEF RecordLate, NoFault, github, story
<1>2. g \in Registrations /\ x.write \in Statuses /\ LateFine(x) /\ Fine(g)
  BY DEF IInv, TypeOK
<1>3. TypeOK'
  BY <1>1, <1>2 DEF IInv, TypeOK, Statuses
<1>4. row'[g] = x.write /\ \A o \in Registrations \ {g} : row'[o] = row[o]
  BY <1>1, <1>2 DEF IInv, TypeOK
<1>5. Registered(g)'
  BY <1>2, <1>4 DEF Registered, Statuses, Over
<1> HIDE DEF g
<1>6. Fine(g)'
  <2>1. Registered(g) /\ g \in faulted /\ NamesItsRevision(g, x.write)
    BY <1>2 DEF LateFine, g
  <2>2. StartsRegistered(g)' /\ NamesItsRevision(g, row[g])'
    BY <1>1, <1>2, <1>4, <1>5, <2>1 DEF Fine, StartsRegistered, NamesItsRevision
  <2>3. FailsWithReason(g)' /\ EndsSettled(g)'
    BY <1>1, <2>1 DEF FailsWithReason, EndsSettled, HasReason, g
  <2>4. ReportsInOrder(g)' /\ TokenLasts(g)' /\ CompletesWithLatest(g)'
    BY <1>1, <1>2 DEF Fine, ReportsInOrder, NamesItsRevision, TokenLasts, CompletesWithLatest,
       Completes, At
  <2> QED BY <2>2, <2>3, <2>4 DEF Fine
<1>7. \A o \in Registrations \ {g} : Noticed(g, o)' /\ Noticed(o, g)'
  <2>1. Cloned(g)' => Cloned(g)
    BY <1>1 DEF Cloned, Completes, At
  <2> QED BY <1>1, <1>2, <2>1, NothingToNotice
<1>8. RevisionsByCommit' /\ late' \ late = {} /\ lateSaves' \ lateSaves = {} /\ HistoryGrows
  BY <1>1 DEF IInv, RevisionsByCommit, HistoryGrows
<1> QED BY <1>1, <1>2, <1>3, <1>4, <1>5, <1>6, <1>7, <1>8, StepKeeps

LEMMA RecordTemplateRegistrationStatusKeeps ==
  ASSUME IInv, NEW g \in Registrations, RecordTemplateRegistrationStatus(g)
  PROVE  IInv'
<1>1. /\ WritesStatus(g) /\ row' = [row EXCEPT ![g] = Intended(g)]
      /\ UNCHANGED <<head, access, moves, ref, sources, revisions, intents, late, token>>
      /\ UNCHANGED <<lateSaves, crossed, overtaken, refused, faults, faulted>>
  BY DEF RecordTemplateRegistrationStatus, NoFault, github, story
<1>2. /\ Running(g) /\ ref[g] \in Refs /\ Intended(g) \in Statuses
      /\ NamesItsRevision(g, Intended(g)) /\ (Intended(g).status = "failed" => HasReason(g))
      /\ ~At(g, "marking_running") => Intended(g).status \in Over
  BY <1>1, IntendedIsFine
<1>3. row'[g] = Intended(g) /\ \A o \in Registrations \ {g} : row'[o] = row[o]
  BY <1>1 DEF IInv, TypeOK
<1>4. /\ sync' \in [Registrations -> Syncs] /\ misled \ {g} \subseteq misled'
      /\ misled' \subseteq Registrations
      /\ \A o \in Registrations \ {g} : sync'[o] = sync[o]
      /\ \/ At(g, "marking_running") /\ At(g, "recording_step")'
         \/ ~At(g, "marking_running") /\ At(g, "ended")'
  <2>1. CASE At(g, "marking_running")
    <3>1. "recording_step" \in Places /\ Step(g, "recording_step", Fresh) /\ misled' = misled
      BY <2>1 DEF Places, RecordTemplateRegistrationStatus, GoOn, Step
    <3> QED BY <1>2, <2>1, <3>1, StepTakes, FreshIsAnAttempt DEF IInv, TypeOK, At
  <2>2. CASE ~At(g, "marking_running")
    BY <2>2, EndTakes DEF RecordTemplateRegistrationStatus, IInv, TypeOK, At, Ended
  <2> QED BY <2>1, <2>2
<1>5. TypeOK'
  BY <1>1, <1>2, <1>4 DEF IInv, TypeOK, Syncs, Underway, Places, Ended, Statuses
<1>6. /\ Registered(g)' /\ RevisionsByCommit' /\ late' \ late = {}
      /\ lateSaves' \ lateSaves = {} /\ HistoryGrows
  BY <1>1, <1>2, <1>3 DEF Registered, Statuses, Over, IInv, RevisionsByCommit, HistoryGrows
<1>7. Fine(g)'
  <2>1. StartsRegistered(g)' /\ NamesItsRevision(g, row[g])'
    BY <1>1, <1>2, <1>3, <1>6 DEF StartsRegistered, NamesItsRevision
  <2>2. CASE At(g, "marking_running") /\ At(g, "recording_step")'
    <3>1. Intended(g).status = "running"
      BY <2>2 DEF Intended, At
    <3> QED BY <1>3, <2>1, <2>2, <3>1 DEF Fine, ReportsInOrder, FailsWithReason, EndsSettled,
       TokenLasts, CompletesWithLatest, Completes, At
  <2>3. CASE ~At(g, "marking_running") /\ At(g, "ended")'
    <3>1. row'[g].status \in Over /\ (row'[g].status = "failed" => HasReason(g)')
      BY <1>1, <1>2, <1>3, <2>3 DEF HasReason
    <3> QED BY <2>1, <2>3, <3>1 DEF Fine, ReportsInOrder, FailsWithReason, EndsSettled,
       TokenLasts, CompletesWithLatest, Completes, At
  <2> QED BY <1>4, <2>2, <2>3
<1>8. \A o \in Registrations \ {g} : Noticed(g, o)' /\ Noticed(o, g)'
  <2>1. ~Cloned(g)'
    BY <1>4 DEF Cloned, Completes, At
  <2> QED BY <1>1, <1>4, <2>1, NothingToNotice
<1> QED BY <1>1, <1>3, <1>4, <1>5, <1>6, <1>7, <1>8, StepKeeps

\* A registration whose row does not say running has no step: a reason it had.
LEMMA RecordTemplateRegistrationStepKeeps ==
  ASSUME IInv, NEW g \in Registrations, RecordTemplateRegistrationStep(g)
  PROVE  IInv'
<1>1. /\ At(g, "recording_step") /\ NoFault
      /\ UNCHANGED <<github, ref, row, intents, token, crossed, overtaken, refused>>
      /\ UNCHANGED <<late, lateSaves, sources, revisions>>
  BY DEF RecordTemplateRegistrationStep, tables, story
<1>2. Running(g) /\ Fine(g)
  BY <1>1 DEF At, Running, IInv
<1>3. RevisionsByCommit' /\ revisions' \subseteq Revisions
      /\ late' \subseteq [of : Registrations, write : Statuses] /\ late' \ late = {}
      /\ refused' \subseteq Saves
      /\ sources' \in [Refs -> Commits \cup {None}]
  BY <1>1 DEF IInv, TypeOK, RevisionsByCommit, Saves
<1>4. CASE row[g].status # "running"
  <2>1. HasReason(g)'
    BY <1>1, <1>2, <1>4 DEF Fine, FailsWithReason, HasReason, NoFault
  <2> QED BY <1>1, <1>2, <1>3, <1>4, <2>1, FailingKeeps DEF RecordTemplateRegistrationStep
<1>5. CASE row[g].status = "running"
  <2>1. "resolving_token" \in Places /\ Step(g, "resolving_token", Fresh) /\ misled' = misled
    BY <1>5 DEF Places, RecordTemplateRegistrationStep, GoOn, Step
  <2>2. /\ sync' \in [Registrations -> Syncs] /\ At(g, "resolving_token")'
        /\ \A o \in Registrations \ {g} : sync'[o] = sync[o]
    BY <1>2, <2>1, StepTakes, FreshIsAnAttempt DEF IInv, At
  <2>3. TypeOK'
    BY <1>1, <2>1, <2>2 DEF IInv, TypeOK, Syncs, Underway, Places, Ended, github, NoFault
  <2>4. Registered(g)'
    BY <1>1, <1>5 DEF Registered
  <2>5. Fine(g)'
    <3>1. Registered(g)
      BY <1>5 DEF Registered
    <3>2. StartsRegistered(g)' /\ NamesItsRevision(g, row[g])'
      BY <1>1, <1>2, <2>4, <3>1 DEF Fine, StartsRegistered, NamesItsRevision
    <3> QED BY <1>1, <1>5, <2>2, <3>2 DEF Fine, ReportsInOrder, FailsWithReason, EndsSettled,
       TokenLasts, CompletesWithLatest, Completes, At
  <2>6. \A o \in Registrations \ {g} : Noticed(g, o)' /\ Noticed(o, g)'
    <3>1. ~Cloned(g)'
      BY <2>2 DEF Cloned, Completes, At
    <3> QED BY <1>1, <2>2, <3>1, NothingToNotice
  <2> QED BY <1>1, <1>3, <2>1, <2>2, <2>3, <2>4, <2>5, <2>6, StepKeeps DEF NoFault, HistoryGrows
<1> QED BY <1>4, <1>5

-----------------------------------------------------------------------------
(* SyncTemplate.                                                           *)

LEMMA ReportTakes ==
  ASSUME TypeOK, NEW g \in Registrations, Running(g), NEW outcome \in Statuses,
         Report(g, outcome)
  PROVE  /\ sync'[g] \in Underway /\ sync'[g].at = "recording_outcome"
         /\ sync'[g].outcome = outcome
         /\ sync' \in [Registrations -> Syncs]
         /\ \A o \in Registrations \ {g} : sync'[o] = sync[o]
<1> DEFINE next == [at |-> "recording_outcome", try |-> Fresh, outcome |-> outcome]
<1>1. sync[g] \in Underway /\ sync \in [Registrations -> Syncs]
  BY UnderWay, SyncTyped
<1>2. sync' = [[[sync EXCEPT ![g].at = "recording_outcome"] EXCEPT ![g].try = Fresh]
                EXCEPT ![g].outcome = outcome]
  BY DEF Report
<1>3. sync'[g] = [[[sync[g] EXCEPT !.at = "recording_outcome"] EXCEPT !.try = Fresh]
                   EXCEPT !.outcome = outcome]
  BY <1>1, <1>2
<1>4. [[sync[g] EXCEPT !.at = "recording_outcome"] EXCEPT !.try = Fresh] =
        [at |-> "recording_outcome", try |-> Fresh, outcome |-> sync[g].outcome]
  BY <1>1, Overwritten, FreshIsAnAttempt DEF Places
<1>5. sync'[g] = next
  BY <1>3, <1>4
<1>6. next \in Underway
  BY FreshIsAnAttempt DEF Underway, Places
<1>7. DOMAIN sync' = Registrations /\ sync' = [o \in Registrations |-> sync'[o]]
      /\ \A o \in Registrations \ {g} : sync'[o] = sync[o]
  BY <1>1, <1>2
<1>8. next.at = "recording_outcome" /\ next.outcome = outcome
  OBVIOUS
<1> HIDE DEF next
<1>9. \A o \in Registrations : sync'[o] \in Syncs
  BY <1>1, <1>5, <1>6, <1>7 DEF Syncs
<1> QED BY <1>5, <1>6, <1>7, <1>8, <1>9

LEMMA RefuseUpsertKeeps ==
  ASSUME IInv, NEW g \in Registrations, RefuseUpsert(g)
  PROVE  IInv'
<1> DEFINE x == [of |-> g, commit |-> sync[g].try.commit]
<1>1. /\ At(g, "saving") /\ ~CanUpsert(ref[g], sync[g].try.commit) /\ Retry(g) /\ NoFault
      /\ UNCHANGED <<github, ref, row, intents, token, crossed, overtaken>>
      /\ UNCHANGED <<late, lateSaves, sources, revisions>> /\ refused' = refused \cup {x}
  BY DEF RefuseUpsert, tables
<1>2. Running(g) /\ x \in Saves
  BY <1>1 DEF At, Running, IInv, Fine, ReportsInOrder, Saves
<1>3. HasReason(g)'
  <2>1. PICK revision \in revisions : revision.id = sync[g].try.commit
    BY <1>1 DEF CanUpsert, Taken, TemplateRevisionID
  <2>2. revision.commit = sync[g].try.commit
    BY <2>1 DEF IInv, RevisionsByCommit
  <2>3. revision.source # ref[g]
    BY <1>1, <2>2 DEF CanUpsert, Known
  <2>4. x \in refused' /\ x.of = g /\ revision.commit = x.commit
    BY <1>1, <2>2
  <2> HIDE DEF x
  <2> QED BY <1>1, <2>3, <2>4 DEF HasReason
<1> HIDE DEF x
<1>4. RevisionsByCommit' /\ revisions' \subseteq Revisions
      /\ late' \subseteq [of : Registrations, write : Statuses] /\ late' \ late = {}
      /\ refused' \subseteq Saves /\ refused \subseteq refused'
      /\ sources' \in [Refs -> Commits \cup {None}]
  BY <1>1, <1>2 DEF IInv, TypeOK, RevisionsByCommit, Saves
<1> QED BY <1>1, <1>2, <1>3, <1>4, FailingKeeps

\* A save that is given up on may still land, for a registration that is there.
LEMMA LoseSaveKeeps ==
  ASSUME IInv, NEW g \in Registrations, LoseSave(g)
  PROVE  IInv'
<1> DEFINE save == [of |-> g, commit |-> sync[g].try.commit]
<1>1. /\ At(g, "saving") /\ Retry(g) /\ Fault(g)
      /\ UNCHANGED <<github, ref, row, intents, token, crossed, overtaken, refused>>
      /\ UNCHANGED <<late, sources, revisions>> /\ lateSaves' = lateSaves \cup {save}
  BY DEF LoseSave, tables, story
<1>2. Running(g) /\ save \in SavesOf(g)
  BY <1>1 DEF At, Running, IInv, Fine, ReportsInOrder, SavesOf
<1> HIDE DEF save
<1>3. HasReason(g)'
  BY <1>1 DEF HasReason, Fault
<1>4. RevisionsByCommit' /\ revisions' \subseteq Revisions
      /\ late' \subseteq [of : Registrations, write : Statuses] /\ late' \ late = {}
      /\ lateSaves' \subseteq lateSaves \cup SavesOf(g)
      /\ refused' \subseteq Saves /\ refused \subseteq refused'
      /\ sources' \in [Refs -> Commits \cup {None}]
  BY <1>1, <1>2 DEF IInv, TypeOK, RevisionsByCommit, Saves
<1> QED BY <1>1, <1>2, <1>3, <1>4, FailingKeeps

\* A sync that goes on, or reports, keeps the invariant when its own part does
\* and the others notice a clone.
LEMMA SyncingKeeps ==
  ASSUME IInv, NEW g \in Registrations, Running(g),
         sync' \in [Registrations -> Syncs],
         \A o \in Registrations \ {g} : sync'[o] = sync[o],
         UNCHANGED <<github, ref, row, intents, late, lateSaves, overtaken, refused, misled>>,
         Fault(g) \/ NoFault, token' \in 0 .. TokenLife,
         sources' \in [Refs -> Commits \cup {None}],
         revisions \subseteq revisions', revisions' \subseteq Revisions, RevisionsByCommit',
         crossed \subseteq crossed', crossed' \subseteq Registrations,
         \A o \in Registrations \ {g} :
           Completes(o) => o \in crossed \/ sources'[ref[o]] = sources[ref[o]],
         At(g, "cloning")' \/ At(g, "saving")' \/ At(g, "recording_outcome")',
         ReportsInOrder(g)', TokenLasts(g)', CompletesWithLatest(g)',
         At(g, "cloning")' /\ sync'[g].try.credential = "unavailable" => g \in faulted',
         \A o \in Registrations \ {g} : Noticed(g, o)' /\ Noticed(o, g)'
  PROVE  IInv'
<1>1. faults' \in 0 .. MaxFaults /\ faulted \subseteq faulted' /\ faulted' \subseteq Registrations
  BY FaultTakes DEF IInv
<1>2. TypeOK' /\ HistoryGrows
  BY <1>1 DEF IInv, TypeOK, Syncs, Underway, Places, Ended, github, HistoryGrows
<1>3. Fine(g) /\ Registered(g)
  BY DEF IInv, Fine, StartsRegistered, Running, NoSync
<1>4. Registered(g)' /\ StartsRegistered(g)' /\ NamesItsRevision(g, row[g])'
  BY <1>3 DEF Registered, Fine, StartsRegistered, NamesItsRevision
<1>5. FailsWithReason(g)' /\ EndsSettled(g)'
  BY <1>1, <1>3 DEF Fine, FailsWithReason, HasReason, EndsSettled, At
<1>6. Fine(g)'
  BY <1>4, <1>5 DEF Fine
<1> QED BY <1>1, <1>2, <1>4, <1>6, StepKeeps

LEMMA ReportInvalidKeeps ==
  ASSUME IInv, NEW g \in Registrations, Running(g), ReportInvalid(g),
         UNCHANGED <<github, ref, row, intents, late, lateSaves, overtaken, refused, misled>>,
         Fault(g) \/ NoFault, UNCHANGED <<token, sources, revisions>>,
         crossed \subseteq crossed', crossed' \subseteq Registrations
  PROVE  IInv'
<1> DEFINE outcome == [status |-> "invalid", revision |-> None]
<1>1. outcome \in Statuses /\ outcome.status = "invalid"
  BY DEF Statuses, Over
<1>2. Report(g, outcome)
  BY DEF ReportInvalid
<1> HIDE DEF outcome
<1>3. /\ sync' \in [Registrations -> Syncs] /\ At(g, "recording_outcome")'
      /\ sync'[g].outcome = outcome
      /\ \A o \in Registrations \ {g} : sync'[o] = sync[o]
  BY <1>1, <1>2, ReportTakes DEF IInv, At
<1>4. ReportsInOrder(g)' /\ TokenLasts(g)' /\ CompletesWithLatest(g)' /\ ~Cloned(g)'
  BY <1>1, <1>3 DEF ReportsInOrder, NamesItsRevision, TokenLasts, CompletesWithLatest, Completes,
     Cloned, At
<1>5. \A o \in Registrations \ {g} : Noticed(g, o)' /\ Noticed(o, g)'
  BY <1>3, <1>4, NothingToNotice
<1>6. RevisionsByCommit' /\ revisions' \subseteq Revisions /\ token' \in 0 .. TokenLife
      /\ sources' \in [Refs -> Commits \cup {None}]
  BY DEF IInv, TypeOK, RevisionsByCommit
<1>7. ~At(g, "cloning")'
  BY <1>3 DEF At
<1> QED BY <1>3, <1>4, <1>5, <1>6, <1>7, SyncingKeeps

LEMMA FailCloneKeeps ==
  ASSUME IInv, NEW g \in Registrations, FailClone(g)
  PROVE  IInv'
<1>1. /\ At(g, "cloning") /\ (Fault(g) \/ NoFault)
      /\ UNCHANGED <<github, ref, row, intents, late, token, sources, revisions, crossed>>
      /\ UNCHANGED <<lateSaves, overtaken, refused>>
  BY DEF FailClone, tables, story
<1>2. Running(g) /\ Fine(g) /\ crossed \subseteq Registrations
  BY <1>1 DEF At, Running, IInv, TypeOK
<1>3. CASE sync[g].try.credential = "unavailable"
  <2>1. g \in faulted'
    BY <1>1, <1>2, <1>3, FaultTakes DEF Fine, FailsWithReason, IInv
  <2>2. Retry(g) /\ HasReason(g)'
    BY <1>3, <2>1 DEF FailClone, HasReason
  <2>3. RevisionsByCommit' /\ revisions' \subseteq Revisions
      /\ late' \subseteq [of : Registrations, write : Statuses] /\ late' \ late = {}
      /\ refused' \subseteq Saves
      /\ sources' \in [Refs -> Commits \cup {None}] /\ sources' = sources
    BY <1>1 DEF IInv, TypeOK, RevisionsByCommit, Saves
  <2> QED BY <1>1, <1>2, <2>2, <2>3, FailingKeeps
<1>4. CASE sync[g].try.credential # "unavailable"
  BY <1>1, <1>2, <1>4, ReportInvalidKeeps DEF FailClone
<1> QED BY <1>3, <1>4

Credentials == {"token", "not_installed", "unavailable", "none"}

Lives == 0 .. TokenLife

\* An attempt that is given its credential, and one that has cloned a commit.
Given(try, credential, left) == [try EXCEPT !.credential = credential, !.left = left]

Holding(try, commit) == [try EXCEPT !.credential = "none", !.left = 0, !.commit = commit]

LEMMA GivenIsAnAttempt ==
  ASSUME NEW try \in Attempt, NEW left \in Lives, NEW credential \in Credentials
  PROVE  /\ Given(try, credential, left) \in Attempt
         /\ Given(try, credential, left).age = try.age
         /\ Given(try, credential, left).credential = credential
         /\ Given(try, credential, left).left = left
<1> DEFINE a == [tries |-> try.tries, age |-> try.age, commit |-> try.commit,
                 credential |-> credential, left |-> try.left]
           b == [tries |-> try.tries, age |-> try.age, commit |-> try.commit,
                 credential |-> credential, left |-> left]
<1>1. [try EXCEPT !.credential = credential] = a
  BY DEF Attempt
<1>2. [a EXCEPT !.left = left] = b
  OBVIOUS
<1>3. b \in Attempt /\ b.age = try.age /\ b.credential = credential /\ b.left = left
  BY DEF Attempt, Credentials, Lives
<1> HIDE DEF a, b
<1>4. [[try EXCEPT !.credential = credential] EXCEPT !.left = left] = b
  BY <1>1, <1>2
<1> QED BY <1>3, <1>4 DEF Given

LEMMA HoldingIsAnAttempt ==
  ASSUME NEW try \in Attempt, NEW commit \in Commits
  PROVE  Holding(try, commit) \in Attempt /\ Holding(try, commit).commit = commit
<1> DEFINE a == Given(try, "none", 0)
           b == [tries |-> a.tries, age |-> a.age, commit |-> commit,
                 credential |-> a.credential, left |-> a.left]
<1>1. a \in Attempt
  BY GivenIsAnAttempt, TemplateSyncAssumption DEF Credentials, Lives
<1> HIDE DEF a
<1>2. [a EXCEPT !.commit = commit] = b /\ b \in Attempt /\ b.commit = commit
  BY <1>1 DEF Attempt
<1>3. Holding(try, commit) = [a EXCEPT !.commit = commit]
  BY DEF Holding, Given, a
<1> QED BY <1>2, <1>3

LEMMA ResolveTokenKeeps ==
  ASSUME IInv, NEW g \in Registrations, NEW answered \in BOOLEAN, ResolveToken(g, answered)
  PROVE  IInv'
<1> DEFINE given == IF Cached(token) THEN [credential |-> "token", left |-> token]
                    ELSE MintToken(answered)
           try == Given(sync[g].try, given.credential, given.left)
<1>1. /\ At(g, "resolving_token") /\ (IF answered \/ Cached(token) THEN NoFault ELSE Fault(g))
      /\ Step(g, "cloning", try) /\ token' = given.left
      /\ UNCHANGED <<github, ref, row, intents, late, misled, sources, revisions, crossed>>
      /\ UNCHANGED <<lateSaves, overtaken, refused>>
  BY DEF ResolveToken, Given, tables, story
<1>2. Running(g) /\ sync[g] \in Underway /\ sync[g].try \in Attempt
  BY <1>1, UnderWay DEF At, Running, IInv, Underway
<1>3. token \in 0 .. TokenLife /\ crossed \subseteq Registrations
  BY DEF IInv, TypeOK
<1>4. /\ given.credential \in {"token", "not_installed", "unavailable"}
      /\ given.left \in 0 .. TokenLife
      /\ given.credential = "token" => given.left > SyncTimeout
      /\ given.credential = "unavailable" => ~answered /\ ~Cached(token)
  <2>1. CASE Cached(token)
    BY <1>3, <2>1, TemplateSyncAssumption DEF Cached
  <2>2. CASE ~Cached(token)
    BY <2>2, TemplateSyncAssumption DEF MintToken
  <2> QED BY <2>1, <2>2
<1> HIDE DEF given
<1>5. try \in Attempt /\ try.age = sync[g].try.age /\ try.age \in Nat
      /\ try.credential = given.credential /\ try.left = given.left
  <2>1. given.credential \in Credentials /\ given.left \in Lives
    BY <1>4 DEF Credentials, Lives
  <2>2. sync[g].try.age \in Nat
    BY <1>2, TemplateSyncAssumption DEF Attempt
  <2>3. /\ try \in Attempt /\ try.age = sync[g].try.age
        /\ try.credential = given.credential /\ try.left = given.left
    BY <1>2, <2>1, GivenIsAnAttempt
  <2> HIDE DEF try
  <2> QED BY <2>2, <2>3
<1> HIDE DEF try
<1>6. /\ sync' \in [Registrations -> Syncs] /\ At(g, "cloning")' /\ sync'[g].try = try
      /\ \A o \in Registrations \ {g} : sync'[o] = sync[o]
  BY <1>1, <1>2, <1>5, StepTakes DEF IInv, At, Places
<1>7. /\ ReportsInOrder(g)' /\ CompletesWithLatest(g)' /\ ~Cloned(g)'
      /\ ~At(g, "saving")' /\ ~At(g, "recording_outcome")'
  BY <1>6 DEF ReportsInOrder, CompletesWithLatest, Completes, Cloned, At
<1>8. TokenLasts(g)'
  BY <1>4, <1>5, <1>6, TemplateSyncAssumption DEF TokenLasts
<1>9. sync'[g].try.credential = "unavailable" => g \in faulted'
  BY <1>1, <1>4, <1>5, <1>6 DEF Fault
<1>10. \A o \in Registrations \ {g} : Noticed(g, o)' /\ Noticed(o, g)'
  BY <1>1, <1>6, <1>7, NothingToNotice
<1>11. RevisionsByCommit' /\ revisions' \subseteq Revisions
       /\ sources' \in [Refs -> Commits \cup {None}]
  BY <1>1 DEF IInv, TypeOK, RevisionsByCommit
<1> QED BY <1>1, <1>2, <1>3, <1>4, <1>6, <1>7, <1>8, <1>9, <1>10, <1>11, SyncingKeeps

LEMMA CloneKeeps ==
  ASSUME IInv, NEW g \in Registrations, Clone(g)
  PROVE  IInv'
<1> DEFINE commit == head[ref[g]]
           try == Holding(sync[g].try, commit)
<1>1. /\ At(g, "cloning") /\ NoFault
      /\ IF HoldsTemplate(commit) THEN Step(g, "saving", try) ELSE ReportInvalid(g)
      /\ crossed' = IF Crossing(g) = {} THEN crossed ELSE crossed \cup Crossing(g) \cup {g}
      /\ UNCHANGED <<github, ref, row, intents, late, token, sources, revisions, misled>>
      /\ UNCHANGED <<lateSaves, overtaken, refused>>
  BY DEF Clone, Holding, tables
<1>2. Running(g) /\ sync[g] \in Underway /\ sync[g].try \in Attempt
  BY <1>1, UnderWay DEF At, Running, IInv, Underway
<1>3. crossed \subseteq crossed' /\ crossed' \subseteq Registrations
      /\ token' \in 0 .. TokenLife
  BY <1>1 DEF Crossing, IInv, TypeOK
<1>4. CASE ~HoldsTemplate(commit)
  BY <1>1, <1>2, <1>3, <1>4, ReportInvalidKeeps
<1>5. CASE HoldsTemplate(commit)
  <2>1. commit \in Commits
    BY <1>5, TemplateSyncAssumption DEF HoldsTemplate
  <2> HIDE DEF commit
  <2>2. try \in Attempt /\ try.commit = commit
    BY <1>2, <2>1, HoldingIsAnAttempt
  <2> HIDE DEF try
  <2>3. /\ sync' \in [Registrations -> Syncs] /\ At(g, "saving")' /\ sync'[g].try = try
        /\ \A o \in Registrations \ {g} : sync'[o] = sync[o]
    BY <1>1, <1>2, <1>5, <2>2, StepTakes DEF IInv, At, Places
  <2>4. ReportsInOrder(g)' /\ TokenLasts(g)' /\ CompletesWithLatest(g)' /\ ~At(g, "cloning")'
    BY <2>1, <2>2, <2>3 DEF ReportsInOrder, TokenLasts, CompletesWithLatest, Completes, At
  <2>5. ASSUME NEW o \in Registrations \ {g} PROVE Noticed(g, o)' /\ Noticed(o, g)'
    <3> SUFFICES ASSUME Cloned(o)', ref'[g] = ref'[o] PROVE g \in crossed' /\ o \in crossed'
      BY DEF Noticed
    <3>1. Running(o)
      BY <2>3 DEF Cloned, Completes, At, Running
    <3>2. o \in Crossing(g)
      BY <1>1, <3>1 DEF Crossing
    <3> QED BY <1>1, <3>2
  <2>6. RevisionsByCommit' /\ revisions' \subseteq Revisions
        /\ sources' \in [Refs -> Commits \cup {None}]
    BY <1>1 DEF IInv, TypeOK, RevisionsByCommit
  <2> QED BY <1>1, <1>2, <1>3, <2>3, <2>4, <2>5, <2>6, SyncingKeeps
<1> QED BY <1>4, <1>5

\* A save leaves the source's revision of the commit there, as the latest, and
\* touches no other source.
LEMMA UpsertTakes ==
  ASSUME IInv, NEW source \in Refs, NEW commit \in Commits, Upsert(source, commit)
  PROVE  /\ \E revision \in revisions' : revision.id = commit /\ revision.source = source
         /\ revisions \subseteq revisions' /\ revisions' \subseteq Revisions
         /\ RevisionsByCommit'
         /\ sources' \in [Refs -> Commits \cup {None}] /\ sources'[source] = commit
         /\ \A r : r # source => sources'[r] = sources[r]
<1> DEFINE new == [id |-> commit, source |-> source, commit |-> commit]
<1>1. /\ revisions' = IF Known(source, commit) # {} THEN revisions ELSE revisions \cup {new}
      /\ sources' = [sources EXCEPT ![source] = commit]
  BY DEF Upsert, LatestAfter, TemplateRevisionID
<1>2. \E revision \in revisions' : revision.id = commit /\ revision.source = source
  <2>1. CASE Known(source, commit) # {}
    <3>1. PICK revision \in revisions : revision.source = source /\ revision.commit = commit
      BY <2>1 DEF Known
    <3> QED BY <1>1, <2>1, <3>1 DEF IInv, RevisionsByCommit
  <2>2. CASE Known(source, commit) = {}
    <3>1. new \in revisions' /\ new.id = commit /\ new.source = source
      BY <1>1, <2>2
    <3> QED BY <3>1
  <2> QED BY <2>1, <2>2
<1>3. revisions \subseteq revisions' /\ revisions' \subseteq Revisions /\ RevisionsByCommit'
  <2>1. new \in Revisions /\ new.id = new.commit
    BY DEF Revisions
  <2> HIDE DEF new
  <2> QED BY <1>1, <2>1 DEF IInv, TypeOK, RevisionsByCommit
<1>4. sources' \in [Refs -> Commits \cup {None}] /\ sources'[source] = commit
      /\ \A r : r # source => sources'[r] = sources[r]
  BY <1>1 DEF IInv, TypeOK
<1> QED BY <1>2, <1>3, <1>4

LEMMA UpsertRevisionKeeps ==
  ASSUME IInv, NEW g \in Registrations, NEW answered \in BOOLEAN, UpsertRevision(g, answered)
  PROVE  IInv'
<1> DEFINE source == ref[g]
           commit == sync[g].try.commit
           outcome == [status |-> "completed", revision |-> commit]
<1>1. /\ At(g, "saving") /\ Upsert(source, commit)
      /\ IF answered THEN Report(g, outcome) /\ UNCHANGED misled /\ NoFault
         ELSE Retry(g) /\ Fault(g)
      /\ UNCHANGED <<github, ref, row, intents, late, lateSaves, token, crossed, overtaken,
                     refused>>
  BY DEF UpsertRevision, TemplateRevisionID, story
<1>2. Running(g) /\ Fine(g)
  BY <1>1 DEF At, Running, IInv
<1>3. source \in Refs /\ commit \in Commits
  BY <1>1, <1>2 DEF Fine, StartsRegistered, ReportsInOrder, Running, NoSync
<1>4. \E revision \in revisions' : revision.id = commit /\ revision.source = ref[g]
  BY <1>1, <1>3, UpsertTakes
<1>5. revisions \subseteq revisions' /\ revisions' \subseteq Revisions /\ RevisionsByCommit'
  BY <1>1, <1>3, UpsertTakes
<1>6. sources' \in [Refs -> Commits \cup {None}] /\ sources'[ref[g]] = commit
      /\ \A r : r # ref[g] => sources'[r] = sources[r]
  BY <1>1, <1>3, UpsertTakes
<1>7. ASSUME NEW o \in Registrations \ {g}, Completes(o)
      PROVE  o \in crossed \/ sources'[ref[o]] = sources[ref[o]]
  <2>1. CASE ref[o] = ref[g]
    BY <1>1, <1>7, <2>1 DEF IInv, Noticed, Cloned
  <2> QED BY <1>6, <2>1
<1>8. ~Completes(g) /\ Cloned(g)
  BY <1>1 DEF Completes, Cloned, At
<1>9. CASE answered
  <2>1. outcome \in Statuses /\ outcome.status = "completed" /\ outcome.revision = commit
    BY <1>3 DEF Statuses, Over
  <2>2. Report(g, outcome) /\ misled' = misled /\ NoFault
    BY <1>1, <1>9
  <2> HIDE DEF outcome
  <2>3. /\ sync' \in [Registrations -> Syncs] /\ At(g, "recording_outcome")'
        /\ sync'[g].outcome = outcome
        /\ \A o \in Registrations \ {g} : sync'[o] = sync[o]
    BY <1>2, <2>1, <2>2, ReportTakes DEF IInv, At
  <2>4. ReportsInOrder(g)'
    BY <1>1, <1>4, <2>1, <2>3 DEF ReportsInOrder, NamesItsRevision, At
  <2>5. CompletesWithLatest(g)' /\ TokenLasts(g)' /\ ~At(g, "cloning")'
    BY <1>1, <1>6, <2>1, <2>3 DEF CompletesWithLatest, TokenLasts, At
  <2>6. \A o \in Registrations \ {g} : Noticed(g, o)' /\ Noticed(o, g)'
    BY <1>1, <1>8, <2>3, NothingToNotice
  <2>7. token' \in 0 .. TokenLife /\ crossed' \subseteq Registrations
    BY <1>1 DEF IInv, TypeOK
  <2> QED BY <1>1, <1>2, <1>5, <1>6, <1>7, <2>2, <2>3, <2>4, <2>5, <2>6, <2>7, SyncingKeeps
<1>10. CASE ~answered
  <2>1. Retry(g) /\ Fault(g) /\ HasReason(g)'
    BY <1>1, <1>10 DEF HasReason, Fault
  <2>2. /\ late' \subseteq [of : Registrations, write : Statuses] /\ late' \ late = {}
        /\ refused' \subseteq Saves
    BY <1>1 DEF IInv, TypeOK, Saves
  <2>3. \A o \in Registrations :
           Completes(o) => sources' = sources
                        \/ (o # g /\ (o \in crossed \/ sources'[ref[o]] = sources[ref[o]]))
    BY <1>7, <1>8
  <2> QED BY <1>1, <1>2, <1>5, <1>6, <2>1, <2>2, <2>3, FailingKeeps
<1> QED BY <1>9, <1>10

\* The syncs of the ref that have saved already are told apart.
LEMMA UpsertLateKeeps ==
  ASSUME IInv, NEW x \in lateSaves, UpsertLate(x)
  PROVE  IInv'
<1>1. /\ UNCHANGED <<head, access, moves, ref, row, intents, sync, late, token, crossed>>
      /\ UNCHANGED <<refused, misled, faults, faulted>> /\ lateSaves' = lateSaves \ {x}
  BY DEF UpsertLate, NoFault, github
<1>2. x.of \in Registrations /\ x.commit \in Commits /\ ref[x.of] \in Refs
  BY DEF IInv, TypeOK, Fine, StartsRegistered
<1>3. /\ revisions \subseteq revisions' /\ revisions' \subseteq Revisions /\ RevisionsByCommit'
      /\ sources' \in [Refs -> Commits \cup {None}]
      /\ overtaken \subseteq overtaken' /\ overtaken' \subseteq Registrations
      /\ \A g \in Registrations :
           Completes(g) => g \in overtaken' \/ sources'[ref[g]] = sources[ref[g]]
  <2>1. CASE CanUpsert(ref[x.of], x.commit)
    BY <1>2, <2>1, UpsertTakes DEF UpsertLate, Completes, IInv, TypeOK
  <2>2. CASE ~CanUpsert(ref[x.of], x.commit)
    BY <2>2 DEF UpsertLate, IInv, TypeOK, RevisionsByCommit
  <2> QED BY <2>1, <2>2
<1>4. HistoryGrows /\ TypeOK'
  BY <1>1, <1>3 DEF HistoryGrows, IInv, TypeOK
<1>5. ASSUME NEW g \in Registrations PROVE Fine(g)'
  <2>1. Fine(g)
    BY DEF IInv
  <2>2. CompletesWithLatest(g)'
    BY <1>1, <1>3, <2>1 DEF Fine, CompletesWithLatest, Completes, At
  <2>3. /\ StartsRegistered(g)' /\ ReportsInOrder(g)' /\ NamesItsRevision(g, row[g])'
        /\ EndsSettled(g)' /\ TokenLasts(g)'
    BY <1>1, <1>3, <2>1 DEF Fine, StartsRegistered, Registered, ReportsInOrder,
       NamesItsRevision, EndsSettled, TokenLasts, At
  <2>4. FailsWithReason(g)'
    BY <1>1, <1>3, <2>1 DEF Fine, FailsWithReason, HasReason, At
  <2> QED BY <2>2, <2>3, <2>4 DEF Fine
<1>6. ASSUME NEW y \in late' PROVE LateFine(y)'
  BY <1>1, <1>4, LateStaysFine DEF IInv, LateFine, Registered
<1>7. ASSUME NEW y \in lateSaves' PROVE Registered(y.of)'
  BY <1>1 DEF IInv, Registered
<1>8. ASSUME NEW g \in Registrations, NEW o \in Registrations, g # o PROVE Noticed(g, o)'
  <2>1. Noticed(g, o) /\ sync' = sync /\ ref' = ref /\ crossed' = crossed
    BY <1>1, <1>8 DEF IInv
  <2> QED BY <2>1 DEF Noticed, Cloned, Completes, At
<1> QED BY <1>3, <1>4, <1>5, <1>6, <1>7, <1>8 DEF IInv

-----------------------------------------------------------------------------
(* GitHub, and time.                                                       *)

\* What goes on at GitHub touches no registration.
LEMMA GitHubKeeps ==
  ASSUME IInv, head' \in [Refs -> Commits], access' \in {"public", "installed", "private"},
         moves' \in 0 .. MaxMoves,
         UNCHANGED <<ref, tables, intents, sync, late, lateSaves, token, faults, faulted, story,
                     misled>>
  PROVE  IInv'
<1>1. TypeOK' /\ RevisionsByCommit'
  BY DEF IInv, TypeOK, RevisionsByCommit, tables, story
<1>2. ASSUME NEW g \in Registrations PROVE Fine(g)'
  BY DEF IInv, Fine, StartsRegistered, Registered, ReportsInOrder, NamesItsRevision,
     FailsWithReason, HasReason, EndsSettled, TokenLasts, CompletesWithLatest, Completes, At,
     tables, story
<1>3. ASSUME NEW x \in late' PROVE LateFine(x)'
  BY DEF IInv, LateFine, Registered, NamesItsRevision, tables
<1>4. ASSUME NEW g \in Registrations, NEW o \in Registrations, g # o PROVE Noticed(g, o)'
  <2>1. Noticed(g, o) /\ sync' = sync /\ ref' = ref /\ crossed' = crossed
    BY <1>4 DEF IInv, story
  <2> QED BY <2>1 DEF Noticed, Cloned, Completes, At
<1>5. ASSUME NEW x \in lateSaves' PROVE Registered(x.of)'
  BY DEF IInv, Registered, tables
<1> QED BY <1>1, <1>2, <1>3, <1>4, <1>5 DEF IInv

LEMMA MoveRefKeeps ==
  ASSUME IInv, NEW r \in Refs, NEW c \in Commits, MoveRef(r, c)
  PROVE  IInv'
<1>1. head' \in [Refs -> Commits] /\ moves' \in 0 .. MaxMoves
  BY TemplateSyncAssumption DEF MoveRef, Move, IInv, TypeOK
<1> QED BY <1>1, GitHubKeeps DEF MoveRef, NoFault, IInv, TypeOK

LEMMA ChangeAccessKeeps ==
  ASSUME IInv, ChangeAccess
  PROVE  IInv'
<1>1. access' \in {"public", "installed", "private"} /\ moves' \in 0 .. MaxMoves
  BY TemplateSyncAssumption DEF ChangeAccess, Move, IInv, TypeOK
<1> QED BY <1>1, GitHubKeeps DEF ChangeAccess, NoFault, IInv, TypeOK

\* Time takes as much from a token as it gives to the attempt.
LEMMA TickTakes ==
  ASSUME IInv, Tick, NEW g \in Registrations
  PROVE  /\ ~Syncing(g) => sync'[g] = sync[g]
         /\ Syncing(g) =>
              /\ sync'[g] \in Underway /\ sync'[g].at = sync[g].at
              /\ sync'[g].outcome = sync[g].outcome
              /\ sync'[g].try.commit = sync[g].try.commit
              /\ sync'[g].try.credential = sync[g].try.credential
              /\ sync'[g].try.age = sync[g].try.age + 1
              /\ sync'[g].try.left = IF sync[g].try.left > 0 THEN sync[g].try.left - 1 ELSE 0
<1>1. CASE ~Syncing(g)
  BY <1>1 DEF Tick
<1>2. CASE Syncing(g)
  <2> DEFINE s == sync[g]
             a == [tries |-> s.try.tries, age |-> s.try.age + 1, commit |-> s.try.commit,
                   credential |-> s.try.credential, left |-> s.try.left]
             left == IF s.try.left > 0 THEN s.try.left - 1 ELSE 0
             b == [tries |-> s.try.tries, age |-> s.try.age + 1, commit |-> s.try.commit,
                   credential |-> s.try.credential, left |-> left]
  <2>1. Running(g)
    BY <1>2 DEF Syncing, Running
  <2>2. s \in Underway /\ s.try \in Attempt /\ s.try.age < SyncTimeout
    BY <1>2, <2>1, UnderWay DEF IInv, Underway, Tick
  <2>3. [s.try EXCEPT !.age = @ + 1] = a
    BY <2>2 DEF Attempt
  <2>4. [a EXCEPT !.left = IF @ > 0 THEN @ - 1 ELSE 0] = b
    OBVIOUS
  <2>5. b \in Attempt
    BY <2>2, TemplateSyncAssumption DEF Attempt
  <2>6. sync'[g] = [s EXCEPT !.try.age = @ + 1, !.try.left = IF @ > 0 THEN @ - 1 ELSE 0]
    BY <1>2 DEF Tick
  <2>7. sync'[g] = [s EXCEPT !.try = b]
    BY <2>2, <2>3, <2>4, <2>6
  <2>8. /\ b.age = s.try.age + 1 /\ b.commit = s.try.commit
        /\ b.credential = s.try.credential /\ b.left = left
    OBVIOUS
  <2> HIDE DEF b
  <2>9. /\ sync'[g] \in Underway /\ sync'[g].at = sync[g].at /\ sync'[g].try = b
        /\ sync'[g].outcome = sync[g].outcome
    BY <2>2, <2>5, <2>7 DEF Underway
  <2> QED BY <1>2, <2>8, <2>9
<1> QED BY <1>1, <1>2

LEMMA TickKeeps ==
  ASSUME IInv, Tick
  PROVE  IInv'
<1>1. /\ UNCHANGED <<head, access, moves, ref, row, sources, revisions, intents, late, crossed>>
      /\ UNCHANGED <<lateSaves, overtaken, refused, misled, faults, faulted>>
      /\ token' = IF token > 0 THEN token - 1 ELSE 0
  BY DEF Tick, NoFault, github, tables, story
<1>2. sync' \in [Registrations -> Syncs]
  <2>1. ASSUME NEW g \in Registrations PROVE sync'[g] \in Syncs
    BY TickTakes, SyncTyped DEF IInv, Syncs
  <2>2. sync' = [g \in Registrations |-> sync'[g]]
    BY DEF Tick
  <2> QED BY <2>1, <2>2
<1>3. TypeOK'
  BY <1>1, <1>2, TemplateSyncAssumption DEF IInv, TypeOK, Syncs, Underway, Places, Ended
<1>4. ASSUME NEW g \in Registrations
      PROVE  Fine(g)' /\ (Cloned(g)' => Cloned(g))
  <2>1. Fine(g)
    BY DEF IInv
  <2>2. CASE ~Syncing(g)
    <3>1. sync'[g] = sync[g]
      BY <2>2, TickTakes
    <3> QED BY <1>1, <2>1, <3>1 DEF Fine, StartsRegistered, Registered, ReportsInOrder,
       NamesItsRevision, FailsWithReason, HasReason, EndsSettled, TokenLasts,
       CompletesWithLatest, Completes, Cloned, At
  <2>3. CASE Syncing(g)
    <3>1. /\ sync'[g].at = sync[g].at /\ sync'[g].at \in {"resolving_token", "cloning", "saving"}
          /\ sync'[g].try.commit = sync[g].try.commit
          /\ sync'[g].try.credential = sync[g].try.credential
          /\ sync'[g].try.age = sync[g].try.age + 1
          /\ sync'[g].try.left = IF sync[g].try.left > 0 THEN sync[g].try.left - 1 ELSE 0
      BY <2>3, TickTakes DEF Syncing
    <3>2. sync[g].try.age \in Nat /\ sync[g].try.left \in Nat
          /\ sync[g].try.age < SyncTimeout
      <4>1. Running(g) /\ sync[g].try.age < SyncTimeout
        BY <2>3 DEF Running, Syncing, Tick
      <4> QED BY <4>1, UnderWay, TemplateSyncAssumption DEF IInv, Underway, Attempt
    <3>3. TokenLasts(g)'
      BY <2>1, <3>1, <3>2, <1>1, TemplateSyncAssumption DEF Fine, TokenLasts, At
    <3>4. StartsRegistered(g)' /\ NamesItsRevision(g, row[g])'
      <4>1. sync[g] # NoSync
        BY <2>3 DEF Syncing, NoSync
      <4> QED BY <1>1, <2>1, <4>1 DEF Fine, StartsRegistered, Registered, NamesItsRevision
    <3>5. FailsWithReason(g)' /\ EndsSettled(g)'
      BY <1>1, <2>1, <3>1 DEF Fine, FailsWithReason, HasReason, EndsSettled, At
    <3>6. ReportsInOrder(g)' /\ CompletesWithLatest(g)' /\ (Cloned(g)' => Cloned(g))
      BY <1>1, <2>1, <3>1 DEF Fine, ReportsInOrder, CompletesWithLatest, Completes, Cloned, At
    <3> QED BY <3>3, <3>4, <3>5, <3>6 DEF Fine
  <2> QED BY <2>2, <2>3
<1>5. ASSUME NEW x \in late' PROVE LateFine(x)'
  BY <1>1 DEF IInv, LateFine, Registered, NamesItsRevision
<1>6. ASSUME NEW g \in Registrations, NEW o \in Registrations, g # o PROVE Noticed(g, o)'
  <2>1. Noticed(g, o) /\ (Cloned(g)' => Cloned(g)) /\ (Cloned(o)' => Cloned(o))
    BY <1>4, <1>6 DEF IInv
  <2> QED BY <1>1, <2>1 DEF Noticed
<1>7. RevisionsByCommit' /\ \A x \in lateSaves' : Registered(x.of)'
  BY <1>1 DEF IInv, RevisionsByCommit, Registered
<1> QED BY <1>3, <1>4, <1>5, <1>6, <1>7 DEF IInv

LEMMA StutterKeeps ==
  ASSUME IInv, UNCHANGED vars
  PROVE  IInv'
  BY GitHubKeeps DEF vars, github, IInv, TypeOK

LEMMA NextKeeps ==
  ASSUME IInv, [Next]_vars
  PROVE  IInv'
<1>1. ASSUME NEW g \in Registrations, NEW r \in Refs, RegisterTemplate(g, r) PROVE IInv'
  BY <1>1, RegisterTemplateKeeps
<1>2. ASSUME NEW g \in Registrations, NEW again \in BOOLEAN, StartTemplateSync(g, again)
      PROVE  IInv'
  BY <1>2, StartTemplateSyncKeeps
<1>3. ASSUME NEW g \in Registrations,
             \/ RecordTemplateRegistrationStatus(g) \/ RecordTemplateRegistrationStep(g)
             \/ Clone(g) \/ FailClone(g) \/ RefuseUpsert(g)
             \/ AttemptFails(g) \/ LoseStatus(g) \/ LoseSave(g)
      PROVE  IInv'
  BY <1>3, RecordTemplateRegistrationStatusKeeps, RecordTemplateRegistrationStepKeeps,
     CloneKeeps, FailCloneKeeps, RefuseUpsertKeeps, AttemptFailsKeeps, LoseStatusKeeps,
     LoseSaveKeeps
<1>4. ASSUME NEW g \in Registrations, NEW answered \in BOOLEAN,
             ResolveToken(g, answered) \/ UpsertRevision(g, answered)
      PROVE  IInv'
  BY <1>4, ResolveTokenKeeps, UpsertRevisionKeeps
<1>5. ASSUME NEW x \in late, RecordLate(x) PROVE IInv'
  BY <1>5, RecordLateKeeps
<1>6. ASSUME NEW x \in lateSaves, UpsertLate(x) PROVE IInv'
  BY <1>6, UpsertLateKeeps
<1>7. ASSUME NEW r \in Refs, NEW c \in Commits, MoveRef(r, c) PROVE IInv'
  BY <1>7, MoveRefKeeps
<1>8. CASE ChangeAccess \/ Tick
  BY <1>8, ChangeAccessKeeps, TickKeeps
<1>9. CASE UNCHANGED vars
  BY <1>9, StutterKeeps
<1> QED BY <1>1, <1>2, <1>3, <1>4, <1>5, <1>6, <1>7, <1>8, <1>9 DEF Next

-----------------------------------------------------------------------------
(* What the system promises.                                               *)

\* The inductive invariant: what syncs, rows, late statuses and revisions tell of
\* each other.
THEOREM Invariant == Spec => []IInv
<1>1. Init => IInv
  BY InitEstablishes
<1>2. IInv /\ [Next]_vars => IInv'
  BY NextKeeps
<1> QED BY <1>1, <1>2, PTL DEF Spec

\* Registrations, their rows and syncs, and the cached token stay what they are.
THEOREM TypeCorrect == Spec => []TypeOK
<1>1. IInv => TypeOK
  BY DEF IInv
<1> QED BY <1>1, Invariant, PTL

\* UpsertTemplateRevisionWithVariables commits the revision before the sync
\* reports it: whatever the attempts, the answers lost and the statuses written
\* late, a completed registration names a revision of its own source template.
THEOREM CompletedRegistrationsHaveTheirRevision == Spec => []CompletedHasItsRevision
<1>1. IInv => CompletedHasItsRevision
  BY DEF IInv, Fine, NamesItsRevision, CompletedHasItsRevision
<1> QED BY <1>1, Invariant, PTL

\* A workflow that ends has recorded how, or could not: its last write says
\* completed, invalid or failed unless it is among the misled.
THEOREM EndedSyncsAreSettled == Spec => []EndedSyncIsSettled
<1>1. IInv => EndedSyncIsSettled
  BY DEF IInv, Fine, EndsSettled, EndedSyncIsSettled
<1> QED BY <1>1, Invariant, PTL

\* UpsertTemplateRevisionWithVariables reuses a source's own revision: saving
\* again, after a lost answer or for another registration of the ref, fails no
\* registration.  What does is a fault, or a save that was refused because a
\* revision of another ref has the very commit.
THEOREM RegistrationsFailOnlyForAReason == Spec => []FailsOnlyForAReason
<1>1. IInv => FailsOnlyForAReason
  BY DEF IInv, Fine, FailsWithReason, HasReason, FailsOnlyForAReason
<1> QED BY <1>1, Invariant, PTL

\* expiryMargin covers the activity's StartToCloseTimeout: a token that Token
\* hands out outlives the attempt, whatever the lengths of the three.
THEOREM TokensOutliveTheirClone == Spec => []TokenOutlivesTheClone
<1>1. ASSUME IInv PROVE TokenOutlivesTheClone
  <2> SUFFICES ASSUME NEW g \in Registrations, At(g, "cloning"),
                      sync[g].try.credential = "token"
               PROVE  sync[g].try.left > 0
    BY DEF TokenOutlivesTheClone
  <2>1. sync[g].try \in Attempt
    BY <1>1, UnderWay DEF At, Running, IInv, Underway
  <2>2. sync[g].try.left + sync[g].try.age > SyncTimeout
    BY <1>1 DEF IInv, Fine, TokenLasts
  <2> QED BY <2>1, <2>2, TemplateSyncAssumption DEF Attempt
<1> QED BY <1>1, Invariant, PTL

\* Only a sync of the same ref that it overlaps with, or a save of the ref that
\* had been given up on, comes between a sync's save and its record: without
\* them it completes with the latest revision.
THEOREM CompletionsTellTheLatest == Spec => CompletionTellsTheLatest
<1> DEFINE Tells(g) ==
      At(g, "recording_outcome") /\ row'[g].status = "completed" /\ row[g].status # "completed"
      /\ sync'[g].at = "ended" /\ g \notin crossed \cup overtaken
      => row'[g].revision = sources[ref[g]]
<1>1. ASSUME IInv, Next, NEW g \in Registrations PROVE Tells(g)
  <2> SUFFICES ASSUME At(g, "recording_outcome"), row'[g].status = "completed",
                      row[g].status # "completed", sync'[g].at = "ended",
                      g \notin crossed \cup overtaken
               PROVE  row'[g].revision = sources[ref[g]]
    OBVIOUS
  <2>1. row' # row /\ sync' # sync
    BY DEF At
  <2>2. PICK o \in Registrations : RecordTemplateRegistrationStatus(o)
    BY <1>1, <2>1 DEF Next, RegisterTemplate, StartTemplateSync, RecordTemplateRegistrationStep,
       Clone, FailClone, RefuseUpsert, ResolveToken, UpsertRevision, AttemptFails, LoseStatus,
       LoseSave, RecordLate, UpsertLate, MoveRef, ChangeAccess, Tick, tables
  <2>3. o = g /\ row'[g] = Intended(g)
    BY <1>1, <2>1, <2>2 DEF RecordTemplateRegistrationStatus, IInv, TypeOK
  <2>4. row'[g] = sync[g].outcome
    BY <2>3 DEF Intended, At
  <2> QED BY <1>1, <2>4 DEF IInv, Fine, CompletesWithLatest, Completes
<1>2. IInv /\ [Next]_vars => [\A g \in Registrations : Tells(g)]_vars
  BY <1>1
<1> QED BY <1>2, Invariant, PTL DEF Spec, CompletionTellsTheLatest
=============================================================================
