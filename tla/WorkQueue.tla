----------------------------- MODULE WorkQueue -----------------------------
(***************************************************************************)
(* The work queue: the work_queue table (src/internal/postgres), and the   *)
(* controllers that claim its rows and deliver them (src/internal/queue).  *)
(* A key is a (kind, resource key) pair and an intent is a payload, known  *)
(* by the order it was enqueued in.                                        *)
(*                                                                         *)
(* Time passes in ticks.  A row does not hold instants but how many ticks  *)
(* are left until it is available, until its lease runs out, until it may  *)
(* be pruned; a claimed item how many its handler still has.               *)
(*                                                                         *)
(* A handler keeps to its deadline, as Handler says it must.  Outside it   *)
(* an item loses no time except in the stages of Slow.  A controller may   *)
(* crash, and settling a row may fail.  The handler's effect on its target *)
(* happens before it returns.                                              *)
(***************************************************************************)
EXTENDS Naturals, FiniteSets

CONSTANTS
  Keys, Controllers,
  Mode,        \* Spec.Mode of each key's kind: "reconcile" or "job"
  FollowUp,    \* the keys each key's handler asks to have enqueued
  Lease, BatchSize, Workers, BaseBackoff, MaxBackoff, Retention,
  Slow,        \* the stages outside its handler an item may lose time in
  MaxIntents,  \* bound on enqueues
  MaxAttempts, \* bound on the count of a row's attempts; backoff is flat there
  MaxFaults    \* bound on crashes and failed settlements

Stages == {"waiting", "delivering", "reached", "delivered", "superseded", "failed"}

ASSUME OptionsAssumption ==
  /\ {Lease, BatchSize, Workers, BaseBackoff, MaxBackoff, MaxAttempts} \subseteq Nat \ {0}
  /\ {Retention, MaxIntents, MaxFaults} \subseteq Nat
  /\ Slow \subseteq Stages \ {"delivering", "reached"}
ASSUME KeysAssumption ==
  Mode \in [Keys -> {"reconcile", "job"}] /\ FollowUp \in [Keys -> SUBSET Keys]

VARIABLES
  rows,       \* the table, by row ID
  hand,       \* the items each controller has claimed and not finished with
  enqueued,   \* how many intents have been enqueued
  faults,     \* how many crashes and failed settlements there were
  wanted,     \* per key, the newest intent the table accepted; 0 for none
  delivered,  \* intents whose handler reported success
  followed,   \* intents whose follow-ups were all enqueued after that
  external    \* per key, the intent its target system last took; 0 for none

vars == <<rows, hand, enqueued, faults, wanted, delivered, followed, external>>

Ids     == 1..MaxIntents
Intents == 1..MaxIntents
NoRow   == [state |-> "none"]

Pending == {id \in Ids : rows[id].state = "pending"}
Ready   == {id \in Pending : rows[id].available = 0 /\ rows[id].lease = 0}

-----------------------------------------------------------------------------
(* Options.                                                                *)

Rounds == (BatchSize + Workers - 1) \div Workers

\* Mutant: the deadline of one item, however many rounds a batch takes.
ItemTimeout_OneRound == Lease - Lease \div 6

\* safeItemTimeout.
ItemTimeout == (Lease - Lease \div 6) \div Rounds

\* Controller.backoff, without its jitter.
Backoff(attempts) ==
  LET delay == BaseBackoff * 2 ^ (attempts - 1)
  IN IF delay \in 1..MaxBackoff THEN delay ELSE MaxBackoff

-----------------------------------------------------------------------------
(* The statements.                                                         *)

NewRow(k, n) == [state |-> "pending", key |-> k, intent |-> n, revision |-> 1,
                 available |-> 0, lease |-> 0, attempts |-> 0, keep |-> 0]

\* Mutant: a reconcile key's new payload does not move the revision.
Enqueued_NoFence(table, k, n) ==
  LET pending == {id \in Ids : table[id].state = "pending" /\ table[id].key = k}
  IN IF pending = {} THEN [table EXCEPT ![n] = NewRow(k, n)]
     ELSE IF Mode[k] = "job" THEN table
     ELSE [id \in Ids |-> IF id \in pending THEN [table[id] EXCEPT !.intent = n]
                                            ELSE table[id]]

\* enqueueReconcileSQL and enqueueJobSQL: an insert, or what its conflict
\* clause makes of the key's pending row.
Enqueued(table, k, n) ==
  LET pending == {id \in Ids : table[id].state = "pending" /\ table[id].key = k}
  IN IF pending = {} THEN [table EXCEPT ![n] = NewRow(k, n)]
     ELSE IF Mode[k] = "job" THEN table
     ELSE [id \in Ids |->
             IF id \in pending
             THEN [table[id] EXCEPT !.intent = n, !.revision = @ + 1]
             ELSE table[id]]

\* enqueueRequests for one request: on its own, or in the transaction of
\* whoever causes it.
Insert(k) ==
  /\ enqueued < MaxIntents
  /\ enqueued' = enqueued + 1
  /\ rows' = Enqueued(rows, k, enqueued + 1)
  /\ wanted' = IF rows' = rows THEN wanted ELSE [wanted EXCEPT ![k] = enqueued + 1]

Attempted(id) == IF rows[id].attempts < MaxAttempts THEN rows[id].attempts + 1
                                                   ELSE MaxAttempts

\* An item is a copy of its row, as it was claimed, and where the controller
\* has got to with it.
ItemOf(id) == [id |-> id, key |-> rows[id].key, intent |-> rows[id].intent,
               revision |-> rows[id].revision, attempts |-> Attempted(id),
               stage |-> "waiting", left |-> 0, todo |-> FollowUp[rows[id].key]]

\* Claim.  Ready rows are leased oldest first; that order is left open here.
Leased(batch) ==
  rows' = [id \in Ids |->
             IF id \in batch
             THEN [rows[id] EXCEPT !.lease = Lease, !.attempts = Attempted(id)]
             ELSE rows[id]]

\* Complete's condition: the row is pending at the revision that was claimed.
Current(i) == rows[i.id].state = "pending" /\ rows[i.id].revision = i.revision

\* Complete, when its condition holds.
Processed(i) ==
  rows' = [rows EXCEPT ![i.id].state = "processed", ![i.id].lease = 0,
                       ![i.id].keep = Retention]

\* Reschedule: any pending row of that ID, whoever holds its lease.
Reschedule(id, delay) ==
  rows' = IF rows[id].state = "pending"
          THEN [rows EXCEPT ![id].lease = 0, ![id].available = delay]
          ELSE rows

\* Mutant: any row, processed or not.
Prune_AnyRow ==
  /\ rows' = [id \in Ids |-> IF rows[id] # NoRow /\ rows[id].keep = 0
                             THEN NoRow ELSE rows[id]]
  /\ UNCHANGED <<hand, enqueued, faults, wanted, delivered, followed, external>>

\* Prune: what was processed longer ago than the retention.
Prune ==
  /\ rows' = [id \in Ids |-> IF rows[id].state = "processed" /\ rows[id].keep = 0
                             THEN NoRow ELSE rows[id]]
  /\ UNCHANGED <<hand, enqueued, faults, wanted, delivered, followed, external>>

-----------------------------------------------------------------------------
(* The controllers.                                                        *)

Put(c, i, j) == hand' = [hand EXCEPT ![c] = (@ \ {i}) \cup {j}]
Drop(c, i)   == hand' = [hand EXCEPT ![c] = @ \ {i}]

InHandler(i) == i.stage \in {"delivering", "reached"}
Busy(c)      == {i \in hand[c] : i.stage # "waiting"}

\* A caller enqueues an intent.
Enqueue(k) ==
  /\ Insert(k)
  /\ UNCHANGED <<hand, faults, delivered, followed, external>>

\* DispatchOnce claims a batch once it is done with the last one.
Claim(c, batch) ==
  /\ hand[c] = {}
  /\ Leased(batch)
  /\ hand' = [hand EXCEPT ![c] = {ItemOf(id) : id \in batch}]
  /\ UNCHANGED <<enqueued, faults, wanted, delivered, followed, external>>

\* Rows another claim has locked are skipped, so a batch may be short.
Batches == {batch \in SUBSET Ready : Cardinality(batch) \in 1..BatchSize}

\* process: a worker takes the next item and calls its handler.
Start(c, i) ==
  /\ i.stage = "waiting" /\ Cardinality(Busy(c)) < Workers
  /\ Put(c, i, [i EXCEPT !.stage = "delivering", !.left = ItemTimeout])
  /\ UNCHANGED <<rows, enqueued, faults, wanted, delivered, followed, external>>

\* ... or finds no handler registered for its kind.
NoHandler(c, i) ==
  /\ i.stage = "waiting" /\ Cardinality(Busy(c)) < Workers
  /\ Put(c, i, [i EXCEPT !.stage = "failed"])
  /\ UNCHANGED <<rows, enqueued, faults, wanted, delivered, followed, external>>

\* The target system takes the intent.
Reach(c, i) ==
  /\ i.stage = "delivering"
  /\ external' = [external EXCEPT ![i.key] = i.intent]
  /\ Put(c, i, [i EXCEPT !.stage = "reached"])
  /\ UNCHANGED <<rows, enqueued, faults, wanted, delivered, followed>>

\* The handler returns.
Succeed(c, i) ==
  /\ i.stage = "reached"
  /\ delivered' = delivered \cup {i.intent}
  /\ followed' = IF i.todo = {} THEN followed \cup {i.intent} ELSE followed
  /\ Put(c, i, [i EXCEPT !.stage = "delivered", !.left = 0])
  /\ UNCHANGED <<rows, enqueued, faults, wanted, external>>

\* It returns an error, panics, or runs out of time, before or after the
\* target took the intent.
Fail(c, i) ==
  /\ InHandler(i)
  /\ Put(c, i, [i EXCEPT !.stage = "failed", !.left = 0])
  /\ UNCHANGED <<rows, enqueued, faults, wanted, delivered, followed, external>>

\* Its follow-ups are enqueued one statement at a time ...
Chain(c, i) ==
  /\ i.stage = "delivered"
  /\ \E k \in i.todo :
       /\ Insert(k)
       /\ Put(c, i, [i EXCEPT !.todo = @ \ {k}])
       /\ followed' = IF i.todo = {k} THEN followed \cup {i.intent} ELSE followed
  /\ UNCHANGED <<faults, delivered, external>>

\* ... any of which may fail.
ChainFails(c, i) ==
  /\ i.stage = "delivered" /\ i.todo # {}
  /\ Put(c, i, [i EXCEPT !.stage = "failed"])
  /\ UNCHANGED <<rows, enqueued, faults, wanted, delivered, followed, external>>

\* Complete, before a newer intent came ...
Complete(c, i) ==
  /\ i.stage = "delivered" /\ i.todo = {} /\ Current(i)
  /\ Processed(i) /\ Drop(c, i)
  /\ UNCHANGED <<enqueued, faults, wanted, delivered, followed, external>>

\* ... or after.
Superseded(c, i) ==
  /\ i.stage = "delivered" /\ i.todo = {} /\ ~Current(i)
  /\ Put(c, i, [i EXCEPT !.stage = "superseded"])
  /\ UNCHANGED <<rows, enqueued, faults, wanted, delivered, followed, external>>

\* A failed or superseded item's row goes back to be claimed.
GiveBack(c, i) ==
  /\ \/ i.stage = "failed" /\ Reschedule(i.id, Backoff(i.attempts))
     \/ i.stage = "superseded" /\ Reschedule(i.id, 0)
  /\ Drop(c, i)
  /\ UNCHANGED <<enqueued, faults, wanted, delivered, followed, external>>

Fault == faults < MaxFaults /\ faults' = faults + 1

\* A settling statement fails: the controller logs it and lets go of the row,
\* which waits for its lease to run out.
SettleFails(c, i) ==
  /\ Fault
  /\ i.stage \in {"failed", "superseded"} \/ (i.stage = "delivered" /\ i.todo = {})
  /\ Drop(c, i)
  /\ UNCHANGED <<rows, enqueued, wanted, delivered, followed, external>>

\* The controller's process dies, and the next one starts with nothing.
Crash(c) ==
  /\ Fault
  /\ hand[c] # {} /\ hand' = [hand EXCEPT ![c] = {}]
  /\ UNCHANGED <<rows, enqueued, wanted, delivered, followed, external>>

\* What has to be done before time may pass.
Urgent(c, i) ==
  \/ InHandler(i) /\ i.left = 0
  \/ /\ ~InHandler(i) /\ i.stage \notin Slow
     /\ i.stage = "waiting" => Cardinality(Busy(c)) < Workers

Less(n) == IF n = 0 THEN 0 ELSE n - 1

\* Mutant: nobody looks at when a lease runs out.
Tick_LeaseKept ==
  /\ \A c \in Controllers : \A i \in hand[c] : ~Urgent(c, i)
  /\ rows' = [id \in Ids |->
                IF rows[id] = NoRow THEN NoRow
                ELSE [rows[id] EXCEPT !.available = Less(@), !.keep = Less(@)]]
  /\ hand' = [c \in Controllers |-> {[i EXCEPT !.left = Less(@)] : i \in hand[c]}]
  /\ UNCHANGED <<enqueued, faults, wanted, delivered, followed, external>>

Tick ==
  /\ \A c \in Controllers : \A i \in hand[c] : ~Urgent(c, i)
  /\ rows' = [id \in Ids |->
                IF rows[id] = NoRow THEN NoRow
                ELSE [rows[id] EXCEPT !.available = Less(@), !.lease = Less(@),
                                      !.keep = Less(@)]]
  /\ hand' = [c \in Controllers |-> {[i EXCEPT !.left = Less(@)] : i \in hand[c]}]
  /\ UNCHANGED <<enqueued, faults, wanted, delivered, followed, external>>

-----------------------------------------------------------------------------
Init ==
  /\ rows = [id \in Ids |-> NoRow]
  /\ hand = [c \in Controllers |-> {}]
  /\ enqueued = 0
  /\ faults = 0
  /\ wanted = [k \in Keys |-> 0]
  /\ delivered = {}
  /\ followed = {}
  /\ external = [k \in Keys |-> 0]

\* A controller gets on with an item.
Advance(c, i) ==
  \/ Start(c, i) \/ NoHandler(c, i) \/ Reach(c, i) \/ Succeed(c, i) \/ Fail(c, i)
  \/ Chain(c, i) \/ ChainFails(c, i) \/ Complete(c, i) \/ Superseded(c, i)
  \/ GiveBack(c, i)

Next ==
  \/ \E k \in Keys : Enqueue(k)
  \/ \E c \in Controllers :
       \/ \E batch \in Batches : Claim(c, batch)
       \/ \E i \in hand[c] : Advance(c, i) \/ SettleFails(c, i)
       \/ Crash(c)
  \/ Prune
  \/ Tick

Spec == Init /\ [][Next]_vars

\* Steps for the rows of key k.
ClaimKey(k) ==
  \E c \in Controllers, batch \in Batches :
    Claim(c, batch) /\ \E id \in batch : rows[id].key = k
OfKey(A(_, _), k) == \E c \in Controllers : \E i \in hand[c] : i.key = k /\ A(c, i)

\* Time passes and controllers keep going; rows are claimed oldest first, so a
\* ready row is not passed over for ever; and a handler that is registered and
\* tried again and again succeeds in the end.
FairSpec ==
  /\ Spec
  /\ WF_vars(Tick)
  /\ \A c \in Controllers : WF_vars(\E i \in hand[c] : Advance(c, i))
  /\ \A k \in Keys : /\ SF_vars(ClaimKey(k))
                     /\ SF_vars(OfKey(Start, k))
                     /\ SF_vars(OfKey(Reach, k))
                     /\ SF_vars(OfKey(Succeed, k))
                     /\ SF_vars(OfKey(Chain, k))

-----------------------------------------------------------------------------
(* Properties.                                                             *)

Row == {NoRow} \cup
       [state : {"pending", "processed"}, key : Keys, intent : Intents,
        revision : Intents, available : 0..MaxBackoff, lease : 0..Lease,
        attempts : 0..MaxAttempts, keep : 0..Retention]

Item == [id : Ids, key : Keys, intent : Intents, revision : Intents,
         attempts : 1..MaxAttempts,
         stage : Stages,
         left : 0..Lease, todo : SUBSET Keys]

TypeOK ==
  /\ rows \in [Ids -> Row]
  /\ hand \in [Controllers -> SUBSET Item]
  /\ enqueued \in 0..MaxIntents /\ faults \in 0..MaxFaults
  /\ wanted \in [Keys -> 0..MaxIntents] /\ external \in [Keys -> 0..MaxIntents]
  /\ delivered \subseteq Intents /\ followed \subseteq Intents

\* A row is marked processed only for the intent it holds: that very one was
\* delivered, and its follow-ups were enqueued, however many workers had the
\* row and whatever newer intent coalesced onto it meanwhile.
ProcessedWasDelivered ==
  \A id \in Ids : rows[id].state = "processed" =>
    rows[id].intent \in delivered \cap followed

\* The Options invariant (ItemTimeout x rounds < Lease): no two handlers work
\* for one key at the same time.
OneDeliveryPerKey ==
  \A c, d \in Controllers : \A i \in hand[c], j \in hand[d] :
    InHandler(i) /\ InHandler(j) /\ i.key = j.key => c = d /\ i = j

\* A reconcile key at rest has its newest intent in the target system, not an
\* older one that arrived late.
NewestWins ==
  \A k \in Keys : Mode[k] = "reconcile" =>
    (\E id \in Pending : rows[id].key = k) \/ external[k] = wanted[k]

\* No intent is lost: see Outbox.
Promise == INSTANCE Outbox WITH
  owed <- {<<rows[id].key, rows[id].intent>> : id \in Pending}
KeepsItsPromise == Promise!Spec

\* Every row is delivered in the end, through crashes, lost settlements,
\* expired leases and any number of failed attempts.
EveryRowIsProcessed ==
  \A id \in Ids : rows[id].state = "pending" ~> rows[id].state # "pending"
=============================================================================
