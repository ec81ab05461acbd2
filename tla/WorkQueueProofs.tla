-------------------------- MODULE WorkQueueProofs --------------------------
(***************************************************************************)
(* What the work queue guarantees for any keys, controllers, options and   *)
(* bounds: its fence and its promise however slow the controllers are, and *)
(* its deadlines when they lose time only in their handlers.               *)
(***************************************************************************)
EXTENDS WorkQueue, FiniteSetTheorems, TLAPS

-----------------------------------------------------------------------------
(* The inductive invariant.                                                *)

Exists(id) == rows[id].state # "none"

\* IDs and intents are given out in order, and a row is enqueued onto once
\* for each of its revisions.
RowsAreEnqueued ==
  \A id \in Ids : Exists(id) =>
    id <= enqueued /\ rows[id].intent <= enqueued /\ rows[id].revision <= enqueued

\* The unique index over pending rows.
OnePendingRow ==
  \A a, b \in Pending : rows[a].key = rows[b].key => a = b

\* The fence: an item's revision is never ahead of its row's, and while they
\* are equal so are their intents.
Fenced(i) ==
  /\ i.id <= enqueued
  /\ Exists(i.id) =>
       /\ i.revision <= rows[i.id].revision
       /\ i.revision = rows[i.id].revision => i.intent = rows[i.id].intent

\* What an item that left its handler well has behind it.
Settled(i) ==
  i.stage = "delivered" =>
    i.intent \in delivered /\ (i.todo = {} => i.intent \in followed)

ItemsFenced == \A c \in Controllers : \A i \in hand[c] : Fenced(i) /\ Settled(i)

IInv ==
  /\ TypeOK
  /\ RowsAreEnqueued
  /\ OnePendingRow
  /\ ItemsFenced
  /\ ProcessedWasDelivered

-----------------------------------------------------------------------------
(* Options.                                                                *)

LEMMA BackoffBound == \A n : Backoff(n) \in 0..MaxBackoff
  BY OptionsAssumption DEF Backoff

LEMMA ItemTimeoutBound == ItemTimeout \in 0..Lease
<1>1. Rounds \in Nat \ {0}
  BY OptionsAssumption DEF Rounds
<1>2. Lease - Lease \div 6 \in 0..Lease
  BY OptionsAssumption
<1>3. ASSUME NEW a \in Nat, NEW b \in Nat \ {0} PROVE a \div b \in 0..a
  OBVIOUS
<1> QED
  BY <1>1, <1>2, <1>3, OptionsAssumption DEF ItemTimeout

LEMMA Bounds ==
  /\ MaxIntents \in Nat /\ MaxFaults \in Nat /\ Retention \in Nat
  /\ Lease \in Nat \ {0} /\ MaxBackoff \in Nat \ {0} /\ MaxAttempts \in Nat \ {0}
  /\ 0 \in 0..MaxBackoff /\ 0 \in 0..Retention /\ 0 \in 0..Lease /\ Lease \in 0..Lease
  /\ Retention \in 0..Retention
  BY OptionsAssumption

-----------------------------------------------------------------------------
(* The statements, row by row.                                             *)

\* What no statement but an enqueue, a completion and a prune changes.
RowKept(id) ==
  /\ rows'[id].state = rows[id].state
  /\ Exists(id) => /\ rows'[id].key = rows[id].key
                   /\ rows'[id].intent = rows[id].intent
                   /\ rows'[id].revision = rows[id].revision

RowsKept == \A id \in Ids : RowKept(id)

\* A row that exists.
Live == [state : {"pending", "processed"}, key : Keys, intent : Intents,
         revision : Intents, available : 0..MaxBackoff, lease : 0..Lease,
         attempts : 0..MaxAttempts, keep : 0..Retention]

LEMMA LiveRow == \A row \in Row : row.state # "none" => row \in Live
  BY DEF Row, NoRow, Live

LEMMA RowLive == \A row \in Live : row \in Row /\ row.state \in {"pending", "processed"}
  BY DEF Row, NoRow, Live

LEMMA LiveExists ==
  ASSUME TypeOK, NEW id \in Ids, Exists(id)
  PROVE  rows[id] \in Live
  BY LiveRow DEF TypeOK, Exists

\* What each statement makes of a row.
LEMMA LeaseRow ==
  ASSUME NEW row \in Live, NEW l \in 0..Lease, NEW n \in 0..MaxAttempts
  PROVE  [row EXCEPT !.lease = l, !.attempts = n] \in Live
  BY DEF Live

LEMMA RescheduleRow ==
  ASSUME NEW row \in Live, NEW l \in 0..Lease, NEW a \in 0..MaxBackoff
  PROVE  [row EXCEPT !.lease = l, !.available = a] \in Live
  BY DEF Live

LEMMA ProcessRow ==
  ASSUME NEW row \in Live, NEW l \in 0..Lease, NEW n \in 0..Retention
  PROVE  [row EXCEPT !.state = "processed", !.lease = l, !.keep = n] \in Live
  BY DEF Live

LEMMA CoalesceRow ==
  ASSUME NEW row \in Live, NEW n \in Intents, row.revision + 1 \in Intents
  PROVE  [row EXCEPT !.intent = n, !.revision = @ + 1] \in Live
  BY DEF Live

LEMMA LeasedKeeps ==
  ASSUME TypeOK, NEW batch \in SUBSET Pending, Leased(batch)
  PROVE  rows' \in [Ids -> Row] /\ RowsKept
<1>1. ASSUME NEW id \in batch
      PROVE  rows'[id] \in Row /\ RowKept(id)
  <2>1. rows'[id] = [rows[id] EXCEPT !.lease = Lease, !.attempts = Attempted(id)]
    BY <1>1 DEF Leased, Pending
  <2>2. rows[id] \in Live
    BY <1>1, LiveExists DEF Pending, Exists
  <2>3. Attempted(id) \in 0..MaxAttempts
    BY <2>2, Bounds DEF Attempted, Live
  <2>4. rows'[id] \in Live
    BY <2>1, <2>2, <2>3, LeaseRow, Bounds
  <2>5. RowKept(id)
    BY <2>1, <2>2 DEF Live, RowKept
  <2> QED
    BY <2>4, <2>5, RowLive
<1>2. \A id \in Ids \ batch : rows'[id] \in Row /\ RowKept(id)
  BY DEF Leased, TypeOK, RowKept
<1> QED
  BY <1>1, <1>2 DEF RowsKept, Leased, Pending

LEMMA RescheduleKeeps ==
  ASSUME TypeOK, NEW id \in Ids, NEW delay \in 0..MaxBackoff, Reschedule(id, delay)
  PROVE  rows' \in [Ids -> Row] /\ RowsKept
<1>1. CASE rows[id].state = "pending"
  <2>1. rows' = [rows EXCEPT ![id] = [rows[id] EXCEPT !.lease = 0, !.available = delay]]
    BY <1>1 DEF Reschedule, TypeOK
  <2>2. rows[id] \in Live
    BY <1>1, LiveExists DEF Exists
  <2>3. [rows[id] EXCEPT !.lease = 0, !.available = delay] \in Live
    BY <2>2, RescheduleRow, Bounds
  <2>4. rows'[id] = [rows[id] EXCEPT !.lease = 0, !.available = delay]
    BY <2>1 DEF TypeOK
  <2>5. RowKept(id)
    BY <2>2, <2>4 DEF Live, RowKept
  <2> QED
    BY <2>1, <2>3, <2>5, RowLive DEF TypeOK, RowsKept, RowKept
<1>2. CASE rows[id].state # "pending"
  BY <1>2 DEF Reschedule, TypeOK, RowsKept, RowKept
<1> QED
  BY <1>1, <1>2

\* Time passes over a row without changing what it holds.
LEMMA AgingKeeps ==
  ASSUME TypeOK, Tick
  PROVE  rows' \in [Ids -> Row] /\ RowsKept
<1>1. ASSUME NEW id \in Ids
      PROVE  rows'[id] \in Row /\ RowKept(id)
  <2>1. CASE rows[id] = NoRow
    BY <2>1 DEF Tick, TypeOK, RowKept, Exists, Row, NoRow
  <2>2. CASE rows[id] # NoRow
    <3>1. rows'[id] = [rows[id] EXCEPT !.available = Less(rows[id].available),
                                       !.lease = Less(rows[id].lease),
                                       !.keep = Less(rows[id].keep)]
      BY <2>2 DEF Tick
    <3>2. rows[id] \in Live
      BY <2>2 DEF TypeOK, Row, Live
    <3>3. /\ Less(rows[id].available) \in 0..MaxBackoff
          /\ Less(rows[id].lease) \in 0..Lease
          /\ Less(rows[id].keep) \in 0..Retention
      BY <3>2, Bounds DEF Live, Less
    <3>4. rows'[id] \in Live
      BY <3>1, <3>2, <3>3 DEF Live
    <3>5. RowKept(id)
      BY <3>1, <3>2 DEF Live, RowKept
    <3> QED
      BY <3>4, <3>5, RowLive
  <2> QED
    BY <2>1, <2>2
<1> QED
  BY <1>1 DEF Tick, RowsKept
-----------------------------------------------------------------------------
(* The invariant's part on rows.                                           *)

RowsFine ==
  /\ rows \in [Ids -> Row]
  /\ RowsAreEnqueued
  /\ OnePendingRow
  /\ ProcessedWasDelivered

\* Nothing that was counted or recorded is taken back.
Grows ==
  /\ enqueued' \in Nat /\ enqueued <= enqueued'
  /\ delivered \subseteq delivered' /\ followed \subseteq followed'

\* What a step keeps of the rows there are, for the sake of the items that
\* were claimed from them.
FenceKept ==
  \A id \in Ids : id <= enqueued /\ Exists(id)' =>
    /\ Exists(id)
    /\ rows[id].revision <= rows'[id].revision
    /\ rows[id].revision = rows'[id].revision => rows[id].intent = rows'[id].intent

LEMMA KeptIsFine ==
  ASSUME IInv, rows' \in [Ids -> Row], RowsKept, Grows
  PROVE  RowsFine' /\ FenceKept
<1>1. \A id \in Ids : /\ rows'[id].state = rows[id].state
                      /\ Exists(id)' <=> Exists(id)
  BY DEF RowsKept, RowKept, Exists
<1>2. \A id \in Ids : Exists(id) => rows[id] \in Live
  BY LiveExists DEF IInv
<1>3. FenceKept
  BY <1>1, <1>2 DEF RowsKept, RowKept, FenceKept, Live, Intents
<1>4. RowsAreEnqueued'
  <2>1. SUFFICES ASSUME NEW id \in Ids, Exists(id)
                 PROVE  /\ id <= enqueued' /\ rows'[id].intent <= enqueued'
                        /\ rows'[id].revision <= enqueued'
    BY <1>1 DEF RowsAreEnqueued
  <2>2. /\ id <= enqueued /\ rows[id].intent <= enqueued
        /\ rows[id].revision <= enqueued
    BY <2>1 DEF IInv, RowsAreEnqueued
  <2>3. rows'[id].intent = rows[id].intent /\ rows'[id].revision = rows[id].revision
    BY <2>1 DEF RowsKept, RowKept
  <2>4. rows[id].intent \in Nat /\ rows[id].revision \in Nat /\ enqueued \in Nat /\ id \in Nat
    BY <1>2, <2>1, Bounds DEF Live, Intents, Ids, IInv, TypeOK
  <2> QED
    BY <2>2, <2>3, <2>4 DEF Grows
<1>5. OnePendingRow'
  <2>1. Pending' = Pending
    BY <1>1 DEF Pending
  <2>2. \A id \in Pending : rows'[id].key = rows[id].key
    BY DEF Pending, Exists, RowsKept, RowKept
  <2> QED
    BY <2>1, <2>2 DEF OnePendingRow, IInv
<1>6. ProcessedWasDelivered'
  BY <1>1 DEF ProcessedWasDelivered, RowsKept, RowKept, Exists, IInv, Grows
<1> QED
  BY <1>3, <1>4, <1>5, <1>6 DEF RowsFine

\* The three things an enqueue can do: add a row, nothing (the job is pending
\* already), and move the pending row's revision.
Added(k, n) ==
  /\ \A id \in Pending : rows[id].key # k
  /\ n \in Ids /\ ~Exists(n)
  /\ rows' = [rows EXCEPT ![n] = NewRow(k, n)]

Coalesced(k, n) ==
  /\ \E id \in Pending : rows[id].key = k
  /\ \A id \in Ids :
       rows'[id] = IF id \in Pending /\ rows[id].key = k
                   THEN [rows[id] EXCEPT !.intent = n, !.revision = @ + 1]
                   ELSE rows[id]

LEMMA InsertCases ==
  ASSUME IInv, NEW k \in Keys, Insert(k)
  PROVE  /\ enqueued' = enqueued + 1 /\ enqueued + 1 \in 1..MaxIntents
         /\ \/ Added(k, enqueued + 1)
            \/ rows' = rows
            \/ /\ Coalesced(k, enqueued + 1)
               /\ rows' = [id \in Ids |-> rows'[id]]
<1> DEFINE n == enqueued + 1
           pending == {id \in Ids : rows[id].state = "pending" /\ rows[id].key = k}
<1>1. enqueued \in Nat /\ n \in 1..MaxIntents /\ enqueued' = n
  BY Bounds DEF IInv, TypeOK, Insert
<1>2. rows' = Enqueued(rows, k, n)
  BY DEF Insert
<1>3. CASE pending = {}
  <2>1. rows' = [rows EXCEPT ![n] = NewRow(k, n)]
    BY <1>2, <1>3 DEF Enqueued
  <2>2. \A id \in Pending : rows[id].key # k
    BY <1>3 DEF Pending
  <2>3. ~Exists(n)
    BY <1>1 DEF IInv, RowsAreEnqueued, Ids
  <2> QED
    BY <1>1, <2>1, <2>2, <2>3 DEF Added, Ids
<1>4. CASE pending # {} /\ Mode[k] = "job"
  BY <1>1, <1>2, <1>4 DEF Enqueued
<1>5. CASE pending # {} /\ Mode[k] # "job"
  <2>1. rows' = [id \in Ids |->
                   IF id \in pending
                   THEN [rows[id] EXCEPT !.intent = n, !.revision = @ + 1]
                   ELSE rows[id]]
    BY <1>2, <1>5 DEF Enqueued
  <2>2. \A id \in Ids : id \in pending <=> id \in Pending /\ rows[id].key = k
    BY DEF Pending
  <2>3. \E id \in Pending : rows[id].key = k
    BY <1>5, <2>2
  <2> HIDE DEF pending, n
  <2>4. Coalesced(k, n) /\ rows' = [id \in Ids |-> rows'[id]]
    BY <2>1, <2>2, <2>3 DEF Coalesced
  <2> QED
    BY <1>1, <2>4 DEF n
<1> QED
  BY <1>3, <1>4, <1>5

LEMMA CoalescedRows ==
  ASSUME IInv, NEW k \in Keys, NEW n \in Intents, n = enqueued + 1,
         Coalesced(k, n), NEW id \in Pending, rows[id].key = k
  PROVE  /\ rows'[id] \in Live /\ rows'[id].state = "pending" /\ rows'[id].key = k
         /\ rows'[id].intent = n /\ rows'[id].revision = rows[id].revision + 1
         /\ rows[id].revision \in Nat /\ rows[id].revision + 1 <= n
<1>1. rows'[id] = [rows[id] EXCEPT !.intent = n, !.revision = @ + 1]
  BY DEF Coalesced, Pending
<1>2. rows[id] \in Live
  BY LiveExists DEF IInv, Pending, Exists
<1>3. rows[id].revision \in Nat \ {0} /\ rows[id].revision <= enqueued /\ enqueued \in Nat
  BY <1>2, Bounds DEF IInv, RowsAreEnqueued, Pending, Exists, TypeOK, Live, Intents
<1>4. rows[id].revision + 1 \in Intents
  BY <1>3, Bounds DEF Intents
<1>5. rows'[id] \in Live
  BY <1>1, <1>2, <1>4, CoalesceRow
<1>6. rows'[id].state = "pending" /\ rows'[id].key = k /\ rows'[id].intent = n
      /\ rows'[id].revision = rows[id].revision + 1
  BY <1>1, <1>2 DEF Live, Pending
<1> QED
  BY <1>3, <1>5, <1>6

LEMMA NewRowLive ==
  ASSUME NEW k \in Keys, NEW n \in Intents
  PROVE  NewRow(k, n) \in Live
<1>1. 1 \in Intents /\ 0 \in 0..MaxAttempts
  BY Bounds DEF Intents
<1> QED
  BY <1>1, Bounds DEF NewRow, Live

LEMMA AddedIsFine ==
  ASSUME IInv, NEW k \in Keys, NEW n \in Intents, n = enqueued + 1, Added(k, n), Grows,
         enqueued' = n
  PROVE  RowsFine' /\ FenceKept
<1>1. rows \in [Ids -> Row] /\ n \in Ids /\ enqueued \in Nat /\ n \in Nat
  BY Bounds DEF Added, IInv, TypeOK, Ids, Intents
<1>2. rows'[n] = NewRow(k, n) /\ \A id \in Ids \ {n} : rows'[id] = rows[id]
  BY <1>1 DEF Added
<1>3. NewRow(k, n) \in Live
  BY NewRowLive
<1>4. /\ rows'[n].state = "pending" /\ rows'[n].key = k
      /\ rows'[n].intent = n /\ rows'[n].revision = 1
  BY <1>2 DEF NewRow
<1>5. rows' \in [Ids -> Row]
  BY <1>1, <1>3, RowLive DEF Added
<1>6. FenceKept
  <2>1. SUFFICES ASSUME NEW id \in Ids, id <= enqueued, Exists(id)'
                 PROVE  /\ Exists(id)
                        /\ rows[id].revision <= rows'[id].revision
                        /\ rows[id].revision = rows'[id].revision =>
                             rows[id].intent = rows'[id].intent
    BY DEF FenceKept
  <2>2. rows'[id] = rows[id]
    BY <1>1, <1>2, <2>1
  <2>3. Exists(id)
    BY <2>1, <2>2 DEF Exists
  <2>4. rows[id].revision \in Nat
    BY <2>3, LiveExists DEF IInv, Live, Intents
  <2> QED
    BY <2>2, <2>3, <2>4
<1>7. RowsAreEnqueued'
  <2>1. SUFFICES ASSUME NEW id \in Ids, Exists(id)'
                 PROVE  /\ id <= n /\ rows'[id].intent <= n
                        /\ rows'[id].revision <= n
    BY DEF RowsAreEnqueued
  <2>2. CASE id = n
    BY <1>1, <1>4, <2>2
  <2>3. CASE id # n
    <3>1. rows'[id] = rows[id] /\ Exists(id)
      BY <1>2, <2>1, <2>3 DEF Exists
    <3>2. id <= enqueued /\ rows[id].intent <= enqueued /\ rows[id].revision <= enqueued
      BY <3>1 DEF IInv, RowsAreEnqueued
    <3>3. rows[id].intent \in Nat /\ rows[id].revision \in Nat /\ id \in Nat
      BY <3>1, LiveExists DEF IInv, Live, Intents, Ids
    <3> QED
      BY <1>1, <3>1, <3>2, <3>3
  <2> QED
    BY <2>2, <2>3
<1>8. OnePendingRow'
  <2>1. \A id \in Pending' : id = n \/ (id \in Pending /\ rows'[id].key = rows[id].key)
    BY <1>2 DEF Pending
  <2>2. \A id \in Pending : rows[id].key # k
    BY DEF Added
  <2> QED
    BY <1>4, <2>1, <2>2 DEF OnePendingRow, IInv
<1>9. ProcessedWasDelivered'
  BY <1>2, <1>4 DEF ProcessedWasDelivered, IInv, Grows
<1> QED
  BY <1>5, <1>6, <1>7, <1>8, <1>9 DEF RowsFine

LEMMA CoalescedIsFine ==
  ASSUME IInv, NEW k \in Keys, NEW n \in Intents, n = enqueued + 1, Coalesced(k, n), Grows,
         enqueued' = n, rows' = [id \in Ids |-> rows'[id]]
  PROVE  RowsFine' /\ FenceKept
<1> DEFINE Moved(id) == id \in Pending /\ rows[id].key = k
<1>1. enqueued \in Nat /\ n \in Nat
  BY Bounds DEF IInv, TypeOK, Intents
<1>2. \A id \in Ids : ~Moved(id) => rows'[id] = rows[id]
  BY DEF Coalesced
<1>3. \A id \in Ids : Moved(id) =>
        /\ rows'[id] \in Live /\ rows'[id].state = "pending" /\ rows'[id].key = k
        /\ rows'[id].intent = n /\ rows'[id].revision = rows[id].revision + 1
        /\ rows[id].revision \in Nat /\ rows[id].revision + 1 <= n
  BY CoalescedRows
<1>4. \A id \in Ids : Moved(id) => Exists(id)
  BY DEF Pending, Exists
<1>5. \A id \in Ids : Exists(id) =>
        /\ id \in Nat /\ rows[id].intent \in Nat /\ rows[id].revision \in Nat
        /\ id <= enqueued /\ rows[id].intent <= enqueued /\ rows[id].revision <= enqueued
  BY LiveExists DEF IInv, Live, Intents, Ids, RowsAreEnqueued
<1>6. \A id \in Ids : Moved(id) => rows[id].state = "pending" /\ rows[id].key = k
  BY DEF Pending
<1>7. \A id \in Ids : rows'[id] \in Row
  BY <1>2, <1>3, RowLive DEF IInv, TypeOK
<1>8. Pending' = Pending
  BY <1>2, <1>3, <1>6 DEF Pending
<1>9. \A id \in Pending : rows'[id].key = rows[id].key
  BY <1>2, <1>3, <1>6 DEF Pending
<1> HIDE DEF Moved
<1>10. rows' \in [Ids -> Row]
  BY <1>7
<1>11. FenceKept
  <2>1. SUFFICES ASSUME NEW id \in Ids, Exists(id)'
                 PROVE  /\ Exists(id)
                        /\ rows[id].revision <= rows'[id].revision
                        /\ rows[id].revision = rows'[id].revision =>
                             rows[id].intent = rows'[id].intent
    BY DEF FenceKept
  <2>2. CASE Moved(id)
    BY <1>3, <1>4, <2>2
  <2>3. CASE ~Moved(id)
    <3>1. rows'[id] = rows[id] /\ Exists(id)
      BY <1>2, <2>1, <2>3 DEF Exists
    <3> QED
      BY <1>5, <3>1
  <2> QED
    BY <2>2, <2>3
<1>12. RowsAreEnqueued'
  <2>1. SUFFICES ASSUME NEW id \in Ids, Exists(id)'
                 PROVE  id <= n /\ rows'[id].intent <= n /\ rows'[id].revision <= n
    BY DEF RowsAreEnqueued
  <2>2. CASE Moved(id)
    BY <1>1, <1>3, <1>4, <1>5, <2>2
  <2>3. CASE ~Moved(id)
    <3>1. rows'[id] = rows[id] /\ Exists(id)
      BY <1>2, <2>1, <2>3 DEF Exists
    <3> QED
      BY <1>1, <1>5, <3>1
  <2> QED
    BY <2>2, <2>3
<1>13. OnePendingRow'
  BY <1>8, <1>9 DEF OnePendingRow, IInv
<1>14. ProcessedWasDelivered'
  BY <1>2, <1>3 DEF ProcessedWasDelivered, IInv, Grows
<1> QED
  BY <1>10, <1>11, <1>12, <1>13, <1>14 DEF RowsFine

LEMMA InsertIsFine ==
  ASSUME IInv, NEW k \in Keys, Insert(k), Grows
  PROVE  RowsFine' /\ FenceKept
<1>1. enqueued' = enqueued + 1 /\ enqueued + 1 \in Intents
  BY InsertCases DEF Intents
<1>2. CASE Added(k, enqueued + 1)
  BY <1>1, <1>2, AddedIsFine
<1>3. CASE rows' = rows
  <2>1. rows' \in [Ids -> Row] /\ RowsKept
    BY <1>3 DEF IInv, TypeOK, RowsKept, RowKept
  <2> QED
    BY <2>1, KeptIsFine
<1>4. CASE Coalesced(k, enqueued + 1) /\ rows' = [id \in Ids |-> rows'[id]]
  BY <1>1, <1>4, CoalescedIsFine
<1> QED
  BY <1>2, <1>3, <1>4, InsertCases

\* A row that is completed at the revision its item was claimed at holds what
\* that item delivered.
LEMMA ProcessedIsFine ==
  ASSUME IInv, NEW c \in Controllers, NEW i \in hand[c],
         i.stage = "delivered", i.todo = {}, Current(i), Processed(i),
         Grows, enqueued' = enqueued
  PROVE  RowsFine' /\ FenceKept
<1>1. i \in Item /\ i.id \in Ids
  BY DEF IInv, TypeOK, Item
<1>2. Fenced(i) /\ Settled(i)
  BY DEF IInv, ItemsFenced
<1>3. rows[i.id].state = "pending" /\ rows[i.id].revision = i.revision /\ Exists(i.id)
  BY DEF Current, Exists
<1>4. rows[i.id] \in Live
  BY <1>1, <1>3, LiveExists DEF IInv
<1>5. rows[i.id].intent \in delivered \cap followed
  BY <1>2, <1>3 DEF Fenced, Settled
<1> DEFINE new == [rows[i.id] EXCEPT !.state = "processed", !.lease = 0, !.keep = Retention]
<1>6. rows' = [rows EXCEPT ![i.id] = new]
  BY <1>1 DEF Processed, IInv, TypeOK
<1>7. new \in Live
  BY <1>4, ProcessRow, Bounds
<1>8. /\ new.state = "processed" /\ new.key = rows[i.id].key
      /\ new.intent = rows[i.id].intent /\ new.revision = rows[i.id].revision
  BY <1>4 DEF Live
<1> HIDE DEF new
<1>9. rows'[i.id] = new /\ \A id \in Ids \ {i.id} : rows'[id] = rows[id]
  BY <1>1, <1>6 DEF IInv, TypeOK
<1>10. rows' \in [Ids -> Row]
  BY <1>1, <1>6, <1>7, RowLive DEF IInv, TypeOK
<1>11. \A id \in Ids : /\ Exists(id)' <=> Exists(id)
                       /\ Exists(id) => /\ rows'[id].intent = rows[id].intent
                                        /\ rows'[id].revision = rows[id].revision
                                        /\ rows'[id].key = rows[id].key
  BY <1>1, <1>3, <1>8, <1>9 DEF Exists
<1>12. \A id \in Ids : Exists(id) => rows[id].revision \in Nat
  BY LiveExists DEF IInv, Live, Intents
<1>13. FenceKept
  BY <1>11, <1>12 DEF FenceKept
<1>14. RowsAreEnqueued'
  BY <1>11 DEF RowsAreEnqueued, IInv
<1>15. OnePendingRow'
  BY <1>8, <1>9, <1>11 DEF OnePendingRow, IInv, Pending, Exists
<1>16. ProcessedWasDelivered'
  BY <1>5, <1>8, <1>9 DEF ProcessedWasDelivered, IInv, Grows
<1> QED
  BY <1>10, <1>13, <1>14, <1>15, <1>16 DEF RowsFine

LEMMA PruneIsFine ==
  ASSUME IInv, Prune
  PROVE  RowsFine' /\ FenceKept
<1>1. \A id \in Ids : \/ rows'[id] = rows[id]
                      \/ rows'[id] = NoRow /\ rows[id].state = "processed"
  BY DEF Prune
<1>2. NoRow \in Row /\ NoRow.state = "none"
  BY DEF Row, NoRow
<1>3. rows' \in [Ids -> Row]
  BY <1>1, <1>2 DEF Prune, IInv, TypeOK
<1>4. \A id \in Ids : Exists(id)' => Exists(id) /\ rows'[id] = rows[id]
  BY <1>1, <1>2 DEF Exists
<1>5. \A id \in Ids : Exists(id) => rows[id].revision \in Nat
  BY LiveExists DEF IInv, Live, Intents
<1>6. FenceKept
  BY <1>4, <1>5 DEF FenceKept
<1>7. RowsAreEnqueued'
  BY <1>4 DEF RowsAreEnqueued, IInv, Prune
<1>8. OnePendingRow'
  BY <1>4 DEF OnePendingRow, IInv, Pending, Exists
<1>9. ProcessedWasDelivered'
  BY <1>4 DEF ProcessedWasDelivered, IInv, Prune, Exists
<1> QED
  BY <1>3, <1>6, <1>7, <1>8, <1>9 DEF RowsFine

-----------------------------------------------------------------------------
(* The invariant's part on items.                                          *)

HandFine == hand \in [Controllers -> SUBSET Item] /\ ItemsFenced

\* An item is the same claim of the same row.
SameClaim(i, j) == j.id = i.id /\ j.revision = i.revision /\ j.intent = i.intent

LEMMA ItemFacts ==
  ASSUME TypeOK, NEW c \in Controllers, NEW i \in hand[c]
  PROVE  /\ i \in Item /\ i.id \in Ids /\ i.key \in Keys /\ i.intent \in Intents
         /\ i.revision \in Nat /\ i.left \in 0..Lease /\ i.todo \subseteq Keys
  BY DEF TypeOK, Item, Intents

LEMMA FencedStays ==
  ASSUME IInv, FenceKept, Grows, RowsFine', NEW c \in Controllers, NEW i \in hand[c],
         NEW j \in Item, SameClaim(i, j)
  PROVE  Fenced(j)'
<1>1. Fenced(i) /\ i.id \in Ids /\ i.revision \in Nat
  BY ItemFacts DEF IInv, ItemsFenced
<1>2. i.id <= enqueued /\ enqueued \in Nat /\ enqueued' \in Nat /\ enqueued <= enqueued'
  BY <1>1, Bounds DEF Fenced, Grows, IInv, TypeOK
<1>3. j.id <= enqueued'
  BY <1>1, <1>2 DEF SameClaim, Ids
<1>4. ASSUME Exists(j.id)'
      PROVE  /\ j.revision <= rows'[j.id].revision
             /\ j.revision = rows'[j.id].revision => j.intent = rows'[j.id].intent
  <2>1. /\ Exists(i.id)
        /\ rows[i.id].revision <= rows'[i.id].revision
        /\ rows[i.id].revision = rows'[i.id].revision => rows[i.id].intent = rows'[i.id].intent
    BY <1>1, <1>2, <1>4 DEF FenceKept, SameClaim
  <2>2. /\ i.revision <= rows[i.id].revision
        /\ i.revision = rows[i.id].revision => i.intent = rows[i.id].intent
    BY <1>1, <2>1 DEF Fenced
  <2>3. rows[i.id].revision \in Nat
    BY <1>1, <2>1, LiveExists DEF IInv, Live, Intents
  <2>4. rows'[i.id] \in Live
    BY <1>1, <1>4, LiveRow DEF RowsFine, Exists, SameClaim
  <2>5. rows'[i.id].revision \in Nat
    BY <2>4 DEF Live, Intents
  <2> QED
    BY <1>1, <2>1, <2>2, <2>3, <2>5 DEF SameClaim
<1> QED
  BY <1>3, <1>4 DEF Fenced

LEMMA SettledStays ==
  ASSUME NEW i, Settled(i), Grows
  PROVE  Settled(i)'
  BY DEF Settled, Grows

\* Items are dropped, or nothing happens to them.
LEMMA FewerItemsAreFine ==
  ASSUME IInv, FenceKept, Grows, RowsFine', hand' \in [Controllers -> SUBSET Item],
         \A c \in Controllers : hand'[c] \subseteq hand[c]
  PROVE  HandFine'
<1>1. SUFFICES ASSUME NEW c \in Controllers, NEW i \in hand'[c]
               PROVE  Fenced(i)' /\ Settled(i)'
  BY DEF HandFine, ItemsFenced
<1>2. i \in hand[c] /\ i \in Item
  BY ItemFacts DEF IInv
<1>3. Fenced(i)'
  BY <1>2, FencedStays DEF SameClaim
<1>4. Settled(i)'
  BY <1>2, SettledStays DEF IInv, ItemsFenced
<1> QED
  BY <1>3, <1>4

\* An item moves on.
LEMMA PutIsFine ==
  ASSUME IInv, FenceKept, Grows, RowsFine', NEW c \in Controllers, NEW i \in hand[c],
         NEW j \in Item, SameClaim(i, j), Settled(j)', Put(c, i, j)
  PROVE  HandFine'
<1>1. hand \in [Controllers -> SUBSET Item]
  BY DEF IInv, TypeOK
<1>2. hand' = [hand EXCEPT ![c] = (hand[c] \ {i}) \cup {j}]
  BY DEF Put
<1>3. hand' \in [Controllers -> SUBSET Item]
  BY <1>1, <1>2
<1>4. \A d \in Controllers : \A x \in hand'[d] : x \in hand[d] \/ (d = c /\ x = j)
  BY <1>1, <1>2
<1>5. ASSUME NEW d \in Controllers, NEW x \in hand'[d]
      PROVE  Fenced(x)' /\ Settled(x)'
  <2>1. CASE x \in hand[d]
    <3>1. x \in Item
      BY <2>1, ItemFacts DEF IInv
    <3>2. Fenced(x)'
      BY <2>1, <3>1, FencedStays DEF SameClaim
    <3>3. Settled(x)'
      BY <2>1, SettledStays DEF IInv, ItemsFenced
    <3> QED
      BY <3>2, <3>3
  <2>2. CASE x = j
    BY <2>2, FencedStays
  <2> QED
    BY <1>4, <1>5, <2>1, <2>2
<1> QED
  BY <1>3, <1>5 DEF HandFine, ItemsFenced

LEMMA DropIsFine ==
  ASSUME IInv, FenceKept, Grows, RowsFine', NEW c \in Controllers, NEW i \in hand[c],
         Drop(c, i)
  PROVE  HandFine'
<1>1. hand \in [Controllers -> SUBSET Item]
  BY DEF IInv, TypeOK
<1>2. hand' \in [Controllers -> SUBSET Item] /\ \A d \in Controllers : hand'[d] \subseteq hand[d]
  BY <1>1 DEF Drop
<1> QED
  BY <1>2, FewerItemsAreFine

LEMMA SameHandIsFine ==
  ASSUME IInv, FenceKept, Grows, RowsFine', hand' = hand
  PROVE  HandFine'
<1>1. hand \in [Controllers -> SUBSET Item]
  BY DEF IInv, TypeOK
<1> QED
  BY <1>1, FewerItemsAreFine

\* What becomes of an item at each stage.
LEMMA ItemUpdate ==
  ASSUME NEW i \in Item
  PROVE  /\ \A s \in Stages, l \in 0..Lease : [i EXCEPT !.stage = s, !.left = l] \in Item
         /\ \A s \in Stages : [i EXCEPT !.stage = s] \in Item
         /\ \A l \in 0..Lease : [i EXCEPT !.left = l] \in Item
         /\ \A k \in Keys : [i EXCEPT !.todo = @ \ {k}] \in Item
<1>1. \A s \in Stages, l \in 0..Lease : [i EXCEPT !.stage = s, !.left = l] \in Item
  BY DEF Item
<1>2. \A s \in Stages : [i EXCEPT !.stage = s] \in Item
  BY DEF Item
<1>3. \A l \in 0..Lease : [i EXCEPT !.left = l] \in Item
  BY DEF Item
<1>4. \A k \in Keys : [i EXCEPT !.todo = @ \ {k}] \in Item
  BY DEF Item
<1> QED
  BY <1>1, <1>2, <1>3, <1>4

-----------------------------------------------------------------------------
(* Every step keeps the invariant.                                         *)

CountsFine ==
  /\ enqueued \in 0..MaxIntents /\ faults \in 0..MaxFaults
  /\ wanted \in [Keys -> 0..MaxIntents] /\ external \in [Keys -> 0..MaxIntents]
  /\ delivered \subseteq Intents /\ followed \subseteq Intents

LEMMA FaultIsFine ==
  ASSUME CountsFine, Fault
  PROVE  faults' \in 0..MaxFaults
  BY Bounds DEF CountsFine, Fault

LEMMA StillGrows ==
  ASSUME IInv, enqueued' = enqueued, delivered \subseteq delivered', followed \subseteq followed'
  PROVE  Grows
  BY Bounds DEF IInv, TypeOK, Grows

LEMMA SameRowsAreFine ==
  ASSUME IInv, rows' = rows, Grows
  PROVE  RowsFine' /\ FenceKept
<1>1. rows' \in [Ids -> Row] /\ RowsKept
  BY DEF IInv, TypeOK, RowsKept, RowKept
<1> QED
  BY <1>1, KeptIsFine

LEMMA InsertCounts ==
  ASSUME IInv, NEW k \in Keys, Insert(k)
  PROVE  /\ enqueued' \in 0..MaxIntents /\ enqueued' \in Nat /\ enqueued <= enqueued'
         /\ wanted' \in [Keys -> 0..MaxIntents]
<1>1. enqueued' = enqueued + 1 /\ enqueued + 1 \in 1..MaxIntents /\ enqueued \in Nat
  BY InsertCases, Bounds DEF IInv, TypeOK
<1>2. wanted \in [Keys -> 0..MaxIntents]
  BY DEF IInv, TypeOK
<1>3. wanted' = IF rows' = rows THEN wanted ELSE [wanted EXCEPT ![k] = enqueued + 1]
  BY DEF Insert
<1>4. enqueued + 1 \in 0..MaxIntents
  BY <1>1, Bounds
<1>5. wanted' \in [Keys -> 0..MaxIntents]
  BY <1>2, <1>3, <1>4
<1> QED
  BY <1>1, <1>4, <1>5, Bounds

LEMMA EnqueueKeeps ==
  ASSUME IInv, NEW k \in Keys, Enqueue(k)
  PROVE  IInv'
<1>1. Insert(k)
  BY DEF Enqueue
<1>2. Grows
  BY <1>1, InsertCounts DEF Enqueue, Grows
<1>3. RowsFine' /\ FenceKept
  BY <1>1, <1>2, InsertIsFine
<1>4. HandFine'
  BY <1>2, <1>3, SameHandIsFine DEF Enqueue
<1>5. CountsFine'
  BY <1>1, InsertCounts DEF Enqueue, CountsFine, IInv, TypeOK
<1> QED
  BY <1>3, <1>4, <1>5 DEF IInv, TypeOK, RowsFine, HandFine, CountsFine

LEMMA ItemOfClaim ==
  ASSUME IInv, NEW id \in Pending
  PROVE  /\ ItemOf(id) \in Item /\ ItemOf(id).id = id /\ ItemOf(id).stage = "waiting"
         /\ ItemOf(id).revision = rows[id].revision
         /\ ItemOf(id).intent = rows[id].intent
<1>1. id \in Ids /\ rows[id] \in Live /\ Exists(id)
  BY LiveExists DEF Pending, Exists, IInv
<1>2. Attempted(id) \in 1..MaxAttempts
  BY <1>1, Bounds DEF Attempted, Live
<1>3. FollowUp[rows[id].key] \subseteq Keys
  BY <1>1, KeysAssumption DEF Live
<1>4. ItemOf(id) \in Item
  BY <1>1, <1>2, <1>3, Bounds DEF ItemOf, Item, Live, Stages
<1> QED
  BY <1>4 DEF ItemOf

LEMMA ClaimKeeps ==
  ASSUME IInv, NEW c \in Controllers, NEW batch \in Batches, Claim(c, batch)
  PROVE  IInv'
<1>1. batch \in SUBSET Pending
  BY DEF Batches, Ready
<1>2. Leased(batch) /\ hand' = [hand EXCEPT ![c] = {ItemOf(id) : id \in batch}]
  BY DEF Claim
<1>3. Grows
  BY StillGrows DEF Claim
<1>4. rows' \in [Ids -> Row] /\ RowsKept
  BY <1>1, <1>2, LeasedKeeps DEF IInv
<1>5. RowsFine' /\ FenceKept
  BY <1>3, <1>4, KeptIsFine
<1>6. ASSUME NEW id \in batch, NEW i, i = ItemOf(id)
      PROVE  i \in Item /\ Fenced(i)' /\ Settled(i)'
  <2>1. /\ i \in Item /\ i.id = id /\ i.stage = "waiting"
        /\ i.revision = rows[id].revision /\ i.intent = rows[id].intent
        /\ id \in Ids /\ Exists(id)
    BY <1>1, <1>6, ItemOfClaim DEF Pending, Exists
  <2>2. rows'[id].revision = rows[id].revision /\ rows'[id].intent = rows[id].intent
    BY <1>4, <2>1 DEF RowsKept, RowKept
  <2>3. rows[id].revision \in Nat /\ id <= enqueued
    BY <2>1, LiveExists DEF IInv, Live, Intents, RowsAreEnqueued
  <2>4. enqueued' = enqueued
    BY DEF Claim
  <2>5. Fenced(i)'
    BY <2>1, <2>2, <2>3, <2>4 DEF Fenced
  <2>6. Settled(i)'
    BY <2>1 DEF Settled
  <2> QED
    BY <2>1, <2>5, <2>6
<1>7. HandFine'
  <2>1. hand \in [Controllers -> SUBSET Item]
    BY DEF IInv, TypeOK
  <2>2. {ItemOf(id) : id \in batch} \subseteq Item
    BY <1>1, ItemOfClaim
  <2>3. hand' \in [Controllers -> SUBSET Item]
    BY <1>2, <2>1, <2>2
  <2>4. ASSUME NEW d \in Controllers, NEW i \in hand'[d]
        PROVE  Fenced(i)' /\ Settled(i)'
    <3>1. CASE d = c
      <4>1. PICK id \in batch : i = ItemOf(id)
        BY <1>2, <2>1, <3>1
      <4> QED
        BY <1>6, <4>1
    <3>2. CASE d # c
      <4>1. i \in hand[d]
        BY <1>2, <2>1, <3>2
      <4>2. i \in Item
        BY <4>1, ItemFacts DEF IInv
      <4> QED
        BY <1>3, <1>5, <4>1, <4>2, FencedStays, SettledStays DEF IInv, ItemsFenced, SameClaim
    <3> QED
      BY <3>1, <3>2
  <2> QED
    BY <2>3, <2>4 DEF HandFine, ItemsFenced
<1>8. CountsFine'
  BY DEF Claim, CountsFine, IInv, TypeOK
<1> QED
  BY <1>5, <1>7, <1>8 DEF IInv, TypeOK, RowsFine, HandFine, CountsFine

\* An item moves on and the rows stay as they are.
LEMMA ItemStepKeeps ==
  ASSUME IInv, NEW c \in Controllers, NEW i \in hand[c], NEW j \in Item,
         SameClaim(i, j), Settled(j)', Put(c, i, j), rows' = rows, Grows, CountsFine'
  PROVE  IInv'
<1>1. RowsFine' /\ FenceKept
  BY SameRowsAreFine
<1>2. HandFine'
  BY <1>1, PutIsFine
<1> QED
  BY <1>1, <1>2 DEF IInv, TypeOK, RowsFine, HandFine, CountsFine

LEMMA StartKeeps ==
  ASSUME IInv, NEW c \in Controllers, NEW i \in hand[c], Start(c, i)
  PROVE  IInv'
<1> DEFINE j == [i EXCEPT !.stage = "delivering", !.left = ItemTimeout]
<1>1. i \in Item
  BY ItemFacts DEF IInv
<1>2. j \in Item
  BY <1>1, ItemUpdate, ItemTimeoutBound DEF Stages
<1>3. j.stage = "delivering" /\ SameClaim(i, j)
  BY <1>1 DEF Item, SameClaim
<1>4. Put(c, i, j) /\ rows' = rows /\ CountsFine'
  BY DEF Start, CountsFine, IInv, TypeOK
<1>5. Grows
  BY StillGrows DEF Start
<1> HIDE DEF j
<1>6. Settled(j)'
  BY <1>3 DEF Settled
<1> QED
  BY <1>2, <1>3, <1>4, <1>5, <1>6, ItemStepKeeps

LEMMA NoHandlerKeeps ==
  ASSUME IInv, NEW c \in Controllers, NEW i \in hand[c], NoHandler(c, i)
  PROVE  IInv'
<1> DEFINE j == [i EXCEPT !.stage = "failed"]
<1>1. i \in Item
  BY ItemFacts DEF IInv
<1>2. j \in Item
  BY <1>1, ItemUpdate DEF Stages
<1>3. j.stage = "failed" /\ SameClaim(i, j)
  BY <1>1 DEF Item, SameClaim
<1>4. Put(c, i, j) /\ rows' = rows /\ CountsFine'
  BY DEF NoHandler, CountsFine, IInv, TypeOK
<1>5. Grows
  BY StillGrows DEF NoHandler
<1> HIDE DEF j
<1>6. Settled(j)'
  BY <1>3 DEF Settled
<1> QED
  BY <1>2, <1>3, <1>4, <1>5, <1>6, ItemStepKeeps

LEMMA ReachKeeps ==
  ASSUME IInv, NEW c \in Controllers, NEW i \in hand[c], Reach(c, i)
  PROVE  IInv'
<1> DEFINE j == [i EXCEPT !.stage = "reached"]
<1>1. i \in Item /\ i.key \in Keys /\ i.intent \in 1..MaxIntents
  BY ItemFacts DEF IInv, Intents
<1>2. j \in Item
  BY <1>1, ItemUpdate DEF Stages
<1>3. j.stage = "reached" /\ SameClaim(i, j)
  BY <1>1 DEF Item, SameClaim
<1>4. Put(c, i, j) /\ rows' = rows
  BY DEF Reach
<1>5. external' \in [Keys -> 0..MaxIntents]
  <2>1. i.intent \in 0..MaxIntents
    BY <1>1, Bounds
  <2> QED
    BY <1>1, <2>1 DEF Reach, IInv, TypeOK
<1>6. CountsFine'
  BY <1>5 DEF Reach, CountsFine, IInv, TypeOK
<1>7. Grows
  BY StillGrows DEF Reach
<1> HIDE DEF j
<1>8. Settled(j)'
  BY <1>3 DEF Settled
<1> QED
  BY <1>2, <1>3, <1>4, <1>6, <1>7, <1>8, ItemStepKeeps

LEMMA SucceedKeeps ==
  ASSUME IInv, NEW c \in Controllers, NEW i \in hand[c], Succeed(c, i)
  PROVE  IInv'
<1> DEFINE j == [i EXCEPT !.stage = "delivered", !.left = 0]
<1>1. i \in Item /\ i.intent \in Intents
  BY ItemFacts DEF IInv
<1>2. j \in Item
  BY <1>1, ItemUpdate, Bounds DEF Stages
<1>3. SameClaim(i, j) /\ j.todo = i.todo
  BY <1>1 DEF Item, SameClaim
<1>4. Put(c, i, j) /\ rows' = rows
  BY DEF Succeed
<1>5. CountsFine'
  BY <1>1 DEF Succeed, CountsFine, IInv, TypeOK
<1>6. Grows
  BY StillGrows DEF Succeed
<1>7. i.intent \in delivered' /\ (i.todo = {} => i.intent \in followed')
  BY DEF Succeed
<1> HIDE DEF j
<1>8. Settled(j)'
  BY <1>3, <1>7 DEF Settled, SameClaim
<1> QED
  BY <1>2, <1>3, <1>4, <1>5, <1>6, <1>8, ItemStepKeeps

LEMMA FailKeeps ==
  ASSUME IInv, NEW c \in Controllers, NEW i \in hand[c], Fail(c, i)
  PROVE  IInv'
<1> DEFINE j == [i EXCEPT !.stage = "failed", !.left = 0]
<1>1. i \in Item
  BY ItemFacts DEF IInv
<1>2. j \in Item
  BY <1>1, ItemUpdate, Bounds DEF Stages
<1>3. j.stage = "failed" /\ SameClaim(i, j)
  BY <1>1 DEF Item, SameClaim
<1>4. Put(c, i, j) /\ rows' = rows /\ CountsFine'
  BY DEF Fail, CountsFine, IInv, TypeOK
<1>5. Grows
  BY StillGrows DEF Fail
<1> HIDE DEF j
<1>6. Settled(j)'
  BY <1>3 DEF Settled
<1> QED
  BY <1>2, <1>3, <1>4, <1>5, <1>6, ItemStepKeeps

LEMMA ChainFailsKeeps ==
  ASSUME IInv, NEW c \in Controllers, NEW i \in hand[c], ChainFails(c, i)
  PROVE  IInv'
<1> DEFINE j == [i EXCEPT !.stage = "failed"]
<1>1. i \in Item
  BY ItemFacts DEF IInv
<1>2. j \in Item
  BY <1>1, ItemUpdate DEF Stages
<1>3. j.stage = "failed" /\ SameClaim(i, j)
  BY <1>1 DEF Item, SameClaim
<1>4. Put(c, i, j) /\ rows' = rows /\ CountsFine'
  BY DEF ChainFails, CountsFine, IInv, TypeOK
<1>5. Grows
  BY StillGrows DEF ChainFails
<1> HIDE DEF j
<1>6. Settled(j)'
  BY <1>3 DEF Settled
<1> QED
  BY <1>2, <1>3, <1>4, <1>5, <1>6, ItemStepKeeps

LEMMA SupersededKeeps ==
  ASSUME IInv, NEW c \in Controllers, NEW i \in hand[c], Superseded(c, i)
  PROVE  IInv'
<1> DEFINE j == [i EXCEPT !.stage = "superseded"]
<1>1. i \in Item
  BY ItemFacts DEF IInv
<1>2. j \in Item
  BY <1>1, ItemUpdate DEF Stages
<1>3. j.stage = "superseded" /\ SameClaim(i, j)
  BY <1>1 DEF Item, SameClaim
<1>4. Put(c, i, j) /\ rows' = rows /\ CountsFine'
  BY DEF Superseded, CountsFine, IInv, TypeOK
<1>5. Grows
  BY StillGrows DEF Superseded
<1> HIDE DEF j
<1>6. Settled(j)'
  BY <1>3 DEF Settled
<1> QED
  BY <1>2, <1>3, <1>4, <1>5, <1>6, ItemStepKeeps

LEMMA ChainKeeps ==
  ASSUME IInv, NEW c \in Controllers, NEW i \in hand[c], Chain(c, i)
  PROVE  IInv'
<1>1. i \in Item /\ i.intent \in Intents /\ i.todo \subseteq Keys /\ i.stage = "delivered"
  BY ItemFacts DEF IInv, Chain
<1>2. PICK k \in i.todo :
        /\ Insert(k)
        /\ Put(c, i, [i EXCEPT !.todo = @ \ {k}])
        /\ followed' = IF i.todo = {k} THEN followed \cup {i.intent} ELSE followed
  BY DEF Chain
<1> DEFINE j == [i EXCEPT !.todo = @ \ {k}]
<1>3. k \in Keys
  BY <1>1
<1>4. j \in Item
  BY <1>1, <1>3, ItemUpdate
<1>5. SameClaim(i, j) /\ j.todo = i.todo \ {k}
  BY <1>1 DEF Item, SameClaim
<1>6. Grows
  BY <1>2, <1>3, InsertCounts DEF Chain, Grows
<1>7. RowsFine' /\ FenceKept
  BY <1>2, <1>3, <1>6, InsertIsFine
<1>8. i.intent \in delivered
  BY <1>1 DEF IInv, ItemsFenced, Settled
<1>9. delivered' = delivered /\ (i.todo \ {k} = {} => i.intent \in followed')
  BY <1>2 DEF Chain
<1>10. Put(c, i, j)
  BY <1>2
<1> HIDE DEF j
<1>11. Settled(j)'
  BY <1>5, <1>8, <1>9 DEF Settled, SameClaim
<1>12. HandFine'
  BY <1>4, <1>5, <1>6, <1>7, <1>10, <1>11, PutIsFine
<1>13. CountsFine'
  <2>1. followed' \subseteq Intents
    BY <1>1, <1>2 DEF IInv, TypeOK
  <2> QED
    BY <1>2, <1>3, <2>1, InsertCounts DEF Chain, CountsFine, IInv, TypeOK
<1> QED
  BY <1>7, <1>12, <1>13 DEF IInv, TypeOK, RowsFine, HandFine, CountsFine

LEMMA CompleteKeeps ==
  ASSUME IInv, NEW c \in Controllers, NEW i \in hand[c], Complete(c, i)
  PROVE  IInv'
<1>1. Grows
  BY StillGrows DEF Complete
<1>2. RowsFine' /\ FenceKept
  BY <1>1, ProcessedIsFine DEF Complete
<1>3. HandFine'
  BY <1>1, <1>2, DropIsFine DEF Complete
<1>4. CountsFine'
  BY DEF Complete, CountsFine, IInv, TypeOK
<1> QED
  BY <1>2, <1>3, <1>4 DEF IInv, TypeOK, RowsFine, HandFine, CountsFine

LEMMA GiveBackKeeps ==
  ASSUME IInv, NEW c \in Controllers, NEW i \in hand[c], GiveBack(c, i)
  PROVE  IInv'
<1>1. PICK delay \in 0..MaxBackoff : Reschedule(i.id, delay)
  BY BackoffBound, Bounds DEF GiveBack
<1>2. i.id \in Ids
  BY ItemFacts DEF IInv
<1>3. Grows
  BY StillGrows DEF GiveBack
<1>4. rows' \in [Ids -> Row] /\ RowsKept
  BY <1>1, <1>2, RescheduleKeeps DEF IInv
<1>5. RowsFine' /\ FenceKept
  BY <1>3, <1>4, KeptIsFine
<1>6. HandFine'
  BY <1>3, <1>5, DropIsFine DEF GiveBack
<1>7. CountsFine'
  BY DEF GiveBack, CountsFine, IInv, TypeOK
<1> QED
  BY <1>5, <1>6, <1>7 DEF IInv, TypeOK, RowsFine, HandFine, CountsFine

LEMMA SettleFailsKeeps ==
  ASSUME IInv, NEW c \in Controllers, NEW i \in hand[c], SettleFails(c, i)
  PROVE  IInv'
<1>1. Grows
  BY StillGrows DEF SettleFails
<1>2. RowsFine' /\ FenceKept
  BY <1>1, SameRowsAreFine DEF SettleFails
<1>3. HandFine'
  BY <1>1, <1>2, DropIsFine DEF SettleFails
<1>4. CountsFine'
  BY FaultIsFine DEF SettleFails, CountsFine, IInv, TypeOK
<1> QED
  BY <1>2, <1>3, <1>4 DEF IInv, TypeOK, RowsFine, HandFine, CountsFine

LEMMA CrashKeeps ==
  ASSUME IInv, NEW c \in Controllers, Crash(c)
  PROVE  IInv'
<1>1. Grows
  BY StillGrows DEF Crash
<1>2. RowsFine' /\ FenceKept
  BY <1>1, SameRowsAreFine DEF Crash
<1>3. /\ hand' \in [Controllers -> SUBSET Item]
      /\ \A d \in Controllers : hand'[d] \subseteq hand[d]
  <2>1. hand \in [Controllers -> SUBSET Item]
    BY DEF IInv, TypeOK
  <2> QED
    BY <2>1 DEF Crash
<1>4. HandFine'
  BY <1>1, <1>2, <1>3, FewerItemsAreFine
<1>5. CountsFine'
  BY FaultIsFine DEF Crash, CountsFine, IInv, TypeOK
<1> QED
  BY <1>2, <1>4, <1>5 DEF IInv, TypeOK, RowsFine, HandFine, CountsFine

LEMMA PruneKeeps ==
  ASSUME IInv, Prune
  PROVE  IInv'
<1>1. Grows
  BY StillGrows DEF Prune
<1>2. RowsFine' /\ FenceKept
  BY PruneIsFine
<1>3. HandFine'
  BY <1>1, <1>2, SameHandIsFine DEF Prune
<1>4. CountsFine'
  BY DEF Prune, CountsFine, IInv, TypeOK
<1> QED
  BY <1>2, <1>3, <1>4 DEF IInv, TypeOK, RowsFine, HandFine, CountsFine

LEMMA TickKeeps ==
  ASSUME IInv, Tick
  PROVE  IInv'
<1>1. Grows
  BY StillGrows DEF Tick
<1>2. RowsFine' /\ FenceKept
  BY <1>1, AgingKeeps, KeptIsFine DEF IInv
<1>3. hand' = [c \in Controllers |-> {[i EXCEPT !.left = Less(@)] : i \in hand[c]}]
  BY DEF Tick
<1>4. ASSUME NEW c \in Controllers, NEW i \in hand[c], NEW j, j = [i EXCEPT !.left = Less(@)]
      PROVE  j \in Item /\ Fenced(j)' /\ Settled(j)'
  <2>1. i \in Item /\ i.left \in 0..Lease
    BY ItemFacts DEF IInv
  <2>2. Less(i.left) \in 0..Lease
    BY <2>1, Bounds DEF Less
  <2>3. j \in Item
    BY <1>4, <2>1, <2>2, ItemUpdate
  <2>4. SameClaim(i, j) /\ j.stage = i.stage /\ j.todo = i.todo
    BY <1>4, <2>1 DEF Item, SameClaim
  <2>5. Fenced(j)'
    BY <1>1, <1>2, <2>3, <2>4, FencedStays
  <2>6. Settled(i)'
    BY <1>1, SettledStays DEF IInv, ItemsFenced
  <2>7. Settled(j)'
    BY <2>4, <2>6 DEF Settled, SameClaim
  <2> QED
    BY <2>3, <2>5, <2>7
<1>5. HandFine'
  <2>1. \A c \in Controllers : {[i EXCEPT !.left = Less(@)] : i \in hand[c]} \subseteq Item
    BY <1>4
  <2>2. hand' \in [Controllers -> SUBSET Item]
    BY <1>3, <2>1
  <2>3. ASSUME NEW c \in Controllers, NEW j \in hand'[c]
        PROVE  Fenced(j)' /\ Settled(j)'
    <3>1. PICK i \in hand[c] : j = [i EXCEPT !.left = Less(@)]
      BY <1>3
    <3> QED
      BY <1>4, <3>1
  <2> QED
    BY <2>2, <2>3 DEF HandFine, ItemsFenced
<1>6. CountsFine'
  BY DEF Tick, CountsFine, IInv, TypeOK
<1> QED
  BY <1>2, <1>5, <1>6 DEF IInv, TypeOK, RowsFine, HandFine, CountsFine

-----------------------------------------------------------------------------
LEMMA Initially == Init => IInv
<1> SUFFICES ASSUME Init PROVE IInv
  OBVIOUS
<1>1. rows \in [Ids -> Row] /\ \A id \in Ids : rows[id].state = "none"
  BY DEF Init, NoRow, Row
<1>2. CountsFine
  BY Bounds DEF Init, CountsFine
<1>3. hand \in [Controllers -> SUBSET Item] /\ \A c \in Controllers : hand[c] = {}
  BY DEF Init
<1> QED
  BY <1>1, <1>2, <1>3 DEF IInv, TypeOK, CountsFine, RowsAreEnqueued, OnePendingRow,
     ItemsFenced, ProcessedWasDelivered, Pending, Exists

LEMMA NextKeeps ==
  ASSUME IInv, [Next]_vars
  PROVE  IInv'
<1>1. ASSUME NEW k \in Keys, Enqueue(k) PROVE IInv'
  BY <1>1, EnqueueKeeps
<1>2. ASSUME NEW c \in Controllers, NEW batch \in Batches, Claim(c, batch) PROVE IInv'
  BY <1>2, ClaimKeeps
<1>3. ASSUME NEW c \in Controllers, NEW i \in hand[c], Advance(c, i) PROVE IInv'
  <2>1. CASE Start(c, i)
    BY <2>1, StartKeeps
  <2>2. CASE NoHandler(c, i)
    BY <2>2, NoHandlerKeeps
  <2>3. CASE Reach(c, i)
    BY <2>3, ReachKeeps
  <2>4. CASE Succeed(c, i)
    BY <2>4, SucceedKeeps
  <2>5. CASE Fail(c, i)
    BY <2>5, FailKeeps
  <2>6. CASE Chain(c, i)
    BY <2>6, ChainKeeps
  <2>7. CASE ChainFails(c, i)
    BY <2>7, ChainFailsKeeps
  <2>8. CASE Complete(c, i)
    BY <2>8, CompleteKeeps
  <2>9. CASE Superseded(c, i)
    BY <2>9, SupersededKeeps
  <2>10. CASE GiveBack(c, i)
    BY <2>10, GiveBackKeeps
  <2> QED
    BY <1>3, <2>1, <2>2, <2>3, <2>4, <2>5, <2>6, <2>7, <2>8, <2>9, <2>10 DEF Advance
<1>4. ASSUME NEW c \in Controllers, NEW i \in hand[c], SettleFails(c, i) PROVE IInv'
  BY <1>4, SettleFailsKeeps
<1>5. ASSUME NEW c \in Controllers, Crash(c) PROVE IInv'
  BY <1>5, CrashKeeps
<1>6. CASE Prune
  BY <1>6, PruneKeeps
<1>7. CASE Tick
  BY <1>7, TickKeeps
<1>8. CASE UNCHANGED vars
  BY <1>8 DEF vars, IInv, TypeOK, RowsAreEnqueued, OnePendingRow, ItemsFenced, Fenced,
     Settled, ProcessedWasDelivered, Pending, Exists
<1> QED
  BY <1>1, <1>2, <1>3, <1>4, <1>5, <1>6, <1>7, <1>8 DEF Next

\* The invariant holds throughout.
THEOREM Invariant == Spec => []IInv
  BY Initially, NextKeeps, PTL DEF Spec

\* The table and the controllers' items stay within their types, whatever the
\* options, delays and faults.
THEOREM TypeCorrect == Spec => []TypeOK
  BY Invariant, PTL DEF IInv

\* A completion never marks a row processed whose intent was not delivered with
\* its follow-ups enqueued: the revision fences off whoever was superseded.
THEOREM OnlyDeliveredIsProcessed == Spec => []ProcessedWasDelivered
  BY Invariant, PTL DEF IInv

-----------------------------------------------------------------------------
(* The promise.                                                            *)

Owed == {<<rows[id].key, rows[id].intent>> : id \in Pending}

LEMMA KeptIsOwed ==
  ASSUME IInv, RowsKept
  PROVE  Owed' = Owed
<1>1. Pending' = Pending
  BY DEF Pending, RowsKept, RowKept
<1>2. \A id \in Pending : rows'[id].key = rows[id].key /\ rows'[id].intent = rows[id].intent
  BY DEF Pending, Exists, RowsKept, RowKept
<1> QED
  BY <1>1, <1>2 DEF Owed

LEMMA InsertAccepts ==
  ASSUME IInv, NEW k \in Keys, Insert(k), delivered' = delivered
  PROVE  [Promise!Next]_(Promise!vars)
<1>1. PICK n \in Intents : n = enqueued + 1
  BY InsertCases DEF Intents
<1>2. CASE rows' = rows
  <2>1. Owed' = Owed
    BY <1>2 DEF Owed, Pending
  <2> QED
    BY <2>1 DEF Owed, Promise!vars
<1>3. CASE Added(k, n)
  <2>1. rows \in [Ids -> Row] /\ n \in Ids
    BY <1>3 DEF IInv, TypeOK, Added
  <2>2. rows'[n] = NewRow(k, n) /\ \A id \in Ids \ {n} : rows'[id] = rows[id]
    BY <1>3, <2>1 DEF Added
  <2>3. n \notin Pending /\ \A id \in Pending : rows[id].key # k
    BY <1>3 DEF Added, Pending, Exists
  <2>4. rows'[n].state = "pending" /\ rows'[n].key = k /\ rows'[n].intent = n
    BY <2>2 DEF NewRow
  <2>5. Pending' = Pending \cup {n}
    BY <2>1, <2>2, <2>4 DEF Pending
  <2>6. Owed' = Owed \cup {<<k, n>>}
    BY <2>2, <2>3, <2>4, <2>5 DEF Owed, Pending
  <2>7. {o \in Owed : o[1] = k} = {}
    BY <2>3 DEF Owed
  <2>8. Promise!Accept(k, n)
    BY <2>6, <2>7 DEF Promise!Accept, Promise!OwedOf, Owed
  <2> QED
    BY <1>1, <2>8 DEF Promise!Next
<1>4. CASE Coalesced(k, n) /\ Mode[k] # "job"
  <2> DEFINE moved == {id \in Pending : rows[id].key = k}
  <2>1. \A id \in Ids : id \notin moved => rows'[id] = rows[id]
    BY <1>4 DEF Coalesced
  <2>2. \A id \in moved : /\ rows'[id].state = "pending"
                          /\ rows'[id].key = k /\ rows'[id].intent = n
    BY <1>1, <1>4, CoalescedRows
  <2>3. moved # {} /\ moved \subseteq Pending
    BY <1>4 DEF Coalesced
  <2>4. \A id \in moved : rows[id].key = k
    OBVIOUS
  <2>5. \A id \in Pending \ moved : rows[id].key # k
    OBVIOUS
  <2> HIDE DEF moved
  <2>6. Pending' = Pending
    BY <2>1, <2>2, <2>3 DEF Pending
  <2>7. Owed' = (Owed \ {o \in Owed : o[1] = k}) \cup {<<k, n>>}
    <3>1. \A o \in Owed' : (o \in Owed /\ o[1] # k) \/ o = <<k, n>>
      BY <2>1, <2>2, <2>5, <2>6 DEF Owed, Pending
    <3>2. \A o \in Owed : o[1] # k => o \in Owed'
      BY <2>1, <2>4, <2>6 DEF Owed, Pending
    <3>3. <<k, n>> \in Owed'
      BY <2>2, <2>3, <2>6 DEF Owed
    <3> QED
      BY <3>1, <3>2, <3>3
  <2>8. Promise!Accept(k, n)
    BY <1>4, <2>7 DEF Promise!Accept, Promise!OwedOf, Owed
  <2> QED
    BY <1>1, <2>8 DEF Promise!Next
<1>5. Coalesced(k, n) => Mode[k] # "job" \/ rows' = rows
  BY <1>1 DEF Insert, Enqueued, Coalesced, Pending
<1> QED
  BY <1>1, <1>2, <1>3, <1>4, <1>5, InsertCases

LEMMA CompleteSettles ==
  ASSUME IInv, NEW c \in Controllers, NEW i \in hand[c], Complete(c, i)
  PROVE  [Promise!Next]_(Promise!vars)
<1> DEFINE id == i.id
           n  == i.intent
<1>1. id \in Pending /\ rows[id].intent = n /\ n \in delivered
  BY ItemFacts DEF IInv, ItemsFenced, Fenced, Settled, Complete, Current, Pending, Exists
<1>2. rows \in [Ids -> Row] /\ rows[id] \in Live
  BY <1>1, LiveExists DEF IInv, TypeOK, Pending, Exists
<1>3. n \in Intents
  BY <1>1, <1>2 DEF Live
<1>4. PICK k \in Keys : k = rows[id].key
  BY <1>2 DEF Live
<1>5. rows'[id].state = "processed" /\ \A x \in Ids \ {id} : rows'[x] = rows[x]
  BY <1>1, <1>2 DEF Complete, Processed, Pending, Live
<1>6. Pending' = Pending \ {id}
  BY <1>1, <1>5 DEF Pending
<1>7. \A x \in Pending : rows[x].key = k => x = id
  BY <1>1, <1>4 DEF IInv, OnePendingRow
<1> HIDE DEF n, id
<1>8. Owed' = Owed \ {<<k, n>>}
  <2>1. \A x \in Pending' : /\ rows'[x].key = rows[x].key /\ rows'[x].intent = rows[x].intent
                            /\ rows[x].key # k
    BY <1>5, <1>6, <1>7 DEF Pending
  <2>2. \A o \in Owed' : o \in Owed /\ o # <<k, n>>
    BY <1>6, <2>1 DEF Owed
  <2>3. \A o \in Owed : o # <<k, n>> => o \in Owed'
    BY <1>1, <1>4, <1>6, <2>1 DEF Owed
  <2> QED
    BY <2>2, <2>3
<1>9. Promise!Settle(k, n)
  BY <1>1, <1>8 DEF Promise!Settle, Owed, Complete
<1> QED
  BY <1>3, <1>9 DEF Promise!Next

\* A step that keeps every row's contents and delivers nothing.
LEMMA KeptStutters ==
  ASSUME IInv, RowsKept, delivered' = delivered
  PROVE  [Promise!Next]_(Promise!vars)
  BY KeptIsOwed DEF Owed, Promise!vars

LEMMA SameRowsKept == ASSUME rows' = rows PROVE RowsKept
  BY DEF RowsKept, RowKept

LEMMA StepKeepsPromise ==
  ASSUME IInv, [Next]_vars
  PROVE  [Promise!Next]_(Promise!vars)
<1>1. ASSUME NEW k \in Keys, Enqueue(k) PROVE [Promise!Next]_(Promise!vars)
  BY <1>1, InsertAccepts DEF Enqueue
<1>2. ASSUME NEW c \in Controllers, NEW batch \in Batches, Claim(c, batch)
      PROVE  [Promise!Next]_(Promise!vars)
  <2>1. batch \in SUBSET Pending
    BY DEF Batches, Ready
  <2> QED
    BY <1>2, <2>1, LeasedKeeps, KeptStutters DEF Claim, IInv
<1>3. ASSUME NEW c \in Controllers, NEW i \in hand[c], Advance(c, i)
      PROVE  [Promise!Next]_(Promise!vars)
  <2>1. CASE Start(c, i) \/ NoHandler(c, i) \/ Reach(c, i) \/ Fail(c, i)
             \/ ChainFails(c, i) \/ Superseded(c, i)
    BY <2>1, SameRowsKept, KeptStutters DEF Start, NoHandler, Reach, Fail, ChainFails, Superseded
  <2>2. CASE Succeed(c, i)
    <3>1. Owed' = Owed
      BY <2>2, SameRowsKept, KeptIsOwed DEF Succeed
    <3>2. i.intent \in Intents /\ delivered' = delivered \cup {i.intent}
      BY <2>2, ItemFacts DEF Succeed, IInv
    <3> QED
      BY <3>1, <3>2 DEF Promise!Next, Promise!Deliver, Owed
  <2>3. CASE Chain(c, i)
    <3>1. PICK k \in i.todo : Insert(k)
      BY <2>3 DEF Chain
    <3>2. k \in Keys
      BY ItemFacts DEF IInv
    <3> QED
      BY <2>3, <3>1, <3>2, InsertAccepts DEF Chain
  <2>4. CASE Complete(c, i)
    BY <2>4, CompleteSettles
  <2>5. CASE GiveBack(c, i)
    <3>1. PICK delay \in 0..MaxBackoff : Reschedule(i.id, delay)
      BY <2>5, BackoffBound, Bounds DEF GiveBack
    <3>2. RowsKept
      BY <3>1, ItemFacts, RescheduleKeeps DEF IInv
    <3> QED
      BY <2>5, <3>2, KeptStutters DEF GiveBack
  <2> QED
    BY <1>3, <2>1, <2>2, <2>3, <2>4, <2>5 DEF Advance
<1>4. ASSUME NEW c \in Controllers, NEW i \in hand[c], SettleFails(c, i)
      PROVE  [Promise!Next]_(Promise!vars)
  BY <1>4, SameRowsKept, KeptStutters DEF SettleFails
<1>5. ASSUME NEW c \in Controllers, Crash(c) PROVE [Promise!Next]_(Promise!vars)
  BY <1>5, SameRowsKept, KeptStutters DEF Crash
<1>6. CASE Prune
  <2>1. Pending' = Pending /\ \A id \in Pending : rows'[id] = rows[id]
    BY <1>6 DEF Prune, Pending, NoRow
  <2>2. Owed' = Owed
    BY <2>1 DEF Owed
  <2> QED
    BY <1>6, <2>2 DEF Owed, Prune, Promise!vars
<1>7. CASE Tick
  BY <1>7, AgingKeeps, KeptStutters DEF Tick, IInv
<1>8. CASE UNCHANGED vars
  BY <1>8, SameRowsKept, KeptStutters DEF vars
<1> QED
  BY <1>1, <1>2, <1>3, <1>4, <1>5, <1>6, <1>7, <1>8 DEF Next

\* The queue implements its outbox: an accepted intent stays owed until it was
\* delivered or a newer one of its reconcile key took its place, through
\* crashes, lost settlements, expired leases and any delay.
THEOREM Refinement == Spec => KeepsItsPromise
<1>1. Init => Promise!Init
  <2>1. Init => Pending = {} /\ delivered = {}
    BY DEF Init, Pending, NoRow
  <2>2. Pending = {} => Owed = {}
    BY DEF Owed
  <2> QED
    BY <2>1, <2>2 DEF Promise!Init, Owed
<1> QED
  BY <1>1, StepKeepsPromise, Invariant, PTL DEF Spec, KeepsItsPromise, Promise!Spec

-----------------------------------------------------------------------------
(* Deadlines.                                                              *)

\* Controllers that lose no time outside their handlers, and a lease of at
\* least six units, so that a sixth of it is some time.
Prompt == Slow = {} /\ Lease >= 6

\* The round a batch's n-th item is started in, from 0, and when at the latest.
Round(n) == n \div Workers
Due(n)   == Round(n) * ItemTimeout

LEMMA DivideBounds ==
  ASSUME NEW a \in Nat, NEW b \in Nat \ {0}
  PROVE  a \div b \in Nat /\ b * (a \div b) <= a /\ a < b * (a \div b) + b
  OBVIOUS

LEMMA ProductGrows ==
  ASSUME NEW a \in Nat, NEW b \in Nat, NEW t \in Nat, a <= b
  PROVE  a * t <= b * t
  OBVIOUS

LEMMA DivideGrows ==
  ASSUME NEW a \in Nat, NEW b \in Nat, NEW w \in Nat \ {0}, a <= b
  PROVE  a \div w <= b \div w
<1> DEFINE p == a \div w
           q == b \div w
<1>1. p \in Nat /\ q \in Nat /\ w * p <= a /\ b < w * q + w
  BY DivideBounds
<1> HIDE DEF p, q
<1>2. ASSUME q + 1 <= p PROVE FALSE
  <2>1. (q + 1) * w <= p * w
    BY <1>1, <1>2, ProductGrows
  <2>2. (q + 1) * w = w * q + w /\ p * w = w * p
    BY <1>1
  <2>3. w * q \in Nat /\ w * p \in Nat
    BY <1>1
  <2> QED
    BY <1>1, <2>1, <2>2, <2>3
<1>3. p <= q
  BY <1>1, <1>2
<1> QED
  BY <1>3 DEF p, q

LEMMA DivideNext ==
  ASSUME NEW a \in Nat, NEW w \in Nat \ {0}
  PROVE  (a + w) \div w = (a \div w) + 1
<1> DEFINE p == a \div w
           q == (a + w) \div w
<1>1. p \in Nat /\ q \in Nat /\ w * p <= a /\ a < w * p + w
      /\ w * q <= a + w /\ a + w < w * q + w
  BY DivideBounds
<1> HIDE DEF p, q
<1>2. (p + 1) * w = w * p + w /\ (p + 2) * w = w * p + w + w /\ q * w = w * q
      /\ (q + 1) * w = w * q + w
  BY <1>1
<1>3. w * p \in Nat /\ w * q \in Nat
  BY <1>1
<1>4. ASSUME p + 2 <= q PROVE FALSE
  <2>1. (p + 2) * w <= q * w
    BY <1>1, <1>4, ProductGrows
  <2> QED
    BY <1>1, <1>2, <1>3, <2>1
<1>5. ASSUME q + 1 <= p + 1 PROVE FALSE
  <2>1. (q + 1) * w <= (p + 1) * w
    BY <1>1, <1>5, ProductGrows
  <2> QED
    BY <1>1, <1>2, <1>3, <2>1
<1>6. q = p + 1
  BY <1>1, <1>4, <1>5
<1> QED
  BY <1>6 DEF p, q

LEMMA OptionTypes ==
  /\ Lease \in Nat \ {0} /\ BatchSize \in Nat \ {0} /\ Workers \in Nat \ {0}
  /\ Rounds \in Nat \ {0} /\ ItemTimeout \in Nat /\ Rounds * ItemTimeout \in Nat
<1>1. Lease \in Nat \ {0} /\ BatchSize \in Nat \ {0} /\ Workers \in Nat \ {0}
  BY OptionsAssumption
<1>2. Rounds \in Nat \ {0}
  BY <1>1 DEF Rounds
<1>3. ItemTimeout \in Nat
  BY <1>1, ItemTimeoutBound
<1> QED
  BY <1>1, <1>2, <1>3

\* What Options promises: all rounds of a batch fit in a lease.
LEMMA RoundsFit == Lease >= 6 => Rounds * ItemTimeout < Lease
<1> SUFFICES ASSUME Lease >= 6 PROVE Rounds * ItemTimeout < Lease
  OBVIOUS
<1>1. Lease - Lease \div 6 \in Nat /\ Lease - Lease \div 6 < Lease
  BY OptionTypes
<1>2. Rounds * ItemTimeout <= Lease - Lease \div 6
  BY <1>1, OptionTypes, DivideBounds DEF ItemTimeout
<1> QED
  BY <1>1, <1>2, OptionTypes

LEMMA DueFacts ==
  /\ \A n \in Nat : Due(n) \in Nat
  /\ \A m, n \in Nat : m <= n => Due(m) <= Due(n)
  /\ \A m, n \in Nat : m + Workers <= n => Due(m) + ItemTimeout <= Due(n)
  /\ \A n \in Nat : n < BatchSize => Due(n) + ItemTimeout <= Rounds * ItemTimeout
<1>1. \A n \in Nat : Round(n) \in Nat
  BY OptionTypes, DivideBounds DEF Round
<1>2. \A n \in Nat : Due(n) \in Nat
  BY <1>1, OptionTypes DEF Due
<1>3. \A m, n \in Nat : m <= n => Due(m) <= Due(n)
  BY <1>1, OptionTypes, DivideGrows, ProductGrows DEF Due, Round
<1>4. \A n \in Nat : Due(n + Workers) = Due(n) + ItemTimeout
  <2>1. SUFFICES ASSUME NEW n \in Nat PROVE Due(n + Workers) = Due(n) + ItemTimeout
    OBVIOUS
  <2>2. Round(n + Workers) = Round(n) + 1
    BY OptionTypes, DivideNext DEF Round
  <2>3. Round(n) \in Nat
    BY <1>1
  <2>4. (Round(n) + 1) * ItemTimeout = Round(n) * ItemTimeout + ItemTimeout
    BY <2>3, OptionTypes
  <2> QED
    BY <2>2, <2>4 DEF Due
<1>5. \A m, n \in Nat : m + Workers <= n => Due(m) + ItemTimeout <= Due(n)
  BY <1>3, <1>4, OptionTypes
<1>6. ASSUME NEW n \in Nat, n < BatchSize
      PROVE  Due(n) + ItemTimeout <= Rounds * ItemTimeout
  <2> DEFINE m == BatchSize - 1
  <2>1. m \in Nat /\ n <= m
    BY <1>6, OptionTypes
  <2>2. Round(m + Workers) = Rounds
    BY OptionTypes DEF Round, Rounds
  <2>3. Due(m) + ItemTimeout = Rounds * ItemTimeout
    BY <1>4, <2>1, <2>2 DEF Due
  <2>4. Due(n) <= Due(m)
    BY <1>3, <2>1
  <2> QED
    BY <1>2, <2>1, <2>3, <2>4, OptionTypes
<1> QED
  BY <1>2, <1>3, <1>5, <1>6

-----------------------------------------------------------------------------
(* The schedule of a batch.                                                *)

\* Whoever holds a row holds it pending, and alone.
Claimed ==
  \A c \in Controllers : \A i \in hand[c] :
    i.id \in Pending /\ rows[i.id].key = i.key

Exclusive ==
  \A c, d \in Controllers : \A i \in hand[c], j \in hand[d] :
    i.id = j.id => c = d /\ i = j

WaitingIds(c) == {id \in Ids : \E i \in hand[c] : i.id = id /\ i.stage = "waiting"}

\* Controller c claimed its batch e ticks ago and has started n of its items,
\* the item of row id as number place[id].
Schedule(c, e, n, place) ==
  /\ hand[c] # {} => e <= Rounds * ItemTimeout
  /\ \A i \in hand[c] : rows[i.id].lease + e = Lease
  /\ Cardinality(WaitingIds(c)) + n <= BatchSize
  /\ WaitingIds(c) # {} => e <= Due(n)
  /\ \A i \in hand[c] : InHandler(i) =>
       place[i.id] < n /\ e + i.left <= Due(place[i.id]) + ItemTimeout
  /\ \A i, j \in hand[c] :
       InHandler(i) /\ InHandler(j) /\ place[i.id] = place[j.id] => i.id = j.id

OnTime(c) == \E e, n \in Nat, place \in [Ids -> Nat] : Schedule(c, e, n, place)

TInv == Claimed /\ Exclusive /\ \A c \in Controllers : OnTime(c)

LEMMA WaitingFinite ==
  ASSUME NEW c
  PROVE  IsFiniteSet(WaitingIds(c)) /\ Cardinality(WaitingIds(c)) \in Nat
<1>1. IsFiniteSet(Ids)
  BY FS_Interval, Bounds DEF Ids
<1>2. WaitingIds(c) \in SUBSET Ids
  BY DEF WaitingIds
<1> QED
  BY <1>1, <1>2, FS_Subset, FS_CardinalityType

\* A row that is held is leased.
LEMMA HeldIsLeased ==
  ASSUME IInv, TInv, Prompt, NEW c \in Controllers, NEW i \in hand[c]
  PROVE  rows[i.id].lease # 0 /\ i.id \in Pending
<1>1. PICK e, n \in Nat, place \in [Ids -> Nat] : Schedule(c, e, n, place)
  BY DEF TInv, OnTime
<1>2. e <= Rounds * ItemTimeout /\ rows[i.id].lease + e = Lease
  BY <1>1 DEF Schedule
<1> QED
  BY <1>2, RoundsFit, OptionTypes DEF Prompt, TInv, Claimed

\* Item j is what became of item i: the same claim, and no more to do.
Continues(i, j) ==
  /\ j.id = i.id /\ j.key = i.key
  /\ j.stage = "waiting" => i.stage = "waiting"
  /\ InHandler(j) => InHandler(i) /\ j.left <= i.left

RowHeld(id) ==
  /\ rows'[id].state = "pending"
  /\ rows'[id].key = rows[id].key /\ rows'[id].lease = rows[id].lease

LEMMA OnTimeStays ==
  ASSUME IInv, IInv', TInv, NEW c \in Controllers,
         \A j \in hand'[c] : rows'[j.id].lease = rows[j.id].lease
                             /\ \E i \in hand[c] : Continues(i, j)
  PROVE  OnTime(c)'
<1>1. PICK e, n \in Nat, place \in [Ids -> Nat] : Schedule(c, e, n, place)
  BY DEF TInv, OnTime
<1>2. \A j \in hand'[c] : \E i \in hand[c] : Continues(i, j)
  OBVIOUS
<1>3. WaitingIds(c)' \subseteq WaitingIds(c)
  BY <1>2 DEF WaitingIds, Continues
<1>4. /\ Cardinality(WaitingIds(c)') <= Cardinality(WaitingIds(c))
      /\ Cardinality(WaitingIds(c)) \in Nat /\ Cardinality(WaitingIds(c)') \in Nat
  BY <1>3, WaitingFinite, FS_Subset, FS_CardinalityType
<1>5. hand'[c] # {} => e <= Rounds * ItemTimeout
  BY <1>1, <1>2 DEF Schedule
<1>6. \A j \in hand'[c] : rows'[j.id].lease + e = Lease
  BY <1>1, <1>2 DEF Schedule, Continues
<1>7. Cardinality(WaitingIds(c)') + n <= BatchSize
  BY <1>1, <1>4, OptionTypes DEF Schedule
<1>8. WaitingIds(c)' # {} => e <= Due(n)
  BY <1>1, <1>3 DEF Schedule
<1>9. ASSUME NEW j \in hand'[c], InHandler(j)
      PROVE  place[j.id] < n /\ e + j.left <= Due(place[j.id]) + ItemTimeout
  <2>1. PICK i \in hand[c] : Continues(i, j)
    BY <1>2
  <2>2. place[i.id] < n /\ e + i.left <= Due(place[i.id]) + ItemTimeout
        /\ j.left <= i.left /\ j.id = i.id
    BY <1>1, <1>9, <2>1 DEF Schedule, Continues
  <2>3. i.id \in Ids /\ i.left \in Nat
    BY ItemFacts, Bounds DEF IInv
  <2>4. j.left \in Nat
    BY ItemFacts, Bounds DEF IInv, TypeOK, Item
  <2>5. Due(place[i.id]) \in Nat
    BY <2>3, DueFacts
  <2> QED
    BY <2>2, <2>3, <2>4, <2>5, OptionTypes
<1>10. ASSUME NEW i \in hand'[c], NEW j \in hand'[c],
              InHandler(i), InHandler(j), place[i.id] = place[j.id]
       PROVE  i.id = j.id
  <2>1. PICK x \in hand[c] : Continues(x, i)
    BY <1>2
  <2>2. PICK y \in hand[c] : Continues(y, j)
    BY <1>2
  <2> QED
    BY <1>1, <1>10, <2>1, <2>2 DEF Schedule, Continues
<1>11. Schedule(c, e, n, place)'
  BY <1>5, <1>6, <1>7, <1>8, <1>9, <1>10 DEF Schedule, Due, Round, ItemTimeout, Rounds,
     InHandler
<1> QED
  BY <1>11 DEF OnTime

\* Steps that only carry on with, or drop, what is held.
LEMMA CarryOn ==
  ASSUME IInv, IInv', TInv,
         \A c \in Controllers : \A j \in hand'[c] :
           RowHeld(j.id) /\ \E i \in hand[c] : Continues(i, j),
         \A c \in Controllers : \A i, j \in hand'[c] : i.id = j.id => i = j
  PROVE  TInv'
<1>1. ASSUME NEW c \in Controllers, NEW j \in hand'[c]
      PROVE  j.id \in Pending' /\ rows'[j.id].key = j.key
  <2>1. PICK i \in hand[c] : Continues(i, j)
    OBVIOUS
  <2>2. i.id \in Pending /\ rows[i.id].key = i.key
    BY DEF TInv, Claimed
  <2>3. RowHeld(j.id)
    OBVIOUS
  <2> QED
    BY <2>1, <2>2, <2>3 DEF Pending, RowHeld, Continues
<1>2. Claimed'
  BY <1>1 DEF Claimed
<1>3. ASSUME NEW c \in Controllers, NEW d \in Controllers,
             NEW i \in hand'[c], NEW j \in hand'[d], i.id = j.id
      PROVE  c = d /\ i = j
  <2>1. PICK x \in hand[c] : Continues(x, i)
    OBVIOUS
  <2>2. PICK y \in hand[d] : Continues(y, j)
    OBVIOUS
  <2>3. x.id = y.id
    BY <1>3, <2>1, <2>2 DEF Continues
  <2>4. c = d
    BY <2>3 DEF TInv, Exclusive
  <2> QED
    BY <1>3, <2>4
<1>4. Exclusive'
  BY <1>3 DEF Exclusive
<1>5. \A c \in Controllers : OnTime(c)'
  BY OnTimeStays DEF RowHeld
<1> QED
  BY <1>2, <1>4, <1>5 DEF TInv

LEMMA ContinuesItself == \A i : i.left \in Nat => Continues(i, i)
  BY DEF Continues

\* The controller whose items change is the only one.
LEMMA PutItem ==
  ASSUME IInv, TInv, NEW c \in Controllers, NEW i \in hand[c], NEW j, j.id = i.id,
         Put(c, i, j)
  PROVE  /\ \A d \in Controllers : \A x \in hand'[d] :
              \/ d = c /\ x = j
              \/ x \in hand[d] /\ x.id # i.id
         /\ \A d \in Controllers : \A x, y \in hand'[d] : x.id = y.id => x = y
         /\ hand'[c] = (hand[c] \ {i}) \cup {j}
         /\ \A d \in Controllers \ {c} : hand'[d] = hand[d]
<1>1. hand \in [Controllers -> SUBSET Item]
  BY DEF IInv, TypeOK
<1>2. /\ hand'[c] = (hand[c] \ {i}) \cup {j}
      /\ \A d \in Controllers \ {c} : hand'[d] = hand[d]
  BY <1>1 DEF Put
<1>3. \A d \in Controllers : \A x \in hand[d] : x.id = i.id => d = c /\ x = i
  BY DEF TInv, Exclusive
<1>4. \A d \in Controllers : \A x \in hand'[d] :
        \/ d = c /\ x = j
        \/ x \in hand[d] /\ x.id # i.id
  BY <1>2, <1>3
<1>5. \A d \in Controllers : \A x, y \in hand'[d] : x.id = y.id => x = y
  BY <1>4 DEF TInv, Exclusive
<1> QED
  BY <1>2, <1>4, <1>5

LEMMA PutCarriesOn ==
  ASSUME IInv, IInv', TInv, NEW c \in Controllers, NEW i \in hand[c], NEW j,
         Put(c, i, j), Continues(i, j), \A id \in Pending : RowHeld(id)
  PROVE  TInv'
<1>1. j.id = i.id
  BY DEF Continues
<1>2. ASSUME NEW d \in Controllers, NEW x \in hand'[d]
      PROVE  RowHeld(x.id) /\ \E y \in hand[d] : Continues(y, x)
  <2>1. PICK y \in hand[d] : Continues(y, x)
    <3>1. CASE d = c /\ x = j
      BY <3>1
    <3>2. CASE x \in hand[d]
      BY <3>2, ItemFacts, Bounds, ContinuesItself DEF IInv
    <3> QED
      BY <1>1, <1>2, <3>1, <3>2, PutItem
  <2>2. y.id \in Pending /\ x.id = y.id
    BY <2>1 DEF TInv, Claimed, Continues
  <2> QED
    BY <2>1, <2>2
<1> QED
  BY <1>1, <1>2, PutItem, CarryOn

LEMMA DropCarriesOn ==
  ASSUME IInv, IInv', TInv,
         \A c \in Controllers : hand'[c] \subseteq hand[c],
         \A c \in Controllers : \A j \in hand'[c] : RowHeld(j.id)
  PROVE  TInv'
<1>1. ASSUME NEW d \in Controllers, NEW x \in hand'[d]
      PROVE  RowHeld(x.id) /\ \E y \in hand[d] : Continues(y, x)
  <2>1. x \in hand[d] /\ RowHeld(x.id)
    BY <1>1
  <2> QED
    BY <2>1, ItemFacts, Bounds, ContinuesItself DEF IInv
<1>2. \A c \in Controllers : \A i, j \in hand'[c] : i.id = j.id => i = j
  BY DEF TInv, Exclusive
<1> QED
  BY <1>1, <1>2, CarryOn

LEMMA SameRowsHeld == ASSUME rows' = rows PROVE \A id \in Pending : RowHeld(id)
  BY DEF RowHeld, Pending

LEMMA InsertHolds ==
  ASSUME IInv, NEW k \in Keys, Insert(k)
  PROVE  \A id \in Pending : RowHeld(id)
<1>1. PICK n \in Intents : n = enqueued + 1
  BY InsertCases DEF Intents
<1>2. CASE Added(k, n)
  <2>1. rows \in [Ids -> Row] /\ n \notin Pending
    BY <1>2 DEF IInv, TypeOK, Added, Pending, Exists
  <2>2. \A id \in Pending : rows'[id] = rows[id]
    BY <1>2, <2>1 DEF Added, Pending
  <2> QED
    BY <2>2 DEF RowHeld, Pending
<1>3. CASE Coalesced(k, n)
  <2>1. SUFFICES ASSUME NEW id \in Pending PROVE RowHeld(id)
    OBVIOUS
  <2>2. rows[id] \in Live
    BY LiveExists DEF IInv, Pending, Exists
  <2>3. rows'[id] = IF rows[id].key = k
                    THEN [rows[id] EXCEPT !.intent = n, !.revision = @ + 1]
                    ELSE rows[id]
    BY <1>3 DEF Coalesced, Pending
  <2> QED
    BY <2>2, <2>3 DEF RowHeld, Pending, Live
<1> QED
  BY <1>1, <1>2, <1>3, SameRowsHeld, InsertCases

\* The steps of an item that have nothing to do with time.
LEMMA ItemCarriesOn ==
  ASSUME IInv, IInv', TInv, NEW c \in Controllers, NEW i \in hand[c],
         \/ NoHandler(c, i) \/ Reach(c, i) \/ Succeed(c, i) \/ Fail(c, i)
         \/ Chain(c, i) \/ ChainFails(c, i) \/ Superseded(c, i)
  PROVE  TInv'
<1>1. i \in Item /\ i.left \in Nat /\ 0 <= i.left
  BY ItemFacts, Bounds DEF IInv
<1>2. \A s \in {"failed", "superseded"} :
        Continues(i, [i EXCEPT !.stage = s]) /\ Continues(i, [i EXCEPT !.stage = s, !.left = 0])
  BY <1>1 DEF Item, Continues, InHandler
<1>3. CASE NoHandler(c, i) \/ ChainFails(c, i) \/ Superseded(c, i) \/ Fail(c, i)
  BY <1>2, <1>3, SameRowsHeld, PutCarriesOn DEF NoHandler, ChainFails, Superseded, Fail
<1>4. CASE Reach(c, i)
  <2>1. Continues(i, [i EXCEPT !.stage = "reached"])
    BY <1>1, <1>4 DEF Reach, Item, Continues, InHandler
  <2> QED
    BY <1>4, <2>1, SameRowsHeld, PutCarriesOn DEF Reach
<1>5. CASE Succeed(c, i)
  <2>1. Continues(i, [i EXCEPT !.stage = "delivered", !.left = 0])
    BY <1>1 DEF Item, Continues, InHandler
  <2> QED
    BY <1>5, <2>1, SameRowsHeld, PutCarriesOn DEF Succeed
<1>6. CASE Chain(c, i)
  <2>1. PICK k \in i.todo : Insert(k) /\ Put(c, i, [i EXCEPT !.todo = @ \ {k}])
    BY <1>6 DEF Chain
  <2>2. k \in Keys
    BY ItemFacts DEF IInv
  <2>3. Continues(i, [i EXCEPT !.todo = @ \ {k}])
    BY <1>1 DEF Item, Continues, InHandler
  <2> QED
    BY <2>1, <2>2, <2>3, InsertHolds, PutCarriesOn
<1> QED
  BY <1>3, <1>4, <1>5, <1>6

\* The steps that let go of an item, and may settle its row.
LEMMA LetGo ==
  ASSUME IInv, IInv', TInv, NEW c \in Controllers, NEW i \in hand[c],
         Drop(c, i), \A id \in Ids \ {i.id} : rows'[id] = rows[id]
  PROVE  TInv'
<1>1. hand \in [Controllers -> SUBSET Item]
  BY DEF IInv, TypeOK
<1>2. /\ hand'[c] = hand[c] \ {i}
      /\ \A d \in Controllers \ {c} : hand'[d] = hand[d]
  BY <1>1 DEF Drop
<1>3. \A d \in Controllers : hand'[d] \subseteq hand[d]
  BY <1>2
<1>4. ASSUME NEW d \in Controllers, NEW x \in hand'[d]
      PROVE  RowHeld(x.id)
  <2>1. x \in hand[d] /\ x.id \in Pending
    BY <1>3, <1>4 DEF TInv, Claimed
  <2>2. x.id # i.id
    BY <1>2, <1>4, <2>1 DEF TInv, Exclusive
  <2>3. rows'[x.id] = rows[x.id]
    BY <2>1, <2>2 DEF Pending
  <2> QED
    BY <2>1, <2>3 DEF RowHeld, Pending
<1> QED
  BY <1>3, <1>4, DropCarriesOn

LEMMA LettingGo ==
  ASSUME IInv, IInv', TInv, NEW c \in Controllers, NEW i \in hand[c],
         Complete(c, i) \/ GiveBack(c, i) \/ SettleFails(c, i)
  PROVE  TInv'
<1>1. rows \in [Ids -> Row]
  BY DEF IInv, TypeOK
<1>2. CASE Complete(c, i)
  BY <1>1, <1>2, LetGo DEF Complete, Processed
<1>3. CASE GiveBack(c, i)
  <2>1. PICK delay : Reschedule(i.id, delay)
    BY <1>3 DEF GiveBack
  <2>2. \A id \in Ids \ {i.id} : rows'[id] = rows[id]
    BY <1>1, <2>1 DEF Reschedule
  <2> QED
    BY <1>3, <2>2, LetGo DEF GiveBack
<1>4. CASE SettleFails(c, i)
  BY <1>4, LetGo DEF SettleFails
<1> QED
  BY <1>2, <1>3, <1>4

\* The next item of the batch is started.
LEMMA Starting ==
  ASSUME IInv, IInv', TInv, NEW c \in Controllers, NEW i \in hand[c], Start(c, i)
  PROVE  TInv'
<1> DEFINE j == [i EXCEPT !.stage = "delivering", !.left = ItemTimeout]
<1>1. i \in Item /\ i.id \in Ids /\ i.stage = "waiting"
  BY ItemFacts DEF IInv, Start
<1>2. /\ j.id = i.id /\ j.key = i.key /\ j.stage = "delivering" /\ j.left = ItemTimeout
  BY <1>1 DEF Item
<1>3. Put(c, i, j) /\ rows' = rows
  BY DEF Start
<1> HIDE DEF j
<1>4. /\ \A d \in Controllers : \A x \in hand'[d] :
           \/ d = c /\ x = j
           \/ x \in hand[d] /\ x.id # i.id
      /\ \A d \in Controllers : \A x, y \in hand'[d] : x.id = y.id => x = y
      /\ hand'[c] = (hand[c] \ {i}) \cup {j}
      /\ \A d \in Controllers \ {c} : hand'[d] = hand[d]
  BY <1>2, <1>3, PutItem
<1>5. Pending' = Pending
  BY <1>3 DEF Pending
<1>6. Claimed'
  BY <1>2, <1>3, <1>4, <1>5 DEF Claimed, TInv
<1>7. Exclusive'
  <2>1. SUFFICES ASSUME NEW a \in Controllers, NEW b \in Controllers,
                        NEW x \in hand'[a], NEW y \in hand'[b], x.id = y.id
                 PROVE  a = b /\ x = y
    BY DEF Exclusive
  <2>2. CASE x \in hand[a] /\ x.id # i.id /\ y \in hand[b] /\ y.id # i.id
    BY <2>1, <2>2 DEF TInv, Exclusive
  <2>3. CASE a = c /\ x = j
    BY <1>2, <1>4, <2>1, <2>3
  <2>4. CASE b = c /\ y = j
    BY <1>2, <1>4, <2>1, <2>4
  <2> QED
    BY <1>4, <2>2, <2>3, <2>4
<1>8. ASSUME NEW d \in Controllers \ {c} PROVE OnTime(d)'
  <2>1. hand'[d] = hand[d]
    BY <1>4
  <2>2. \A x \in hand[d] : Continues(x, x)
    BY ItemFacts, Bounds, ContinuesItself DEF IInv
  <2> QED
    BY <1>3, <2>1, <2>2, OnTimeStays
<1>9. OnTime(c)'
  <2>1. PICK e, n \in Nat, place \in [Ids -> Nat] : Schedule(c, e, n, place)
    BY DEF TInv, OnTime
  <2> DEFINE placed == [place EXCEPT ![i.id] = n]
  <2>2. placed \in [Ids -> Nat] /\ placed[i.id] = n
        /\ \A id \in Ids \ {i.id} : placed[id] = place[id]
    BY <1>1, <2>1
  <2> HIDE DEF placed
  <2>3. WaitingIds(c)' = WaitingIds(c) \ {i.id}
    <3>1. \A x \in hand[c] : x.id = i.id => x = i
      BY DEF TInv, Exclusive
    <3>2. \A x \in hand'[c] : x.stage = "waiting" => x \in hand[c] /\ x.id # i.id
      BY <1>2, <1>4
    <3>3. \A x \in hand[c] : x.id # i.id => x \in hand'[c]
      BY <1>4
    <3> QED
      BY <3>1, <3>2, <3>3 DEF WaitingIds
  <2>4. i.id \in WaitingIds(c)
    BY <1>1 DEF WaitingIds
  <2>5. Cardinality(WaitingIds(c)') = Cardinality(WaitingIds(c)) - 1
        /\ Cardinality(WaitingIds(c)) \in Nat
    BY <2>3, <2>4, WaitingFinite, FS_RemoveElement
  <2>6. e <= Due(n) /\ Due(n) \in Nat /\ Due(n) <= Due(n + 1) /\ Due(n + 1) \in Nat
    BY <2>1, <2>4, DueFacts DEF Schedule
  <2>7. e <= Rounds * ItemTimeout
    BY <2>1 DEF Schedule
  <2>8. \A x \in hand'[c] : rows'[x.id].lease + e = Lease
    BY <1>2, <1>3, <1>4, <2>1 DEF Schedule
  <2>9. Cardinality(WaitingIds(c)') + (n + 1) <= BatchSize
    BY <2>1, <2>5, OptionTypes DEF Schedule
  <2>10. e <= Due(n + 1)
    BY <2>6
  <2>11. ASSUME NEW x \in hand'[c], InHandler(x)
         PROVE  placed[x.id] < n + 1 /\ e + x.left <= Due(placed[x.id]) + ItemTimeout
    <3>1. CASE x = j
      BY <1>2, <2>2, <2>6, <3>1, OptionTypes
    <3>2. CASE x \in hand[c] /\ x.id # i.id
      <4>1. place[x.id] < n /\ e + x.left <= Due(place[x.id]) + ItemTimeout
        BY <2>1, <2>11, <3>2 DEF Schedule
      <4>2. x.id \in Ids
        BY <3>2, ItemFacts DEF IInv
      <4> QED
        BY <2>2, <3>2, <4>1, <4>2
    <3> QED
      BY <1>4, <3>1, <3>2
  <2>12. ASSUME NEW x \in hand'[c], NEW y \in hand'[c],
                InHandler(x), InHandler(y), placed[x.id] = placed[y.id]
         PROVE  x.id = y.id
    <3>1. \A z \in hand'[c] : InHandler(z) =>
            \/ z = j
            \/ z \in hand[c] /\ z.id \in Ids /\ z.id # i.id /\ placed[z.id] = place[z.id]
               /\ place[z.id] < n
      BY <1>4, <2>1, <2>2, ItemFacts DEF IInv, Schedule
    <3>2. placed[j.id] = n
      BY <1>2, <2>2
    <3> QED
      BY <2>1, <2>12, <3>1, <3>2 DEF Schedule
  <2>13. Schedule(c, e, n + 1, placed)'
    BY <2>7, <2>8, <2>9, <2>10, <2>11, <2>12 DEF Schedule, Due, Round, ItemTimeout, Rounds,
       InHandler
  <2> QED
    BY <2>2, <2>13 DEF OnTime
<1> QED
  BY <1>6, <1>7, <1>8, <1>9 DEF TInv

\* A batch is claimed: no row of it is held by anyone.
LEMMA Claiming ==
  ASSUME IInv, IInv', TInv, Prompt, NEW c \in Controllers, NEW batch \in Batches,
         Claim(c, batch)
  PROVE  TInv'
<1>1. /\ batch \subseteq Pending /\ batch \subseteq Ids
      /\ \A id \in batch : rows[id].lease = 0
      /\ Cardinality(batch) \in 1..BatchSize
  BY DEF Batches, Ready, Pending
<1>2. /\ hand \in [Controllers -> SUBSET Item] /\ hand[c] = {}
      /\ hand'[c] = {ItemOf(id) : id \in batch}
      /\ \A d \in Controllers \ {c} : hand'[d] = hand[d]
  BY DEF IInv, TypeOK, Claim
<1>3. RowsKept
  BY <1>1, LeasedKeeps DEF Claim, IInv
<1>4. \A id \in Pending : rows'[id].state = "pending" /\ rows'[id].key = rows[id].key
  BY <1>3 DEF RowsKept, RowKept, Pending, Exists
<1>5. \A id \in batch : rows'[id].lease = Lease
  <2>1. SUFFICES ASSUME NEW id \in batch PROVE rows'[id].lease = Lease
    OBVIOUS
  <2>2. rows[id] \in Live
    BY <1>1, LiveExists DEF IInv, Pending, Exists
  <2>3. rows'[id] = [rows[id] EXCEPT !.lease = Lease, !.attempts = Attempted(id)]
    BY <1>1 DEF Claim, Leased
  <2> QED
    BY <2>2, <2>3 DEF Live
<1>6. \A id \in Ids \ batch : rows'[id] = rows[id]
  BY DEF Claim, Leased
<1>7. \A x \in hand'[c] : x.id \in batch /\ x = ItemOf(x.id) /\ x.key = rows[x.id].key
                          /\ x.stage = "waiting"
  BY <1>2 DEF ItemOf
<1>8. \A d \in Controllers : \A x \in hand[d] : x.id \in Ids \ batch /\ x.id \in Pending
  <2>1. SUFFICES ASSUME NEW d \in Controllers, NEW x \in hand[d]
                 PROVE  x.id \in Ids \ batch /\ x.id \in Pending
    OBVIOUS
  <2>2. rows[x.id].lease # 0 /\ x.id \in Pending
    BY HeldIsLeased
  <2> QED
    BY <1>1, <2>2 DEF Pending
<1>9. Claimed'
  <2>1. SUFFICES ASSUME NEW d \in Controllers, NEW x \in hand'[d]
                 PROVE  x.id \in Pending' /\ rows'[x.id].key = x.key
    BY DEF Claimed
  <2>2. x.id \in Pending /\ rows[x.id].key = x.key
    BY <1>1, <1>2, <1>7 DEF TInv, Claimed
  <2> QED
    BY <1>4, <2>2 DEF Pending
<1>10. Exclusive'
  <2>1. SUFFICES ASSUME NEW a \in Controllers, NEW b \in Controllers,
                        NEW x \in hand'[a], NEW y \in hand'[b], x.id = y.id
                 PROVE  a = b /\ x = y
    BY DEF Exclusive
  <2>2. CASE a = c /\ b = c
    BY <1>7, <2>1, <2>2
  <2>3. CASE a # c /\ b # c
    BY <1>2, <2>1, <2>3 DEF TInv, Exclusive
  <2>4. CASE a = c /\ b # c
    BY <1>2, <1>7, <1>8, <2>1, <2>4
  <2>5. CASE a # c /\ b = c
    BY <1>2, <1>7, <1>8, <2>1, <2>5
  <2> QED
    BY <2>2, <2>3, <2>4, <2>5
<1>11. ASSUME NEW d \in Controllers \ {c} PROVE OnTime(d)'
  <2>1. hand'[d] = hand[d]
    BY <1>2
  <2>2. \A x \in hand[d] : Continues(x, x) /\ rows'[x.id] = rows[x.id]
    BY <1>6, <1>8, ItemFacts, Bounds, ContinuesItself DEF IInv
  <2> QED
    BY <2>1, <2>2, OnTimeStays
<1>12. OnTime(c)'
  <2>1. WaitingIds(c)' = batch
    <3>1. \A id \in batch : /\ ItemOf(id) \in hand'[c] /\ id \in Ids
                            /\ ItemOf(id).id = id /\ ItemOf(id).stage = "waiting"
      BY <1>1, <1>2 DEF ItemOf
    <3> QED
      BY <1>7, <3>1 DEF WaitingIds
  <2>2. Cardinality(WaitingIds(c)') + 0 <= BatchSize
    BY <1>1, <2>1, OptionTypes
  <2>3. 0 <= Due(0) /\ 0 <= Rounds * ItemTimeout
    BY DueFacts, OptionTypes
  <2>4. \A x \in hand'[c] : rows'[x.id].lease + 0 = Lease
    BY <1>5, <1>7, OptionTypes
  <2>5. \A x \in hand'[c] : ~InHandler(x)
    BY <1>7 DEF InHandler
  <2>6. PICK place : place = [id \in Ids |-> 0]
    OBVIOUS
  <2>7. place \in [Ids -> Nat]
    BY <2>6
  <2>8. Schedule(c, 0, 0, place)'
    BY <2>2, <2>3, <2>4, <2>5 DEF Schedule, Due, Round, ItemTimeout, Rounds, InHandler
  <2> QED
    BY <2>7, <2>8 DEF OnTime
<1> QED
  BY <1>9, <1>10, <1>11, <1>12 DEF TInv

\* When a tick finds items waiting, all workers are in handlers, and the first
\* of those to be started was started at least a round earlier.
LEMMA WorkersFull ==
  ASSUME IInv, TInv, NEW c \in Controllers, NEW e \in Nat, NEW n \in Nat,
         NEW place \in [Ids -> Nat], Schedule(c, e, n, place),
         ~(Cardinality(Busy(c)) < Workers), \A i \in Busy(c) : InHandler(i)
  PROVE  \E i \in Busy(c) : place[i.id] + Workers <= n
<1>1. SUFFICES ASSUME \A i \in Busy(c) : n < place[i.id] + Workers PROVE FALSE
  <2>1. \A i \in Busy(c) : place[i.id] \in Nat
    BY ItemFacts DEF IInv, Busy
  <2> QED
    BY <1>1, <2>1, OptionTypes
<1> DEFINE Places == (n - Workers + 1)..(n - 1)
           at     == [i \in Busy(c) |-> place[i.id]]
<1>2. IsFiniteSet(Places) /\ Cardinality(Places) = Workers - 1
  <2> DEFINE a == n - Workers + 1
             b == n - 1
  <2>1. a \in Int /\ b \in Int /\ b - a + 1 = Workers - 1 /\ (a > b => Workers - 1 = 0)
    BY OptionTypes
  <2> HIDE DEF a, b
  <2>2. /\ IsFiniteSet(a..b)
        /\ Cardinality(a..b) = IF a > b THEN 0 ELSE b - a + 1
    BY <2>1, FS_Interval
  <2>3. IsFiniteSet(a..b) /\ Cardinality(a..b) = Workers - 1
    BY <2>1, <2>2
  <2> QED
    BY <2>3 DEF a, b
<1>3. \A i \in Busy(c) : place[i.id] \in Places
  <2>1. SUFFICES ASSUME NEW i \in Busy(c) PROVE place[i.id] \in Places
    OBVIOUS
  <2>2. place[i.id] < n /\ place[i.id] \in Nat
    BY ItemFacts DEF IInv, Busy, Schedule
  <2>3. n < place[i.id] + Workers
    BY <1>1
  <2> QED
    BY <2>2, <2>3, OptionTypes
<1> HIDE DEF Places
<1>4. \A i, j \in Busy(c) : place[i.id] = place[j.id] => i = j
  BY DEF Busy, Schedule, TInv, Exclusive
<1>5. at \in Injection(Busy(c), Places)
  BY <1>3, <1>4 DEF Injection, IsInjective
<1>6. Cardinality(Busy(c)) <= Workers - 1 /\ IsFiniteSet(Busy(c))
  BY <1>2, <1>5, FS_Injection
<1>7. Cardinality(Busy(c)) \in Nat
  BY <1>6, FS_CardinalityType
<1> QED
  BY <1>6, <1>7, OptionTypes

\* A batch is done with, or all its rows are given back, before its lease ends.
LEMMA TimeRemains ==
  ASSUME IInv, TInv, Prompt, Tick, NEW c \in Controllers, hand[c] # {},
         NEW e \in Nat, NEW n \in Nat, NEW place \in [Ids -> Nat],
         Schedule(c, e, n, place)
  PROVE  /\ e + 1 <= Rounds * ItemTimeout
         /\ WaitingIds(c) # {} => e + 1 <= Due(n)
         /\ \A i \in hand[c] : InHandler(i) => i.left \in Nat \ {0}
<1>1. \A i \in hand[c] : i.stage \in Stages /\ i.left \in Nat /\ i.id \in Ids
  BY ItemFacts, Bounds DEF IInv, Item
<1>2. \A i \in hand[c] : ~Urgent(c, i)
  BY DEF Tick
<1>3. \A i \in hand[c] : i.stage = "waiting" \/ InHandler(i)
  BY <1>1, <1>2 DEF Urgent, Prompt
<1>4. \A i \in hand[c] : InHandler(i) => i.left \in Nat \ {0}
  BY <1>1, <1>2 DEF Urgent
<1>5. \A i \in Busy(c) : InHandler(i)
  BY <1>3 DEF Busy
<1>6. \A i \in hand[c] : InHandler(i) => e + 1 <= Due(place[i.id]) + ItemTimeout
                                         /\ Due(place[i.id]) \in Nat /\ place[i.id] \in Nat
                                         /\ place[i.id] < n
  <2>1. SUFFICES ASSUME NEW i \in hand[c], InHandler(i)
                 PROVE  e + 1 <= Due(place[i.id]) + ItemTimeout
                        /\ Due(place[i.id]) \in Nat /\ place[i.id] \in Nat
                        /\ place[i.id] < n
    OBVIOUS
  <2>2. e + i.left <= Due(place[i.id]) + ItemTimeout /\ place[i.id] < n
    BY <2>1 DEF Schedule
  <2>3. place[i.id] \in Nat /\ Due(place[i.id]) \in Nat /\ i.left \in Nat \ {0}
    BY <1>1, <1>4, <2>1, DueFacts
  <2> QED
    BY <2>2, <2>3, OptionTypes
<1>7. Cardinality(WaitingIds(c)) + n <= BatchSize /\ Cardinality(WaitingIds(c)) \in Nat
  BY WaitingFinite DEF Schedule
<1>8. CASE WaitingIds(c) # {}
  <2>1. ~(Cardinality(Busy(c)) < Workers)
    BY <1>2, <1>8 DEF WaitingIds, Urgent, InHandler, Prompt
  <2>2. PICK i \in Busy(c) : place[i.id] + Workers <= n
    BY <1>5, <2>1, WorkersFull
  <2>3. i \in hand[c] /\ InHandler(i)
    BY <1>5 DEF Busy
  <2>4. Due(place[i.id]) + ItemTimeout <= Due(n) /\ Due(n) \in Nat
    BY <1>6, <2>2, <2>3, DueFacts
  <2>5. e + 1 <= Due(n)
    BY <1>6, <2>3, <2>4, OptionTypes
  <2>6. Cardinality(WaitingIds(c)) # 0
    BY <1>8, WaitingFinite, FS_EmptySet
  <2>7. n < BatchSize
    BY <1>7, <2>6, OptionTypes
  <2>8. Due(n) + ItemTimeout <= Rounds * ItemTimeout
    BY <2>7, DueFacts
  <2> QED
    BY <1>4, <2>4, <2>5, <2>8, OptionTypes
<1>9. CASE WaitingIds(c) = {}
  <2>1. PICK i \in hand[c] : InHandler(i)
    BY <1>1, <1>3, <1>9 DEF WaitingIds
  <2>2. place[i.id] < BatchSize
    BY <1>6, <1>7, <2>1, OptionTypes
  <2>3. Due(place[i.id]) + ItemTimeout <= Rounds * ItemTimeout
    BY <1>6, <2>1, <2>2, DueFacts
  <2> QED
    BY <1>4, <1>6, <1>9, <2>1, <2>3, OptionTypes
<1> QED
  BY <1>8, <1>9

LEMMA Ticking ==
  ASSUME IInv, IInv', TInv, Prompt, Tick
  PROVE  TInv'
<1> DEFINE Aged(i) == [i EXCEPT !.left = Less(@)]
<1>1. RowsKept
  BY AgingKeeps DEF IInv
<1>2. Pending' = Pending /\ \A id \in Pending : rows'[id].key = rows[id].key
  BY <1>1 DEF RowsKept, RowKept, Pending, Exists
<1>3. \A id \in Pending : rows'[id].lease = Less(rows[id].lease) /\ rows[id].lease \in Nat
  <2>1. SUFFICES ASSUME NEW id \in Pending
                 PROVE  rows'[id].lease = Less(rows[id].lease) /\ rows[id].lease \in Nat
    OBVIOUS
  <2>2. rows[id] \in Live /\ rows[id] # NoRow
    BY LiveExists DEF IInv, Pending, Exists, NoRow
  <2>3. rows'[id] = [rows[id] EXCEPT !.available = Less(@), !.lease = Less(@),
                                     !.keep = Less(@)]
    BY <2>2 DEF Tick, Pending
  <2> QED
    BY <2>2, <2>3, Bounds DEF Live
<1>4. \A c \in Controllers : hand'[c] = {Aged(i) : i \in hand[c]}
  BY DEF Tick
<1>5. \A c \in Controllers : \A i \in hand[c] :
        /\ Aged(i).id = i.id /\ Aged(i).key = i.key /\ Aged(i).stage = i.stage
        /\ Aged(i).left = Less(i.left)
        /\ i.id \in Pending /\ i.id \in Ids /\ rows[i.id].key = i.key
  BY ItemFacts DEF IInv, Item, TInv, Claimed
<1> HIDE DEF Aged
<1>6. \A c \in Controllers : \A j \in hand'[c] : \E i \in hand[c] : j = Aged(i)
  BY <1>4
<1>7. Claimed'
  BY <1>2, <1>5, <1>6 DEF Claimed
<1>8. Exclusive'
  <2>1. SUFFICES ASSUME NEW c \in Controllers, NEW d \in Controllers,
                        NEW i \in hand'[c], NEW j \in hand'[d], i.id = j.id
                 PROVE  c = d /\ i = j
    BY DEF Exclusive
  <2>2. PICK x \in hand[c] : i = Aged(x)
    BY <1>6
  <2>3. PICK y \in hand[d] : j = Aged(y)
    BY <1>6
  <2>4. x.id = y.id
    BY <1>5, <2>1, <2>2, <2>3
  <2>5. c = d /\ x = y
    BY <2>4 DEF TInv, Exclusive
  <2> QED
    BY <2>2, <2>3, <2>5
<1>9. ASSUME NEW c \in Controllers PROVE OnTime(c)'
  <2>1. PICK e, n \in Nat, place \in [Ids -> Nat] : Schedule(c, e, n, place)
    BY DEF TInv, OnTime
  <2>2. WaitingIds(c)' = WaitingIds(c)
    BY <1>4, <1>5, <1>6 DEF WaitingIds
  <2>3. CASE hand[c] = {}
    <3>1. hand'[c] = {}
      BY <1>4, <2>3
    <3>2. Schedule(c, e, n, place)'
      BY <2>1, <2>2, <3>1 DEF Schedule, WaitingIds
    <3> QED
      BY <3>2 DEF OnTime
  <2>4. CASE hand[c] # {}
    <3>1. /\ e + 1 <= Rounds * ItemTimeout
          /\ WaitingIds(c) # {} => e + 1 <= Due(n)
          /\ \A i \in hand[c] : InHandler(i) => i.left \in Nat \ {0}
      BY <2>1, <2>4, TimeRemains
    <3>2. \A i \in hand[c] : rows'[i.id].lease + (e + 1) = Lease
      <4>1. SUFFICES ASSUME NEW i \in hand[c]
                     PROVE  rows'[i.id].lease + (e + 1) = Lease
        OBVIOUS
      <4>2. rows[i.id].lease + e = Lease /\ rows[i.id].lease # 0
        BY <2>1, HeldIsLeased DEF Schedule
      <4>3. rows'[i.id].lease = Less(rows[i.id].lease) /\ rows[i.id].lease \in Nat
        BY <1>3, <1>5
      <4> QED
        BY <2>1, <4>2, <4>3, OptionTypes DEF Less
    <3>3. \A j \in hand'[c] : rows'[j.id].lease + (e + 1) = Lease
      BY <1>5, <1>6, <3>2
    <3>4. ASSUME NEW j \in hand'[c], InHandler(j)
          PROVE  place[j.id] < n /\ (e + 1) + j.left <= Due(place[j.id]) + ItemTimeout
      <4>1. PICK i \in hand[c] : j = Aged(i)
        BY <1>6
      <4>2. InHandler(i) /\ j.id = i.id /\ j.left = Less(i.left)
        BY <1>5, <3>4, <4>1 DEF InHandler
      <4>3. place[i.id] < n /\ e + i.left <= Due(place[i.id]) + ItemTimeout
        BY <2>1, <4>2 DEF Schedule
      <4>4. i.left \in Nat \ {0}
        BY <3>1, <4>2
      <4>5. (e + 1) + Less(i.left) = e + i.left
        BY <2>1, <4>4 DEF Less
      <4> QED
        BY <4>2, <4>3, <4>5
    <3>5. ASSUME NEW i \in hand'[c], NEW j \in hand'[c],
                 InHandler(i), InHandler(j), place[i.id] = place[j.id]
          PROVE  i.id = j.id
      <4>1. PICK x \in hand[c] : i = Aged(x)
        BY <1>6
      <4>2. PICK y \in hand[c] : j = Aged(y)
        BY <1>6
      <4>3. InHandler(x) /\ InHandler(y) /\ x.id = i.id /\ y.id = j.id
        BY <1>5, <3>5, <4>1, <4>2 DEF InHandler
      <4> QED
        BY <2>1, <3>5, <4>3 DEF Schedule
    <3>6. Cardinality(WaitingIds(c)) + n <= BatchSize
      BY <2>1 DEF Schedule
    <3>7. Schedule(c, e + 1, n, place)'
      BY <2>2, <3>1, <3>3, <3>4, <3>5, <3>6 DEF Schedule, Due, Round, ItemTimeout, Rounds,
         InHandler
    <3> QED
      BY <3>7 DEF OnTime
  <2> QED
    BY <2>3, <2>4
<1> QED
  BY <1>7, <1>8, <1>9 DEF TInv

LEMMA ScheduleStays ==
  ASSUME IInv, IInv', TInv, Prompt, [Next]_vars
  PROVE  TInv'
<1>1. ASSUME NEW k \in Keys, Enqueue(k) PROVE TInv'
  <2>1. \A c \in Controllers : \A i \in hand[c] : i.id \in Pending
    BY DEF TInv, Claimed
  <2>2. hand' = hand /\ \A id \in Pending : RowHeld(id)
    BY <1>1, InsertHolds DEF Enqueue
  <2> QED
    BY <2>1, <2>2, DropCarriesOn
<1>2. ASSUME NEW c \in Controllers, NEW batch \in Batches, Claim(c, batch) PROVE TInv'
  BY <1>2, Claiming
<1>3. ASSUME NEW c \in Controllers, NEW i \in hand[c], Advance(c, i) PROVE TInv'
  BY <1>3, Starting, ItemCarriesOn, LettingGo DEF Advance
<1>4. ASSUME NEW c \in Controllers, NEW i \in hand[c], SettleFails(c, i) PROVE TInv'
  BY <1>4, LettingGo
<1>5. ASSUME NEW c \in Controllers, Crash(c) PROVE TInv'
  <2>1. hand \in [Controllers -> SUBSET Item]
    BY DEF IInv, TypeOK
  <2>2. \A d \in Controllers : hand'[d] \subseteq hand[d]
    BY <1>5, <2>1 DEF Crash
  <2>3. \A d \in Controllers : \A j \in hand'[d] : j.id \in Pending
    BY <2>2 DEF TInv, Claimed
  <2> QED
    BY <1>5, <2>2, <2>3, SameRowsHeld, DropCarriesOn DEF Crash
<1>6. CASE Prune
  <2>1. \A id \in Pending : RowHeld(id)
    BY <1>6 DEF Prune, RowHeld, Pending
  <2>2. hand' = hand /\ \A c \in Controllers : \A i \in hand[c] : i.id \in Pending
    BY <1>6 DEF Prune, TInv, Claimed
  <2> QED
    BY <2>1, <2>2, DropCarriesOn
<1>7. CASE Tick
  BY <1>7, Ticking
<1>8. CASE UNCHANGED vars
  <2>1. hand' = hand /\ rows' = rows /\ \A c \in Controllers : \A i \in hand[c] : i.id \in Pending
    BY <1>8 DEF vars, TInv, Claimed
  <2> QED
    BY <2>1, SameRowsHeld, DropCarriesOn
<1> QED
  BY <1>1, <1>2, <1>3, <1>4, <1>5, <1>6, <1>7, <1>8 DEF Next

LEMMA ScheduleStarts == Init => TInv
<1> SUFFICES ASSUME Init PROVE TInv
  OBVIOUS
<1>1. \A c \in Controllers : hand[c] = {}
  BY DEF Init
<1>2. ASSUME NEW c \in Controllers PROVE OnTime(c)
  <2>1. WaitingIds(c) = {}
    BY <1>1 DEF WaitingIds
  <2>2. Cardinality(WaitingIds(c)) + 0 <= BatchSize
    BY <2>1, FS_EmptySet, OptionTypes
  <2>3. PICK place : place = [id \in Ids |-> 0]
    OBVIOUS
  <2>4. place \in [Ids -> Nat] /\ 0 \in Nat
    BY <2>3
  <2>5. Schedule(c, 0, 0, place)
    BY <1>1, <2>1, <2>2 DEF Schedule
  <2> QED
    BY <2>4, <2>5 DEF OnTime
<1> QED
  BY <1>1, <1>2 DEF TInv, Claimed, Exclusive

\* Prompt controllers keep to their batches' schedules.
THEOREM OnSchedule == ASSUME Prompt PROVE Spec => [](IInv /\ TInv)
<1>1. IInv /\ TInv /\ [Next]_vars => (IInv /\ TInv)'
  BY NextKeeps, ScheduleStays
<1>2. Init => IInv /\ TInv
  BY Initially, ScheduleStarts
<1> QED
  BY <1>1, <1>2, PTL DEF Spec

LEMMA AloneWithItsKey == IInv /\ TInv => OneDeliveryPerKey
<1> SUFFICES ASSUME IInv, TInv, NEW c \in Controllers, NEW d \in Controllers,
                    NEW i \in hand[c], NEW j \in hand[d], i.key = j.key
             PROVE  c = d /\ i = j
  BY DEF OneDeliveryPerKey
<1>1. i.id = j.id
  BY DEF IInv, OnePendingRow, TInv, Claimed
<1> QED
  BY <1>1 DEF TInv, Exclusive

\* With time lost only in handlers, and a lease of six units or more, two
\* handlers never work for one key at once, for any number of controllers,
\* workers and items in a batch: the deadline safeItemTimeout works out lets a
\* controller be done with its whole batch before the batch's lease ends.
THEOREM DeliveriesDoNotOverlap == ASSUME Prompt PROVE Spec => []OneDeliveryPerKey
  BY OnSchedule, AloneWithItsKey, PTL

-----------------------------------------------------------------------------
(* The newest intent.                                                      *)

\* A reconcile key's pending row holds the newest intent ...
PendingIsNewest ==
  \A id \in Pending : Mode[rows[id].key] = "reconcile" =>
    rows[id].intent = wanted[rows[id].key]

\* ... and what an item brought to its target system is still there.
ReachedIsThere ==
  \A c \in Controllers : \A i \in hand[c] :
    i.stage \in {"reached", "delivered"} => external[i.key] = i.intent

NInv == PendingIsNewest /\ ReachedIsThere /\ NewestWins

LEMMA InsertIsNewest ==
  ASSUME IInv, TInv, NInv, NEW k \in Keys, Insert(k), external' = external
  PROVE  PendingIsNewest' /\ NewestWins'
<1>1. PICK n \in Intents : n = enqueued + 1
  BY InsertCases DEF Intents
<1>2. rows \in [Ids -> Row] /\ wanted \in [Keys -> 0..MaxIntents]
  BY DEF IInv, TypeOK
<1>3. \A id \in Pending : RowHeld(id)
  BY InsertHolds
<1>4. Pending \subseteq Pending'
  BY <1>3 DEF RowHeld, Pending
<1>5. \A id \in Pending : rows'[id].key = rows[id].key
  BY <1>3 DEF RowHeld
<1>6. CASE rows' = rows
  BY <1>6 DEF Insert, NInv, PendingIsNewest, NewestWins, Pending
<1>7. CASE rows' # rows /\ (Added(k, n) \/ Coalesced(k, n))
  <2>1. wanted'[k] = n /\ \A l \in Keys \ {k} : wanted'[l] = wanted[l]
    BY <1>1, <1>2, <1>7 DEF Insert
  <2>2. /\ \A id \in Pending' : /\ rows'[id].key = k => rows'[id].intent = n
                                /\ rows'[id].key # k => id \in Pending /\ rows'[id] = rows[id]
        /\ \E id \in Pending' : rows'[id].key = k
    <3>1. CASE Added(k, n)
      <4>1. /\ n \in Ids /\ rows'[n] = NewRow(k, n)
            /\ \A id \in Ids \ {n} : rows'[id] = rows[id]
            /\ \A id \in Pending : rows[id].key # k
        BY <1>2, <3>1 DEF Added
      <4>2. rows'[n].key = k /\ rows'[n].intent = n /\ rows'[n].state = "pending"
        BY <4>1 DEF NewRow
      <4> QED
        BY <4>1, <4>2 DEF Pending
    <3>2. CASE Coalesced(k, n)
      <4>1. \A id \in Ids : id \in Pending /\ rows[id].key = k =>
              rows'[id].state = "pending" /\ rows'[id].key = k /\ rows'[id].intent = n
        BY <1>1, <3>2, CoalescedRows
      <4>2. \A id \in Ids : ~(id \in Pending /\ rows[id].key = k) => rows'[id] = rows[id]
        BY <3>2 DEF Coalesced
      <4>3. \E id \in Pending : rows[id].key = k
        BY <3>2 DEF Coalesced
      <4> QED
        BY <4>1, <4>2, <4>3 DEF Pending
    <3> QED
      BY <1>7, <3>1, <3>2
  <2>3. PendingIsNewest'
    <3>1. SUFFICES ASSUME NEW id \in Pending', Mode[rows'[id].key] = "reconcile"
                   PROVE  rows'[id].intent = wanted'[rows'[id].key]
      BY DEF PendingIsNewest
    <3>2. CASE rows'[id].key = k
      BY <2>1, <2>2, <3>2
    <3>3. CASE rows'[id].key # k
      <4>1. id \in Pending /\ rows'[id] = rows[id] /\ rows[id] \in Live
        BY <2>2, <3>3, LiveExists DEF IInv, Pending, Exists
      <4> QED
        BY <2>1, <3>1, <3>3, <4>1 DEF NInv, PendingIsNewest, Live
    <3> QED
      BY <3>2, <3>3
  <2>4. NewestWins'
    <3>1. SUFFICES ASSUME NEW l \in Keys, Mode[l] = "reconcile",
                          \A id \in Pending' : rows'[id].key # l
                   PROVE  external[l] = wanted'[l]
      BY DEF NewestWins
    <3>2. l # k
      BY <2>2, <3>1
    <3>3. \A id \in Pending : rows[id].key # l
      BY <1>4, <1>5, <3>1
    <3> QED
      BY <2>1, <3>1, <3>2, <3>3 DEF NInv, NewestWins
  <2> QED
    BY <2>3, <2>4
<1> QED
  BY <1>1, <1>6, <1>7, InsertCases

\* A step that accepts nothing, keeps every pending row pending, and brings
\* nothing to a target.
LEMMA KeptIsNewest ==
  ASSUME IInv, NInv, RowsKept, wanted' = wanted, external' = external
  PROVE  PendingIsNewest' /\ NewestWins'
<1>1. Pending' = Pending
  BY DEF Pending, RowsKept, RowKept
<1>2. \A id \in Pending : rows'[id].key = rows[id].key /\ rows'[id].intent = rows[id].intent
  BY DEF Pending, Exists, RowsKept, RowKept
<1> QED
  BY <1>1, <1>2 DEF NInv, PendingIsNewest, NewestWins

\* What has reached its target was there, but for a Reach.
LEMMA ReachedStays ==
  ASSUME NInv, external' = external,
         \A c \in Controllers : \A j \in hand'[c] : j.stage \in {"reached", "delivered"} =>
           \E i \in hand[c] : /\ i.stage \in {"reached", "delivered"}
                              /\ i.key = j.key /\ i.intent = j.intent
  PROVE  ReachedIsThere'
  BY DEF NInv, ReachedIsThere

\* The row of an item that reaches its target is pending, and nobody else has
\* an item of that key.
LEMMA ReachIsNewest ==
  ASSUME IInv, TInv, NInv, NEW c \in Controllers, NEW i \in hand[c], Reach(c, i)
  PROVE  NInv'
<1>1. i \in Item /\ i.key \in Keys /\ i.id \in Pending /\ rows[i.id].key = i.key
  BY ItemFacts DEF IInv, TInv, Claimed
<1> DEFINE j == [i EXCEPT !.stage = "reached"]
<1>2. j.id = i.id /\ j.key = i.key /\ j.intent = i.intent
  BY <1>1 DEF Item
<1>3. Put(c, i, j)
  BY DEF Reach
<1> HIDE DEF j
<1>4. \A d \in Controllers : \A x \in hand'[d] :
        (d = c /\ x = j) \/ (x \in hand[d] /\ x.id # i.id)
  BY <1>2, <1>3, PutItem
<1>5. external'[i.key] = i.intent /\ \A k \in Keys \ {i.key} : external'[k] = external[k]
  BY <1>1 DEF Reach, IInv, TypeOK
<1>6. rows' = rows /\ wanted' = wanted /\ Pending' = Pending
  BY DEF Reach, Pending
<1>7. ReachedIsThere'
  <2>1. SUFFICES ASSUME NEW d \in Controllers, NEW x \in hand'[d],
                        x.stage \in {"reached", "delivered"}
                 PROVE  external'[x.key] = x.intent
    BY DEF ReachedIsThere
  <2>2. CASE x = j
    BY <1>2, <1>5, <2>2
  <2>3. CASE x \in hand[d] /\ x.id # i.id
    <3>1. x.id \in Pending /\ rows[x.id].key = x.key /\ x.key \in Keys
      BY <2>3, ItemFacts DEF IInv, TInv, Claimed
    <3>2. x.key # i.key
      BY <1>1, <2>3, <3>1 DEF IInv, OnePendingRow
    <3> QED
      BY <1>5, <2>1, <2>3, <3>1, <3>2 DEF NInv, ReachedIsThere
  <2> QED
    BY <1>4, <2>2, <2>3
<1>8. PendingIsNewest'
  BY <1>6 DEF NInv, PendingIsNewest
<1>9. NewestWins'
  BY <1>1, <1>5, <1>6 DEF NInv, NewestWins
<1> QED
  BY <1>7, <1>8, <1>9 DEF NInv

\* A completed row held the newest intent, and its target has it.
LEMMA CompleteIsNewest ==
  ASSUME IInv, TInv, NInv, NEW c \in Controllers, NEW i \in hand[c], Complete(c, i)
  PROVE  PendingIsNewest' /\ NewestWins'
<1>1. i.id \in Pending /\ rows[i.id].key = i.key /\ i.key \in Keys
  BY ItemFacts DEF IInv, TInv, Claimed
<1>2. rows[i.id].intent = i.intent
  BY <1>1 DEF IInv, ItemsFenced, Fenced, Complete, Current, Pending, Exists
<1>3. external[i.key] = i.intent
  BY DEF Complete, NInv, ReachedIsThere
<1>4. rows \in [Ids -> Row] /\ rows[i.id] \in Live
  BY <1>1, LiveExists DEF IInv, TypeOK, Pending, Exists
<1>5. rows'[i.id].state = "processed" /\ \A id \in Ids \ {i.id} : rows'[id] = rows[id]
  BY <1>1, <1>4 DEF Complete, Processed, Pending, Live
<1>6. Pending' = Pending \ {i.id}
  BY <1>1, <1>5 DEF Pending
<1>7. wanted' = wanted /\ external' = external
  BY DEF Complete
<1>8. PendingIsNewest'
  BY <1>5, <1>6, <1>7 DEF NInv, PendingIsNewest, Pending
<1>9. NewestWins'
  <2>1. SUFFICES ASSUME NEW k \in Keys, Mode[k] = "reconcile",
                        \A id \in Pending' : rows'[id].key # k
                 PROVE  external[k] = wanted[k]
    BY <1>7 DEF NewestWins
  <2>2. CASE k = i.key
    BY <1>1, <1>2, <1>3, <2>1, <2>2 DEF NInv, PendingIsNewest
  <2>3. CASE k # i.key
    <3>1. \A id \in Pending : rows[id].key # k
      BY <1>1, <1>5, <1>6, <2>1, <2>3 DEF Pending
    <3> QED
      BY <2>1, <3>1 DEF NInv, NewestWins
  <2> QED
    BY <2>2, <2>3
<1> QED
  BY <1>8, <1>9

\* Items that were put back as j, in a stage other than reached, or dropped.
LEMMA PutReached ==
  ASSUME IInv, TInv, NInv, NEW c \in Controllers, NEW i \in hand[c], NEW j, j.id = i.id,
         Put(c, i, j), external' = external,
         j.stage \in {"reached", "delivered"} =>
           /\ i.stage \in {"reached", "delivered"}
           /\ j.key = i.key /\ j.intent = i.intent
  PROVE  ReachedIsThere'
<1>1. \A d \in Controllers : \A x \in hand'[d] : (d = c /\ x = j) \/ x \in hand[d]
  BY PutItem
<1> QED
  BY <1>1, ReachedStays

LEMMA DropReached ==
  ASSUME IInv, NInv, NEW c \in Controllers, NEW i \in hand[c], Drop(c, i),
         external' = external
  PROVE  ReachedIsThere'
<1>1. hand \in [Controllers -> SUBSET Item]
  BY DEF IInv, TypeOK
<1>2. \A d \in Controllers : hand'[d] \subseteq hand[d]
  BY <1>1 DEF Drop
<1> QED
  BY <1>2, ReachedStays

LEMMA RowsAsTheyWere ==
  ASSUME IInv, NInv, rows' = rows, wanted' = wanted, external' = external
  PROVE  PendingIsNewest' /\ NewestWins'
  BY SameRowsKept, KeptIsNewest

LEMMA ItemIsNewest ==
  ASSUME IInv, TInv, NInv, NEW c \in Controllers, NEW i \in hand[c],
         Advance(c, i) \/ SettleFails(c, i)
  PROVE  NInv'
<1>1. i \in Item /\ i.id \in Ids
  BY ItemFacts DEF IInv
<1>2. CASE Start(c, i) \/ NoHandler(c, i) \/ Fail(c, i) \/ ChainFails(c, i) \/ Superseded(c, i)
  <2>1. PICK j : Put(c, i, j) /\ j.id = i.id /\ j.stage \in {"delivering", "failed", "superseded"}
    <3>1. CASE Start(c, i)
      <4>1. [i EXCEPT !.stage = "delivering", !.left = ItemTimeout].id = i.id
            /\ [i EXCEPT !.stage = "delivering", !.left = ItemTimeout].stage = "delivering"
        BY <1>1 DEF Item
      <4> QED
        BY <3>1, <4>1 DEF Start
    <3>2. CASE NoHandler(c, i) \/ ChainFails(c, i)
      <4>1. [i EXCEPT !.stage = "failed"].id = i.id
            /\ [i EXCEPT !.stage = "failed"].stage = "failed"
        BY <1>1 DEF Item
      <4> QED
        BY <3>2, <4>1 DEF NoHandler, ChainFails
    <3>3. CASE Fail(c, i)
      <4>1. [i EXCEPT !.stage = "failed", !.left = 0].id = i.id
            /\ [i EXCEPT !.stage = "failed", !.left = 0].stage = "failed"
        BY <1>1 DEF Item
      <4> QED
        BY <3>3, <4>1 DEF Fail
    <3>4. CASE Superseded(c, i)
      <4>1. [i EXCEPT !.stage = "superseded"].id = i.id
            /\ [i EXCEPT !.stage = "superseded"].stage = "superseded"
        BY <1>1 DEF Item
      <4> QED
        BY <3>4, <4>1 DEF Superseded
    <3> QED
      BY <1>2, <3>1, <3>2, <3>3, <3>4
  <2>2. rows' = rows /\ wanted' = wanted /\ external' = external
    BY <1>2 DEF Start, NoHandler, Fail, ChainFails, Superseded
  <2> QED
    BY <2>1, <2>2, PutReached, RowsAsTheyWere DEF NInv
<1>3. CASE Reach(c, i)
  BY <1>3, ReachIsNewest
<1>4. CASE Succeed(c, i)
  <2> DEFINE j == [i EXCEPT !.stage = "delivered", !.left = 0]
  <2>1. j.id = i.id /\ j.key = i.key /\ j.intent = i.intent
    BY <1>1 DEF Item
  <2>2. Put(c, i, j) /\ i.stage = "reached"
    BY <1>4 DEF Succeed
  <2> HIDE DEF j
  <2>3. rows' = rows /\ wanted' = wanted /\ external' = external
    BY <1>4 DEF Succeed
  <2> QED
    BY <2>1, <2>2, <2>3, PutReached, RowsAsTheyWere DEF NInv
<1>5. CASE Chain(c, i)
  <2>1. PICK k \in i.todo : Insert(k) /\ Put(c, i, [i EXCEPT !.todo = @ \ {k}])
    BY <1>5 DEF Chain
  <2> DEFINE j == [i EXCEPT !.todo = @ \ {k}]
  <2>2. j.id = i.id /\ j.key = i.key /\ j.intent = i.intent /\ j.stage = i.stage
    BY <1>1 DEF Item
  <2>3. k \in Keys /\ external' = external /\ Put(c, i, j)
    BY <1>5, <2>1, ItemFacts DEF Chain, IInv
  <2> HIDE DEF j
  <2> QED
    BY <2>1, <2>2, <2>3, PutReached, InsertIsNewest DEF NInv
<1>6. CASE Complete(c, i)
  BY <1>6, CompleteIsNewest, DropReached DEF Complete, NInv
<1>7. CASE GiveBack(c, i)
  <2>1. PICK delay \in 0..MaxBackoff : Reschedule(i.id, delay)
    BY <1>7, BackoffBound, Bounds DEF GiveBack
  <2>2. RowsKept
    BY <1>1, <2>1, RescheduleKeeps DEF IInv
  <2> QED
    BY <1>7, <2>2, KeptIsNewest, DropReached DEF GiveBack, NInv
<1>8. CASE SettleFails(c, i)
  BY <1>8, RowsAsTheyWere, DropReached DEF SettleFails, NInv
<1> QED
  BY <1>2, <1>3, <1>4, <1>5, <1>6, <1>7, <1>8 DEF Advance

LEMMA NewestStays ==
  ASSUME IInv, TInv, NInv, [Next]_vars
  PROVE  NInv'
<1>1. ASSUME NEW k \in Keys, Enqueue(k) PROVE NInv'
  BY <1>1, InsertIsNewest, ReachedStays DEF Enqueue, NInv
<1>2. ASSUME NEW c \in Controllers, NEW batch \in Batches, Claim(c, batch) PROVE NInv'
  <2>1. batch \in SUBSET Pending
    BY DEF Batches, Ready
  <2>2. PendingIsNewest' /\ NewestWins'
    BY <1>2, <2>1, LeasedKeeps, KeptIsNewest DEF Claim, IInv
  <2>3. hand \in [Controllers -> SUBSET Item]
    BY DEF IInv, TypeOK
  <2>4. \A d \in Controllers : \A x \in hand'[d] : x \in hand[d] \/ x.stage = "waiting"
    BY <1>2, <2>3 DEF Claim, ItemOf
  <2>5. ReachedIsThere'
    BY <1>2, <2>4, ReachedStays DEF Claim
  <2> QED
    BY <2>2, <2>5 DEF NInv
<1>3. ASSUME NEW c \in Controllers, NEW i \in hand[c], Advance(c, i) \/ SettleFails(c, i)
      PROVE  NInv'
  BY <1>3, ItemIsNewest
<1>4. ASSUME NEW c \in Controllers, Crash(c) PROVE NInv'
  <2>1. hand \in [Controllers -> SUBSET Item]
    BY DEF IInv, TypeOK
  <2>2. \A d \in Controllers : hand'[d] \subseteq hand[d]
    BY <1>4, <2>1 DEF Crash
  <2> QED
    BY <1>4, <2>2, RowsAsTheyWere, ReachedStays DEF Crash, NInv
<1>5. CASE Prune
  <2>1. Pending' = Pending /\ \A id \in Pending : rows'[id] = rows[id]
    BY <1>5 DEF Prune, Pending, NoRow
  <2>2. PendingIsNewest' /\ NewestWins'
    BY <1>5, <2>1 DEF Prune, NInv, PendingIsNewest, NewestWins
  <2> QED
    BY <1>5, <2>2, ReachedStays DEF Prune, NInv
<1>6. CASE Tick
  <2>1. PendingIsNewest' /\ NewestWins'
    BY <1>6, AgingKeeps, KeptIsNewest DEF Tick, IInv
  <2>2. ASSUME NEW c \in Controllers, NEW j \in hand'[c]
        PROVE  \E i \in hand[c] : j.stage = i.stage /\ j.key = i.key /\ j.intent = i.intent
    <3>1. PICK i \in hand[c] : j = [i EXCEPT !.left = Less(@)]
      BY <1>6, <2>2 DEF Tick
    <3>2. i \in Item
      BY ItemFacts DEF IInv
    <3> QED
      BY <3>1, <3>2 DEF Item
  <2>3. \A c \in Controllers : \A j \in hand'[c] : j.stage \in {"reached", "delivered"} =>
          \E i \in hand[c] : i.stage \in {"reached", "delivered"}
                             /\ i.key = j.key /\ i.intent = j.intent
    BY <2>2
  <2> QED
    BY <1>6, <2>1, <2>3, ReachedStays DEF Tick, NInv
<1>7. CASE UNCHANGED vars
  BY <1>7, RowsAsTheyWere, ReachedStays DEF vars, NInv
<1> QED
  BY <1>1, <1>2, <1>3, <1>4, <1>5, <1>6, <1>7 DEF Next

\* Under the same conditions the newest intent of a reconcile key is the one
\* its target system is left with: an older intent never lands after a newer
\* one was completed, whatever crashed, was retried or coalesced.
THEOREM NewestIsKept == ASSUME Prompt PROVE Spec => []NewestWins
<1>1. Init => NInv
  <2>1. SUFFICES ASSUME Init PROVE NInv
    OBVIOUS
  <2>2. Pending = {} /\ \A c \in Controllers : hand[c] = {}
    BY <2>1 DEF Init, Pending, NoRow
  <2>3. \A k \in Keys : external[k] = wanted[k]
    BY <2>1 DEF Init
  <2> QED
    BY <2>2, <2>3 DEF NInv, PendingIsNewest, ReachedIsThere, NewestWins
<1>2. IInv /\ TInv /\ NInv /\ [Next]_vars => NInv'
  BY NewestStays
<1>3. NInv => NewestWins
  BY DEF NInv
<1> QED
  BY <1>1, <1>2, <1>3, OnSchedule, PTL DEF Spec
=============================================================================
