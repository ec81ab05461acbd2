------------------------------- MODULE Outbox -------------------------------
(***************************************************************************)
(* What the work queue promises whoever enqueues, with no rows, leases,    *)
(* clocks or workers: an intent that was accepted is owed until it has     *)
(* been delivered, or, for a reconcile key, until a newer intent of its    *)
(* key replaces it.  WorkQueue implements it (WorkQueue!Promise).          *)
(***************************************************************************)
CONSTANTS Keys,     \* (kind, resource key) pairs
          Intents,  \* every intent ever enqueued, by number
          Mode      \* each key's mode, "reconcile" or "job"

VARIABLES owed,      \* accepted intents still to be delivered: <<key, intent>>
          delivered  \* intents a handler has reported delivered

vars == <<owed, delivered>>

OwedOf(k) == {o \in owed : o[1] = k}

Init == owed = {} /\ delivered = {}

\* An intent is accepted; the one it finds owed stays when the key is a job's
\* (and the new one is dropped), and is replaced when it is a reconcile key's.
Accept(k, n) ==
  /\ Mode[k] = "job" => OwedOf(k) = {}
  /\ owed' = (owed \ OwedOf(k)) \cup {<<k, n>>}
  /\ UNCHANGED delivered

Deliver(n) ==
  /\ delivered' = delivered \cup {n}
  /\ UNCHANGED owed

Settle(k, n) ==
  /\ n \in delivered
  /\ owed' = owed \ {<<k, n>>}
  /\ UNCHANGED delivered

Next ==
  \E n \in Intents :
    Deliver(n) \/ \E k \in Keys : Accept(k, n) \/ Settle(k, n)

Spec == Init /\ [][Next]_vars
=============================================================================
