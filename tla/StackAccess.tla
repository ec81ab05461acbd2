---------------------------- MODULE StackAccess ----------------------------
(***************************************************************************)
(* Who holds which role on one stack: the tuples OpenFGA keeps of it, and  *)
(* the requests that change them (Service.AssignStackRole and              *)
(* RevokeStackRole), each a Postgres transaction at READ COMMITTED.        *)
(*                                                                         *)
(* A transaction reads the grants without locking them, decides, and only  *)
(* then locks and writes: the tuples it takes away, then the one it adds.  *)
(* A tuple another open transaction has written is waited for; one that    *)
(* is no longer, or already, there is a conflict and rolls the request     *)
(* back.  The audit event every commit appends is left out.                *)
(***************************************************************************)
EXTENDS Naturals, FiniteSets

CONSTANTS Users, Creator, Administrators,
          Requests  \* the requests that may be open at a time

ASSUME UsersAssumption == Creator \in Users /\ Administrators \subseteq Users

VARIABLES
  tuples,  \* committed <<user, role>> pairs of the stack
  request  \* what each request is about and where it is

vars == <<tuples, request>>

Roles  == {"owner", "operator", "approver", "viewer"}
Stages == {"idle", "authorized", "revoking", "granting", "committing"}
Grants == Users \X Roles

Owners(grants)  == {u \in Users : <<u, "owner">> \in grants}
Held(grants, u) == {r \in Roles : <<u, r>> \in grants}

Idle == [stage |-> "idle"]

\* can_manage_access: owner or can_administer from parent.
CanManageAccess(u) == u \in Owners(tuples) \cup Administrators

-----------------------------------------------------------------------------
(* The request's steps.                                                    *)

\* authorizeStack, before the transaction begins.  A request to hold no role
\* is a revoke.
Authorize(q) ==
  /\ request[q] = Idle
  /\ \E actor \in Users : CanManageAccess(actor)
  /\ \E u \in Users, r \in Roles \cup {"none"} :
       request' = [request EXCEPT ![q] =
         [stage |-> "authorized", user |-> u, role |-> r,
          seen |-> {}, remove |-> {}, add |-> {}, written |-> {}]]
  /\ UNCHANGED tuples

\* The one role the guard takes the user's to be.  ListGrants sorts by name:
\* an assign looks at the first of the user's roles, a revoke at the last.
JudgedOwner(held, role) ==
  /\ "owner" \in held
  /\ IF role = "none" THEN "viewer" \notin held
                      ELSE held \cap {"approver", "operator"} = {}

\* Mutant: no guard.
RefusesLastOwner_Never(q) == FALSE

\* The last-owner guard, over the grants as committed right now.
RefusesLastOwner(q) ==
  /\ JudgedOwner(Held(tuples, request[q].user), request[q].role)
  /\ request[q].role # "owner"
  /\ Cardinality(Owners(tuples)) = 1

\* The stage a transaction is in once it has so much left to write.
After(remove, add) ==
  IF remove # {} THEN "revoking" ELSE IF add # {} THEN "granting" ELSE "committing"

\* Mutant: an assign leaves the user's other roles alone.
Stale_OnRevokeOnly(held, desired) == IF desired = {} THEN held ELSE {}

Stale(held, desired) == held \ desired

\* ListGrants, the guard, and what to write: stale roles go, the desired one
\* comes unless it is held.
ReadGrants(q) ==
  LET u == request[q].user
      desired == IF request[q].role = "none" THEN {} ELSE {<<u, request[q].role>>}
      held == {u} \X Held(tuples, u)
      stale == Stale(held, desired)
  IN /\ request[q].stage = "authorized"
     /\ request' = [request EXCEPT ![q] =
          IF RefusesLastOwner(q) THEN Idle
          ELSE [@ EXCEPT !.stage = After(stale, desired \ held), !.seen = tuples,
                         !.remove = stale, !.add = desired \ held]]
     /\ UNCHANGED tuples

\* Tuples that other open transactions have deleted or inserted.
LockedFor(q) ==
  UNION {request[o].written : o \in {o \in Requests \ {q} : request[o] # Idle}}

Wrote(q, next, grants) ==
  [request[q] EXCEPT !.stage = next, !.written = @ \cup grants]

\* Mutant: a tuple that is gone already counts as deleted.
RevokeTuples_Unchecked(q) ==
  /\ request[q].stage = "revoking"
  /\ request[q].remove \cap LockedFor(q) = {}
  /\ request' = [request EXCEPT ![q] =
       Wrote(q, After({}, request[q].add), request[q].remove)]
  /\ UNCHANGED tuples

\* Authorization.Revoke: selectForUpdate waits for the tuples, then all of
\* them are deleted, or one is gone and it is a conflict.
RevokeTuples(q) ==
  /\ request[q].stage = "revoking"
  /\ request[q].remove \cap LockedFor(q) = {}
  /\ request' = [request EXCEPT ![q] =
       IF request[q].remove \subseteq tuples
       THEN Wrote(q, After({}, request[q].add), request[q].remove)
       ELSE Idle]
  /\ UNCHANGED tuples

\* Authorization.Grant: one that is already there is a conflict.
GrantTuple(q) ==
  /\ request[q].stage = "granting"
  /\ request[q].add \cap LockedFor(q) = {}
  /\ request' = [request EXCEPT ![q] =
       IF request[q].add \cap tuples = {}
       THEN Wrote(q, "committing", request[q].add)
       ELSE Idle]
  /\ UNCHANGED tuples

Commit(q) ==
  /\ request[q].stage = "committing"
  /\ tuples' = (tuples \ request[q].remove) \cup request[q].add
  /\ request' = [request EXCEPT ![q] = Idle]

\* The request is canceled, or the process dies.
Rollback(q) ==
  /\ request[q] # Idle
  /\ request' = [request EXCEPT ![q] = Idle]
  /\ UNCHANGED tuples

\* CreateStack commits the stack with its creator as the owner.
Init ==
  /\ tuples = {<<Creator, "owner">>}
  /\ request = [q \in Requests |-> Idle]

Next ==
  \E q \in Requests :
    \/ Authorize(q) \/ ReadGrants(q) \/ RevokeTuples(q) \/ GrantTuple(q)
    \/ Commit(q) \/ Rollback(q)

Spec == Init /\ [][Next]_vars

-----------------------------------------------------------------------------
(* Properties.                                                             *)

Committed(q) == request[q].stage = "committing" /\ tuples' # tuples /\ request'[q] = Idle

\* What the last-owner guard does guarantee.  The commit that leaves a stack
\* without an owner read other owners than there are by then, so another
\* removal overlapped it; or it took its target for less than an owner, as
\* the target held a second role.
OwnerlessOnlyByOverlap ==
  [][Owners(tuples) # {} /\ Owners(tuples') = {} =>
       \E q \in Requests :
         /\ Committed(q)
         /\ \/ Owners(request[q].seen) # Owners(tuples)
            \/ Cardinality(Held(request[q].seen, request[q].user)) > 1]_vars

\* Two requests never both take away one grant: whoever is told that a role
\* was taken away took it, and what a user is left with came after.
NoGrantIsRemovedTwice ==
  [][\A q \in Requests : Committed(q) => request[q].remove \subseteq tuples]_vars

\* A user comes by a second role only while two requests overlap that both
\* found the user without one: a role change waits for the role it replaces.
SecondRoleOnlyByOverlap ==
  [][\A q \in Requests : LET u == request[q].user IN
       /\ Committed(q)
       /\ Cardinality(Held(tuples, u)) <= 1 /\ Cardinality(Held(tuples', u)) > 1
       => Held(request[q].seen, u) # Held(tuples, u)]_vars
=============================================================================
