------------------------- MODULE StackAccessProofs -------------------------
(***************************************************************************)
(* What the tuple locks and the last-owner guard guarantee, proved for any *)
(* users and any number of open requests.                                  *)
(***************************************************************************)
EXTENDS StackAccess, FiniteSetTheorems, TLAPS

-----------------------------------------------------------------------------
(* The inductive invariant.                                                *)

Open == [stage : Stages \ {"idle"}, user : Users, role : Roles \cup {"none"},
         seen : SUBSET Grants, remove : SUBSET Grants, add : SUBSET Grants,
         written : SUBSET Grants]

TypeOK ==
  /\ tuples \subseteq Grants
  /\ request \in [Requests -> {Idle} \cup Open]

\* What an open request wants its user to hold, and what it found there.
Wanted(r) == IF r.role = "none" THEN {} ELSE {<<r.user, r.role>>}
Found(r)  == {r.user} \X Held(r.seen, r.user)

Decided(r) == r.stage \in {"revoking", "granting", "committing"}

\* A request that has decided writes the difference between the two.
WritesTheDifference(r) ==
  Decided(r) => r.remove = Found(r) \ Wanted(r) /\ r.add = Wanted(r) \ Found(r)

\* It did not find its target the last owner.
SparesLastOwner(r) ==
  Decided(r) =>
    ~ /\ JudgedOwner(Held(r.seen, r.user), r.role)
      /\ r.role # "owner"
      /\ Cardinality(Owners(r.seen)) = 1

\* What its transaction has locked, by how far it has come.
LocksAsItWrites(r) ==
  /\ r.stage \in {"authorized", "revoking"} => r.written = {}
  /\ r.stage = "granting" => r.written = r.remove
  /\ r.stage = "committing" => r.written = r.remove \cup r.add

Orderly(r) == WritesTheDifference(r) /\ SparesLastOwner(r) /\ LocksAsItWrites(r)

\* No tuple is locked by two transactions.
Apart(r, s) == r.stage # "idle" /\ s.stage # "idle" => r.written \cap s.written = {}

\* What was deleted is there as long as it is locked.
DeletesWhatIsThere(r, grants) ==
  r.stage \in {"granting", "committing"} => r.remove \subseteq grants

IInv ==
  /\ TypeOK
  /\ \A q \in Requests : Orderly(request[q])
  /\ \A q, o \in Requests : q # o => Apart(request[q], request[o])
  /\ \A q \in Requests : DeletesWhatIsThere(request[q], tuples)

-----------------------------------------------------------------------------
(* Every step keeps it.                                                    *)

\* An idle request has nothing to keep.
LEMMA IdleIsInOrder ==
  /\ Orderly(Idle)
  /\ \A r, grants : Apart(Idle, r) /\ Apart(r, Idle) /\ DeletesWhatIsThere(Idle, grants)
  BY DEF Idle, Orderly, WritesTheDifference, SparesLastOwner, LocksAsItWrites, Apart,
         DeletesWhatIsThere, Decided

LEMMA InitEstablishes == Init => IInv
  BY UsersAssumption, IdleIsInOrder DEF Init, IInv, TypeOK, Grants, Roles

\* A request that is under way is open.
LEMMA UnderWay ==
  ASSUME TypeOK, NEW q \in Requests, request[q].stage # "idle"
  PROVE  request[q] \in Open
  BY DEF TypeOK, Idle

\* Ending a request keeps the invariant, as long as what the others have deleted
\* stays.
LEMMA EndingKeeps ==
  ASSUME IInv, NEW q \in Requests,
         request' = [request EXCEPT ![q] = Idle],
         tuples' \subseteq Grants,
         \A o \in Requests \ {q} : DeletesWhatIsThere(request[o], tuples')
  PROVE  IInv'
<1>1. /\ request' \in [Requests -> {Idle} \cup Open]
      /\ request'[q] = Idle /\ \A o \in Requests : o # q => request'[o] = request[o]
  BY DEF IInv, TypeOK
<1> QED BY <1>1, IdleIsInOrder DEF IInv, TypeOK

\* So does a request that goes on in order, without locking what is locked.
LEMMA GoingOnKeeps ==
  ASSUME IInv, NEW q \in Requests,
         request' = [request EXCEPT ![q] = request'[q]], tuples' = tuples,
         request'[q] \in Open, Orderly(request'[q]),
         DeletesWhatIsThere(request'[q], tuples),
         \A o \in Requests \ {q} : Apart(request'[q], request[o])
  PROVE  IInv'
<1>1. /\ request' \in [Requests -> {Idle} \cup Open]
      /\ \A o \in Requests : o # q => request'[o] = request[o]
  BY DEF IInv, TypeOK
<1>2. \A o \in Requests \ {q} : Apart(request[o], request'[q])
  BY DEF Apart
<1> QED BY <1>1, <1>2 DEF IInv, TypeOK

\* Nothing a request is about to write is locked by another.
LEMMA Unlocked ==
  ASSUME TypeOK, NEW q \in Requests, NEW grants, grants \cap LockedFor(q) = {}
  PROVE  \A o \in Requests \ {q} :
           request[o].stage # "idle" => grants \cap request[o].written = {}
  BY DEF LockedFor, Idle

LEMMA RollbackKeeps ==
  ASSUME IInv, NEW q \in Requests, Rollback(q)
  PROVE  IInv'
  BY EndingKeeps DEF Rollback, IInv, TypeOK

LEMMA AuthorizeKeeps ==
  ASSUME IInv, NEW q \in Requests, Authorize(q)
  PROVE  IInv'
<1>1. PICK u \in Users, r \in Roles \cup {"none"} :
        request' = [request EXCEPT ![q] =
          [stage |-> "authorized", user |-> u, role |-> r,
           seen |-> {}, remove |-> {}, add |-> {}, written |-> {}]]
  BY DEF Authorize
<1>2. /\ request'[q] \in Open /\ request'[q].stage = "authorized"
      /\ request'[q].written = {}
      /\ request' = [request EXCEPT ![q] = request'[q]]
  BY <1>1 DEF Open, Stages, IInv, TypeOK
<1>3. Orderly(request'[q]) /\ DeletesWhatIsThere(request'[q], tuples)
  BY <1>2 DEF Orderly, WritesTheDifference, SparesLastOwner, LocksAsItWrites, Decided,
              DeletesWhatIsThere
<1>4. \A o \in Requests \ {q} : Apart(request'[q], request[o])
  BY <1>2 DEF Apart
<1> QED BY <1>2, <1>3, <1>4, GoingOnKeeps DEF Authorize

LEMMA ReadGrantsKeeps ==
  ASSUME IInv, NEW q \in Requests, ReadGrants(q)
  PROVE  IInv'
<1> DEFINE u == request[q].user
           desired == IF request[q].role = "none" THEN {} ELSE {<<u, request[q].role>>}
           held == {u} \X Held(tuples, u)
           next == request'[q]
<1>1. CASE RefusesLastOwner(q)
  BY <1>1, EndingKeeps DEF ReadGrants, IInv, TypeOK
<1>2. CASE ~RefusesLastOwner(q)
  <2>1. request[q].stage = "authorized" /\ tuples' = tuples
    BY DEF ReadGrants
  <2>2. request[q] \in Open /\ request[q].written = {} /\ tuples \subseteq Grants
    BY <2>1, UnderWay DEF IInv, TypeOK, Orderly, LocksAsItWrites
  <2>3. /\ request' = [request EXCEPT ![q] = next]
        /\ next = [request[q] EXCEPT !.stage = After(held \ desired, desired \ held),
                     !.seen = tuples, !.remove = held \ desired, !.add = desired \ held]
    BY <1>2 DEF ReadGrants, Stale, IInv, TypeOK
  <2>4. held \in SUBSET Grants /\ desired \in SUBSET Grants
    BY <2>2 DEF Open, Grants, Held
  <2>5. After(held \ desired, desired \ held) \in Stages \ {"idle"}
    BY DEF After, Stages
  <2>6. /\ next.stage = After(held \ desired, desired \ held) /\ next.user = u
        /\ next.role = request[q].role /\ next.seen = tuples /\ next.written = {}
        /\ next.remove = held \ desired /\ next.add = desired \ held
    BY <2>2, <2>3 DEF Open
  <2>7. next \in Open
    <3>1. (held \ desired) \in SUBSET Grants /\ (desired \ held) \in SUBSET Grants
      BY <2>4
    <3> HIDE DEF held, desired
    <3> QED BY <2>2, <2>3, <2>5, <3>1 DEF Open
  <2>8. WritesTheDifference(next)
    BY <2>6 DEF WritesTheDifference, Found, Wanted
  <2>9. SparesLastOwner(next)
    BY <1>2, <2>6 DEF SparesLastOwner, RefusesLastOwner
  <2>10. LocksAsItWrites(next) /\ DeletesWhatIsThere(next, tuples)
    BY <2>6 DEF LocksAsItWrites, DeletesWhatIsThere, After
  <2>11. \A o \in Requests \ {q} : Apart(next, request[o])
    BY <2>6 DEF Apart
  <2> QED BY <2>1, <2>3, <2>7, <2>8, <2>9, <2>10, <2>11, GoingOnKeeps DEF Orderly
<1> QED BY <1>1, <1>2

\* A transaction that has written goes on in order: only its stage and its locks
\* have changed.
LEMMA WritingKeepsOrder ==
  ASSUME TypeOK, NEW q \in Requests, Decided(request[q]), Orderly(request[q]),
         NEW next \in {"granting", "committing"}, NEW grants \in SUBSET Grants
  PROVE  LET after == Wrote(q, next, grants) IN
           /\ after \in Open
           /\ after.stage = next /\ after.written = request[q].written \cup grants
           /\ after.remove = request[q].remove /\ after.add = request[q].add
           /\ WritesTheDifference(after) /\ SparesLastOwner(after)
<1> DEFINE after == Wrote(q, next, grants)
<1>1. request[q] \in Open
  BY UnderWay DEF Decided
<1>2. /\ after \in Open
      /\ after.stage = next /\ after.written = request[q].written \cup grants
      /\ after.remove = request[q].remove /\ after.add = request[q].add
      /\ after.user = request[q].user /\ after.role = request[q].role
      /\ after.seen = request[q].seen
  BY <1>1 DEF Open, Wrote, Stages
<1>3. WritesTheDifference(after) /\ SparesLastOwner(after)
  BY <1>2 DEF Orderly, WritesTheDifference, SparesLastOwner, Found, Wanted
<1> QED BY <1>2, <1>3

LEMMA RevokeTuplesKeeps ==
  ASSUME IInv, NEW q \in Requests, RevokeTuples(q)
  PROVE  IInv'
<1>1. CASE ~(request[q].remove \subseteq tuples)
  BY <1>1, EndingKeeps DEF RevokeTuples, IInv, TypeOK
<1>2. CASE request[q].remove \subseteq tuples
  <2> DEFINE stage == After({}, request[q].add)
             next == Wrote(q, stage, request[q].remove)
  <2>1. request[q].stage = "revoking" /\ tuples' = tuples
    BY DEF RevokeTuples
  <2>2. request'[q] = next /\ request' = [request EXCEPT ![q] = request'[q]]
    BY <1>2 DEF RevokeTuples, IInv, TypeOK
  <2>3. request[q].remove \in SUBSET Grants /\ request[q].written = {}
    BY <2>1, UnderWay DEF IInv, Open, Orderly, LocksAsItWrites
  <2>4. /\ stage \in {"granting", "committing"}
        /\ stage = "committing" => request[q].add = {}
    BY DEF After
  <2> HIDE DEF stage
  <2>5. TypeOK /\ Decided(request[q]) /\ Orderly(request[q])
    BY <2>1 DEF IInv, Decided
  <2>6. /\ next \in Open
        /\ next.stage = stage
        /\ next.written = request[q].written \cup request[q].remove
        /\ next.remove = request[q].remove /\ next.add = request[q].add
        /\ WritesTheDifference(next) /\ SparesLastOwner(next)
    <3>1. CASE stage = "granting"
      BY <2>3, <2>5, <3>1, WritingKeepsOrder
    <3>2. CASE stage = "committing"
      BY <2>3, <2>5, <3>2, WritingKeepsOrder
    <3> QED BY <2>4, <3>1, <3>2
  <2>7. LocksAsItWrites(next) /\ DeletesWhatIsThere(next, tuples)
    BY <1>2, <2>3, <2>4, <2>6 DEF LocksAsItWrites, DeletesWhatIsThere
  <2>8. \A o \in Requests \ {q} : Apart(next, request[o])
    BY <2>3, <2>6, Unlocked DEF Apart, RevokeTuples, IInv
  <2> QED BY <2>1, <2>2, <2>6, <2>7, <2>8, GoingOnKeeps DEF Orderly
<1> QED BY <1>1, <1>2

LEMMA GrantTupleKeeps ==
  ASSUME IInv, NEW q \in Requests, GrantTuple(q)
  PROVE  IInv'
<1>1. CASE ~(request[q].add \cap tuples = {})
  BY <1>1, EndingKeeps DEF GrantTuple, IInv, TypeOK
<1>2. CASE request[q].add \cap tuples = {}
  <2> DEFINE next == Wrote(q, "committing", request[q].add)
  <2>1. request[q].stage = "granting" /\ tuples' = tuples
    BY DEF GrantTuple
  <2>2. request'[q] = next /\ request' = [request EXCEPT ![q] = request'[q]]
    BY <1>2 DEF GrantTuple, IInv, TypeOK
  <2>3. /\ request[q].add \in SUBSET Grants /\ request[q].written = request[q].remove
        /\ request[q].remove \subseteq tuples
    BY <2>1, UnderWay DEF IInv, Open, Orderly, LocksAsItWrites, DeletesWhatIsThere
  <2>4. /\ next \in Open
        /\ next.stage = "committing"
        /\ next.written = request[q].written \cup request[q].add
        /\ next.remove = request[q].remove /\ next.add = request[q].add
        /\ WritesTheDifference(next) /\ SparesLastOwner(next)
    BY <2>1, <2>3, WritingKeepsOrder DEF IInv, Decided
  <2>5. LocksAsItWrites(next) /\ DeletesWhatIsThere(next, tuples)
    BY <2>3, <2>4 DEF LocksAsItWrites, DeletesWhatIsThere
  <2>6. \A o \in Requests \ {q} : Apart(request[q], request[o])
    BY DEF IInv
  <2>7. \A o \in Requests \ {q} : Apart(next, request[o])
    BY <2>1, <2>4, <2>6, Unlocked DEF Apart, GrantTuple, IInv
  <2> QED BY <2>1, <2>2, <2>4, <2>5, <2>7, GoingOnKeeps DEF Orderly
<1> QED BY <1>1, <1>2

\* The tuples a commit takes away are locked by it, so none of them is one
\* that another transaction has deleted.
LEMMA CommitKeeps ==
  ASSUME IInv, NEW q \in Requests, Commit(q)
  PROVE  IInv'
<1>1. /\ request[q].stage = "committing" /\ request' = [request EXCEPT ![q] = Idle]
      /\ tuples' = (tuples \ request[q].remove) \cup request[q].add
  BY DEF Commit
<1>2. request[q] \in Open /\ request[q].written = request[q].remove \cup request[q].add
  BY <1>1, UnderWay DEF IInv, Orderly, LocksAsItWrites
<1>3. tuples' \subseteq Grants
  BY <1>1, <1>2 DEF IInv, TypeOK, Open
<1>4. ASSUME NEW o \in Requests \ {q}
      PROVE  DeletesWhatIsThere(request[o], tuples')
  <2> SUFFICES ASSUME request[o].stage \in {"granting", "committing"}
               PROVE  request[o].remove \subseteq tuples'
    BY DEF DeletesWhatIsThere
  <2>1. request[o].remove \subseteq tuples /\ request[o].remove \subseteq request[o].written
    BY DEF IInv, DeletesWhatIsThere, Orderly, LocksAsItWrites
  <2>2. request[o].written \cap request[q].remove = {}
    BY <1>1, <1>2 DEF IInv, Apart
  <2> QED BY <1>1, <2>1, <2>2
<1> QED BY <1>1, <1>3, <1>4, EndingKeeps

LEMMA StepKeeps == IInv /\ [Next]_vars => IInv'
<1> SUFFICES ASSUME IInv, [Next]_vars PROVE IInv'
  OBVIOUS
<1>1. CASE UNCHANGED vars
  BY <1>1 DEF vars, IInv, TypeOK
<1>2. CASE Next
  BY <1>2, AuthorizeKeeps, ReadGrantsKeeps, RevokeTuplesKeeps, GrantTupleKeeps,
     CommitKeeps, RollbackKeeps DEF Next
<1> QED BY <1>1, <1>2

\* Open transactions lock apart, and what one has deleted stays until it ends.
THEOREM Invariant == Spec => []IInv
<1>1. Init => IInv
  BY InitEstablishes
<1>2. IInv /\ [Next]_vars => IInv'
  BY StepKeeps
<1> QED BY <1>1, <1>2, PTL DEF Spec

-----------------------------------------------------------------------------
(* What follows.                                                           *)

\* Only a commit changes the tuples.
LEMMA OnlyCommitsWrite ==
  ASSUME IInv, [Next]_vars, tuples' # tuples
  PROVE  \E q \in Requests : Committed(q) /\ Commit(q)
<1>1. PICK q \in Requests : Commit(q)
  BY DEF Next, vars, Authorize, ReadGrants, RevokeTuples, GrantTuple, Rollback
<1>2. Committed(q)
  BY <1>1 DEF Commit, Committed, IInv, TypeOK
<1> QED BY <1>1, <1>2

\* And it is of the request that ends.
LEMMA CommittedCommits ==
  ASSUME IInv, [Next]_vars, NEW q \in Requests, Committed(q)
  PROVE  Commit(q)
<1>1. PICK o \in Requests : Commit(o)
  BY OnlyCommitsWrite DEF Committed
<1>2. request'[q] # request[q]
  BY DEF Committed, Idle
<1>3. q = o
  BY <1>1, <1>2 DEF Commit, IInv, TypeOK
<1> QED BY <1>1, <1>3

\* What a commit writes is the difference between what its user held when it
\* read and the one role the user is to hold.
LEMMA CommitWritesTheDifference ==
  ASSUME IInv, NEW q \in Requests, Commit(q)
  PROVE  LET r == request[q] IN
           /\ r \in Open /\ Decided(r)
           /\ r.remove = Found(r) \ Wanted(r) /\ r.add = Wanted(r) \ Found(r)
           /\ tuples' = (tuples \ r.remove) \cup r.add
<1>1. request[q].stage = "committing"
  BY DEF Commit
<1>2. request[q] \in Open /\ Decided(request[q])
  BY <1>1, UnderWay DEF Decided, IInv
<1> QED BY <1>2 DEF IInv, Orderly, WritesTheDifference, Commit

\* Whoever is told that a role was taken away took it, however many requests
\* saw the role (Authorization.Revoke's row locks).
THEOREM RemovedOnce == Spec => NoGrantIsRemovedTwice
<1>1. IInv => \A q \in Requests : Committed(q) => request[q].remove \subseteq tuples
  BY DEF IInv, DeletesWhatIsThere, Committed
<1> QED BY <1>1, Invariant, PTL DEF NoGrantIsRemovedTwice

LEMMA AtMostOne ==
  ASSUME NEW S, IsFiniteSet(S), Cardinality(S) <= 1, NEW x \in S
  PROVE  S = {x}
<1>1. {x} \in SUBSET S /\ Cardinality({x}) = 1
  BY FS_Singleton
<1>2. Cardinality(S) = 1
  BY <1>1, FS_Subset, FS_CardinalityType
<1> QED BY <1>1, <1>2, FS_Subset

LEMMA HeldIsFinite ==
  ASSUME NEW grants, NEW u
  PROVE  IsFiniteSet(Held(grants, u)) /\ Held(grants, u) \subseteq Roles
<1>1. IsFiniteSet({"owner"}) /\ IsFiniteSet({"owner"} \cup {"operator"})
  BY FS_Singleton, FS_AddElement
<1>2. /\ IsFiniteSet(({"owner"} \cup {"operator"}) \cup {"approver"})
      /\ IsFiniteSet((({"owner"} \cup {"operator"}) \cup {"approver"}) \cup {"viewer"})
  BY <1>1, FS_AddElement
<1>3. Roles = (({"owner"} \cup {"operator"}) \cup {"approver"}) \cup {"viewer"}
  BY DEF Roles
<1>4. Held(grants, u) \subseteq Roles
  BY DEF Held
<1> QED BY <1>2, <1>3, <1>4, FS_Subset

\* A commit that takes the last owner away read other owners, or took its
\* target for less than an owner.
LEMMA LastOwnerGoesByOverlap ==
  ASSUME IInv, NEW q \in Requests, Commit(q), Owners(tuples) # {}, Owners(tuples') = {},
         Owners(request[q].seen) = Owners(tuples),
         Cardinality(Held(request[q].seen, request[q].user)) <= 1
  PROVE  FALSE
<1> DEFINE r == request[q]
<1>1. /\ r \in Open /\ Decided(r)
      /\ r.remove = Found(r) \ Wanted(r)
      /\ tuples' = (tuples \ r.remove) \cup r.add
  BY CommitWritesTheDifference
<1>2. \A v \in Owners(tuples) : <<v, "owner">> \in r.remove
  BY <1>1 DEF Owners
<1>3. \A v \in Owners(tuples) : v = r.user
  BY <1>1, <1>2 DEF Found
<1>4. Owners(r.seen) = {r.user} /\ <<r.user, "owner">> \in r.remove
  BY <1>2, <1>3
<1>5. "owner" \in Held(r.seen, r.user)
  BY <1>4 DEF Owners, Held, Roles
<1>6. Held(r.seen, r.user) = {"owner"}
  BY <1>5, HeldIsFinite, AtMostOne
<1>7. r.role # "owner"
  BY <1>1, <1>4 DEF Wanted
<1>8. JudgedOwner(Held(r.seen, r.user), r.role)
  BY <1>6 DEF JudgedOwner
<1>9. Cardinality(Owners(r.seen)) = 1
  BY <1>4, FS_Singleton
<1> QED BY <1>1, <1>7, <1>8, <1>9 DEF IInv, Orderly, SparesLastOwner

\* The last-owner guard keeps a stack from losing its last owner, unless
\* another removal overlaps the one it lets through or its target holds a
\* second role.
THEOREM OwnerlessNeedsOverlap == Spec => OwnerlessOnlyByOverlap
<1>1. ASSUME IInv, [Next]_vars, Owners(tuples) # {}, Owners(tuples') = {}
      PROVE  \E q \in Requests :
               /\ Committed(q)
               /\ \/ Owners(request[q].seen) # Owners(tuples)
                  \/ Cardinality(Held(request[q].seen, request[q].user)) > 1
  <2>1. PICK q \in Requests : Committed(q) /\ Commit(q)
    BY <1>1, OnlyCommitsWrite
  <2>2. Cardinality(Held(request[q].seen, request[q].user)) \in Nat
    BY HeldIsFinite, FS_CardinalityType
  <2> QED BY <1>1, <2>1, <2>2, LastOwnerGoesByOverlap
<1> QED BY <1>1, Invariant, PTL DEF Spec, OwnerlessOnlyByOverlap

\* A commit that found what its user still holds leaves the user one role.
LEMMA CommitLeavesOneRole ==
  ASSUME IInv, NEW q \in Requests, Commit(q),
         Held(request[q].seen, request[q].user) = Held(tuples, request[q].user)
  PROVE  Cardinality(Held(tuples', request[q].user)) <= 1
<1> DEFINE r == request[q]
<1>1. /\ r \in Open
      /\ r.remove = Found(r) \ Wanted(r) /\ r.add = Wanted(r) \ Found(r)
      /\ tuples' = (tuples \ r.remove) \cup r.add
  BY CommitWritesTheDifference
<1>2. \A s \in Roles : <<r.user, s>> \in tuples' <=> <<r.user, s>> \in Wanted(r)
  BY <1>1 DEF Found, Held
<1>3. Held(tuples', r.user) = {} \/ Held(tuples', r.user) = {r.role}
  BY <1>1, <1>2 DEF Wanted, Held, Open
<1>4. Cardinality({}) = 0 /\ Cardinality({r.role}) = 1
  BY FS_Singleton, FS_EmptySet
<1> QED BY <1>3, <1>4

\* A user comes by a second role only while two requests overlap that both
\* found the user without one.
THEOREM SecondRoleNeedsOverlap == Spec => SecondRoleOnlyByOverlap
<1>1. ASSUME IInv, [Next]_vars, NEW q \in Requests, Committed(q),
             Cardinality(Held(tuples', request[q].user)) > 1,
             Held(request[q].seen, request[q].user) = Held(tuples, request[q].user)
      PROVE  FALSE
  <2>1. Commit(q)
    BY <1>1, CommittedCommits
  <2>2. Cardinality(Held(tuples', request[q].user)) \in Nat
    BY HeldIsFinite, FS_CardinalityType
  <2> QED BY <1>1, <2>1, <2>2, CommitLeavesOneRole
<1>2. IInv /\ [Next]_vars => [\A q \in Requests : LET u == request[q].user IN
        /\ Committed(q)
        /\ Cardinality(Held(tuples, u)) <= 1 /\ Cardinality(Held(tuples', u)) > 1
        => Held(request[q].seen, u) # Held(tuples, u)]_vars
  BY <1>1
<1> QED BY <1>2, Invariant, PTL DEF Spec, SecondRoleOnlyByOverlap
=============================================================================
