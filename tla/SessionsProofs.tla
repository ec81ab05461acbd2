--------------------------- MODULE SessionsProofs ---------------------------
(***************************************************************************)
(* What browser sessions guarantee, proved for any sessions, requests and  *)
(* providers, any bounds of a session's life, and any number of notices;   *)
(* and what the keys guarantee that the provider's tokens are verified     *)
(* with, for any keys, documents, addresses and tokens, and any times.     *)
(***************************************************************************)
EXTENDS Sessions, VerifierKeys, TLAPS

-----------------------------------------------------------------------------
(* The inductive invariant.                                                *)

Exists(s)  == row[s].state # "absent"
IsStanding(s) == row[s].state = "standing"

\* A sign-in that has its token and may still make a row.
Minting(s) == signIn[s].stage \in {"redeemed", "projected", "minted"}

\* A session has no past before its row is made.
SignInFine(s) ==
  /\ Minting(s) => signIn[s].origin \in IdPSessions
  /\ signIn[s].stage = "minted" => signIn[s].at <= now /\ signIn[s].at <= LastSignIn
  /\ signIn[s].stage # "over" => ~Exists(s) /\ told[s] = 0

\* Where a row comes from, and how far it has been used.
RowFine(s) ==
  Exists(s) =>
    /\ signIn[s].stage = "over" /\ signIn[s].origin \in IdPSessions
    /\ row[s].subject = SubjectOf[signIn[s].origin]
    /\ row[s].sid = IF provider.idToken THEN signIn[s].origin ELSE NoSid
    /\ row[s].absolute = row[s].created + AbsoluteTTL
    /\ row[s].lastSeen <= lastUsed[s] /\ lastUsed[s] <= now
    /\ lastUsed[s] < row[s].absolute

Underway(q)  == request[q].stage # "idle"
Touching(q) == request[q].stage = "touching"

\* What a request has read is no newer than the row, unless an older touch moved
\* that back.
SeenFine(q) ==
  LET s == CookieOf[q] IN
  Underway(q) =>
    /\ signIn[s].stage = "over"
    /\ Exists(s) =>
         /\ request[q].seen.absolute = row[s].absolute
         /\ request[q].seen.lastSeen <= row[s].lastSeen \/ s \in overtaken
         /\ Touching(q) => request[q].at <= lastUsed[s]

\* The latest use is written, or a touch that makes up for it is on its way.
Tracked(s) ==
  IsStanding(s) =>
    \/ s \in missed \cup overtaken
    \/ lastUsed[s] - row[s].lastSeen < TouchInterval
    \/ \E q \in Requests :
         CookieOf[q] = s /\ Touching(q) /\ lastUsed[s] - request[q].at < TouchInterval

ToldFine(s) == IsStanding(s) => told[s] <= ExpiresAt(row[s]) \/ s \in overtaken

\* Why a session may be revoked.
Narrow(s) ==
  row[s].state = "revoked" =>
    \/ s \in left
    \/ ended[signIn[s].origin] # Never
    \/ /\ row[s].sid = NoSid \/ provider.logoutToken = "sub"
       /\ \E g \in IdPSessions : ended[g] # Never /\ SubjectOf[g] = row[s].subject

Fallback(h, g) == handler[h].stage = "fallback" /\ handler[h].ends = g

\* Whoever may still make a row for an ended session was noticed.
NoticeFine(g) ==
  g \in answered \/ (\E h \in Handlers : Fallback(h, g)) =>
    /\ ended[g] # Never
    /\ \A s \in Sessions : signIn[s].origin = g /\ Minting(s) => s \in overlapped

\* A session that an answered notice did not end.
Escapes(s, g) == IsStanding(s) /\ signIn[s].origin = g /\ s \notin overlapped

EndedFine(g) ==
  g \in answered /\ (provider.idToken \/ provider.logoutToken # "sid") =>
    \A s \in Sessions : ~Escapes(s, g)

\* The first statement found no row of the sid.
FallbackFine(h) ==
  \A g \in IdPSessions : Fallback(h, g) /\ provider.idToken =>
    \A s \in Sessions : ~Escapes(s, g)

Clocked ==
  /\ \A s \in Sessions : SignInFine(s) /\ RowFine(s) /\ Tracked(s) /\ ToldFine(s)
  /\ \A q \in Requests : SeenFine(q)

Noticed ==
  /\ \A s \in Sessions : Narrow(s)
  /\ \A g \in IdPSessions : NoticeFine(g) /\ EndedFine(g)
  /\ \A h \in Handlers : FallbackFine(h)

IInv == TypeOK /\ Clocked /\ Noticed

-----------------------------------------------------------------------------
(* What a step leaves alone.                                               *)

Entries == [stage : {"none", "begun", "redeemed", "projected", "minted", "over"},
            origin : IdPSessions \cup {NoSid}, at : Times]

Open == [stage : {"read", "touching"}, seen : Rows, at : Times]

LEMMA ConstantsAreNumbers ==
  /\ LoginMaxAge \in Nat /\ LogoutMaxAge \in Nat /\ LastSignIn \in Nat /\ Horizon \in Nat
  /\ IdleTTL \in Nat /\ AbsoluteTTL \in Nat /\ TouchInterval \in Nat
  /\ IdleTTL > 0 /\ AbsoluteTTL > 0 /\ TouchInterval > 0
  /\ LastSignIn + AbsoluteTTL < Horizon
  BY SessionsAssumption

LEMMA TimesAreNumbers == \A t \in Times : t \in Nat /\ t <= Horizon
  BY ConstantsAreNumbers DEF Times

LEMMA RowTyped ==
  ASSUME TypeOK, NEW s \in Sessions, Exists(s)
  PROVE  /\ row[s] \in Rows
         /\ row[s].absolute \in Nat /\ row[s].lastSeen \in Nat /\ row[s].created \in Nat
  BY TimesAreNumbers DEF TypeOK, Exists, NoRow, Rows

LEMMA RequestTyped ==
  ASSUME TypeOK, NEW q \in Requests, Underway(q)
  PROVE  /\ request[q] \in Open /\ request[q].seen \in Rows
         /\ request[q].at \in Nat /\ request[q].seen.absolute \in Nat
         /\ request[q].seen.lastSeen \in Nat
<1>1. request[q] \in Open
  BY DEF TypeOK, Underway, Idle, Open
<1>2. request[q].seen \in Rows /\ request[q].at \in Times
  BY <1>1 DEF Open
<1>3. request[q].seen.absolute \in Times /\ request[q].seen.lastSeen \in Times
  BY <1>2 DEF Rows
<1> QED BY <1>1, <1>2, <1>3, TimesAreNumbers

LEMMA NumbersTyped ==
  ASSUME TypeOK
  PROVE  /\ now \in Nat
         /\ \A s \in Sessions : lastUsed[s] \in Nat /\ told[s] \in Nat /\ signIn[s].at \in Nat
         /\ \A s \in Sessions : signIn[s].origin \in IdPSessions \cup {NoSid}
         /\ CookieOf \in [Requests -> Sessions]
  BY SessionsAssumption, ConstantsAreNumbers, TimesAreNumbers DEF TypeOK

\* A session whose row, sign-in and history stay keeps its part.
LEMMA SessionStays ==
  ASSUME NEW s \in Sessions, TypeOK, now' \in Nat, now <= now', provider' = provider,
         signIn'[s] = signIn[s], row'[s] = row[s], lastUsed'[s] = lastUsed[s],
         told'[s] = told[s], s \in overtaken => s \in overtaken',
         SignInFine(s), RowFine(s), ToldFine(s)
  PROVE  SignInFine(s)' /\ RowFine(s)' /\ ToldFine(s)'
<1>1. SignInFine(s)'
  BY NumbersTyped, ConstantsAreNumbers DEF SignInFine, Minting, Exists
<1>2. RowFine(s)'
  BY NumbersTyped DEF RowFine, Exists
<1>3. ToldFine(s)'
  BY DEF ToldFine, IsStanding
<1> QED BY <1>1, <1>2, <1>3

LEMMA SeenStays ==
  ASSUME NEW q \in Requests, NEW s, s = CookieOf[q], SeenFine(q),
         request'[q] = request[q], signIn[s].stage = "over" => signIn'[s].stage = "over",
         Exists(s)' => Exists(s) /\ row'[s].absolute = row[s].absolute,
         Exists(s)' => row'[s].lastSeen = row[s].lastSeen /\ lastUsed'[s] = lastUsed[s]
                    /\ (s \in overtaken => s \in overtaken')
  PROVE  SeenFine(q)'
  BY DEF SeenFine, Underway, Touching

\* A session is tracked as before when its touches are still on their way.
LEMMA TrackedStays ==
  ASSUME NEW s \in Sessions, Tracked(s), IsStanding(s)' => IsStanding(s),
         row'[s].lastSeen = row[s].lastSeen, lastUsed'[s] = lastUsed[s],
         s \in missed \cup overtaken => s \in missed' \cup overtaken',
         \A q \in Requests : CookieOf[q] = s /\ Touching(q) => request'[q] = request[q]
  PROVE  Tracked(s)'
  BY DEF Tracked, Touching

\* The notices' part is kept by a step that revokes nothing, ends nothing and
\* lets no new sign-in have an ended session's token.
LEMMA NoticesStay ==
  ASSUME IInv, provider' = provider, answered' = answered,
         \A g \in IdPSessions : ended[g] # Never => ended'[g] # Never,
         \A g \in IdPSessions, h \in Handlers : Fallback(h, g)' => Fallback(h, g),
         \A s \in Sessions : Exists(s)' =>
           /\ Exists(s) /\ row'[s].state = row[s].state
           /\ row'[s].subject = row[s].subject /\ row'[s].sid = row[s].sid
           /\ signIn'[s].origin = signIn[s].origin
           /\ s \in left => s \in left'
           /\ s \in overlapped => s \in overlapped',
         \A s \in Sessions, g \in IdPSessions :
           signIn'[s].origin = g /\ Minting(s)' =>
             \/ ended[g] = Never
             \/ signIn[s].origin = g /\ Minting(s) /\ (s \in overlapped => s \in overlapped')
  PROVE  Noticed'
<1>1. ASSUME NEW s \in Sessions PROVE Narrow(s)'
  <2> SUFFICES ASSUME row'[s].state = "revoked" PROVE Narrow(s)'
    BY DEF Narrow
  <2>1. Exists(s)' /\ Exists(s)
    BY DEF Exists
  <2>2. Narrow(s) /\ RowFine(s)
    BY DEF IInv, Noticed, Clocked
  <2> QED BY <2>1, <2>2 DEF Narrow, RowFine
<1>2. ASSUME NEW s \in Sessions, NEW g \in IdPSessions, Escapes(s, g)' PROVE Escapes(s, g)
  BY <1>2 DEF Escapes, IsStanding, Exists
<1>3. ASSUME NEW g \in IdPSessions PROVE EndedFine(g)'
  BY <1>2 DEF IInv, Noticed, EndedFine
<1>4. ASSUME NEW h \in Handlers PROVE FallbackFine(h)'
  BY <1>2 DEF IInv, Noticed, FallbackFine
<1>5. ASSUME NEW g \in IdPSessions PROVE NoticeFine(g)'
  <2> SUFFICES ASSUME g \in answered \/ \E h \in Handlers : Fallback(h, g)
               PROVE  /\ ended'[g] # Never
                      /\ \A s \in Sessions :
                           signIn'[s].origin = g /\ Minting(s)' => s \in overlapped'
    BY DEF NoticeFine
  <2>1. ended[g] # Never
        /\ \A s \in Sessions : signIn[s].origin = g /\ Minting(s) => s \in overlapped
    BY DEF IInv, Noticed, NoticeFine
  <2> QED BY <2>1
<1> QED BY <1>1, <1>3, <1>4, <1>5 DEF Noticed

LEMMA InitEstablishes == Init => IInv
<1> SUFFICES ASSUME Init PROVE IInv
  OBVIOUS
<1>1. TypeOK
  BY ConstantsAreNumbers DEF Init, TypeOK, NoSignIn, NoRow, Idle, Times, Never
<1>2. ASSUME NEW s \in Sessions
      PROVE  SignInFine(s) /\ RowFine(s) /\ Tracked(s) /\ ToldFine(s) /\ Narrow(s)
  <2>1. row[s] = NoRow /\ signIn[s] = NoSignIn /\ told[s] = 0
    BY DEF Init
  <2>2. ~Exists(s) /\ ~IsStanding(s) /\ row[s].state # "revoked" /\ ~Minting(s)
        /\ signIn[s].stage = "none"
    BY <2>1 DEF NoRow, NoSignIn, Exists, IsStanding, Minting
  <2> QED BY <2>1, <2>2 DEF SignInFine, RowFine, Tracked, ToldFine, Narrow
<1>3. ASSUME NEW q \in Requests PROVE SeenFine(q)
  BY DEF Init, Idle, SeenFine, Underway
<1>4. ASSUME NEW g \in IdPSessions PROVE NoticeFine(g) /\ EndedFine(g)
  BY DEF Init, Idle, NoticeFine, EndedFine, Fallback
<1>5. ASSUME NEW h \in Handlers PROVE FallbackFine(h)
  BY DEF Init, Idle, FallbackFine, Fallback
<1> QED BY <1>1, <1>2, <1>3, <1>4, <1>5 DEF IInv, Clocked, Noticed

-----------------------------------------------------------------------------
(* Signing in.                                                             *)

\* A sign-in under way goes on, or is over with no row made.
LEMMA SigningInKeeps ==
  ASSUME IInv, NEW s \in Sessions, signIn[s].stage # "over",
         UNCHANGED <<now, idp, row, left, request, handler, history>>,
         users' \subseteq Subjects,
         signIn' = [signIn EXCEPT ![s] = signIn'[s]], signIn'[s] \in Entries,
         Minting(s)' => signIn'[s].origin \in IdPSessions,
         signIn'[s].stage = "minted" => signIn'[s].at <= now /\ signIn'[s].at <= LastSignIn,
         \A g \in IdPSessions : signIn'[s].origin = g /\ Minting(s)' =>
           ended[g] = Never \/ (signIn[s].origin = g /\ Minting(s))
  PROVE  IInv'
<1>1. /\ UNCHANGED <<now, row, request, handler, left, provider, ended, answered, lastUsed, told,
                     missed, overtaken, overlapped>>
      /\ \A o \in Sessions \ {s} : signIn'[o] = signIn[o]
      /\ signIn' \in [Sessions -> Entries]
  BY DEF idp, history, IInv, TypeOK, Entries
<1>2. TypeOK'
  BY <1>1 DEF IInv, TypeOK, Entries
<1>3. ~Exists(s) /\ told[s] = 0 /\ now \in Nat
  BY NumbersTyped DEF IInv, Clocked, SignInFine
<1>4. ASSUME NEW o \in Sessions
      PROVE  SignInFine(o)' /\ RowFine(o)' /\ ToldFine(o)' /\ Tracked(o)'
  <2>1. Tracked(o)'
    BY <1>1 DEF IInv, Clocked, Tracked, IsStanding, Touching
  <2>2. CASE o = s
    <3>1. ~Exists(s)' /\ ~IsStanding(s)'
      BY <1>1, <1>3 DEF Exists, IsStanding
    <3> QED BY <1>1, <1>3, <2>1, <2>2, <3>1 DEF SignInFine, RowFine, ToldFine
  <2>3. CASE o # s
    <3>1. signIn'[o] = signIn[o] /\ SignInFine(o) /\ RowFine(o) /\ ToldFine(o)
      BY <1>1, <2>3 DEF IInv, Clocked
    <3> QED BY <1>1, <1>3, <2>1, <3>1, SessionStays DEF IInv
  <2> QED BY <2>2, <2>3
<1>5. ASSUME NEW q \in Requests PROVE SeenFine(q)'
  <2>1. SeenFine(q) /\ CookieOf[q] \in Sessions
    BY NumbersTyped DEF IInv, Clocked
  <2>2. CookieOf[q] = s => ~Underway(q)
    BY <2>1 DEF SeenFine
  <2> QED BY <1>1, <2>1, <2>2 DEF SeenFine, Underway, Touching, Exists
<1>6. Noticed'
  <2>1. \A o \in Sessions, g \in IdPSessions :
          signIn'[o].origin = g /\ Minting(o)' =>
             \/ ended[g] = Never
             \/ signIn[o].origin = g /\ Minting(o)
    BY <1>1 DEF Minting
  <2>2. \A o \in Sessions : Exists(o)' => Exists(o) /\ o # s
    BY <1>1, <1>3 DEF Exists
  <2> QED BY <1>1, <2>1, <2>2, NoticesStay DEF Fallback
<1> QED BY <1>2, <1>4, <1>5, <1>6 DEF IInv, Clocked

LEMMA EntryOverwritten ==
  ASSUME NEW r \in Entries
  PROVE  /\ r.stage \in {"none", "begun", "redeemed", "projected", "minted", "over"}
         /\ r.origin \in IdPSessions \cup {NoSid} /\ r.at \in Times
         /\ \A stage \in {"begun", "projected", "minted", "over"} :
              [r EXCEPT !.stage = stage] = [stage |-> stage, origin |-> r.origin, at |-> r.at]
         /\ \A stage \in {"begun", "projected", "minted", "over"}, at \in Times :
              [r EXCEPT !.stage = stage, !.at = at] =
                [stage |-> stage, origin |-> r.origin, at |-> at]
<1>1. ASSUME NEW stage \in {"begun", "projected", "minted", "over"}
      PROVE  [r EXCEPT !.stage = stage] = [stage |-> stage, origin |-> r.origin, at |-> r.at]
  BY DEF Entries
<1>2. ASSUME NEW stage \in {"begun", "projected", "minted", "over"}, NEW at \in Times
      PROVE  [r EXCEPT !.stage = stage, !.at = at] =
                [stage |-> stage, origin |-> r.origin, at |-> at]
  <2> DEFINE a == [stage |-> stage, origin |-> r.origin, at |-> r.at]
             b == [stage |-> stage, origin |-> r.origin, at |-> at]
  <2>1. [r EXCEPT !.stage = stage] = a
    BY <1>1
  <2>2. [a EXCEPT !.at = at] = b
    OBVIOUS
  <2> HIDE DEF a, b
  <2>3. [[r EXCEPT !.stage = stage] EXCEPT !.at = at] = b
    BY <2>1, <2>2
  <2> QED BY <2>3 DEF b
<1> QED BY <1>1, <1>2 DEF Entries

LEMMA BeginLoginKeeps ==
  ASSUME IInv, NEW s \in Sessions, BeginLogin(s)
  PROVE  IInv'
<1> DEFINE new == [stage |-> "begun", origin |-> signIn[s].origin, at |-> now]
<1>1. /\ signIn[s].stage = "none" /\ users' = users
      /\ signIn' = [signIn EXCEPT ![s].stage = "begun", ![s].at = now]
      /\ UNCHANGED <<now, idp, row, left, request, handler, history>>
  BY DEF BeginLogin, tables
<1>2. signIn \in [Sessions -> Entries] /\ now \in Times /\ users' \subseteq Subjects
  BY <1>1 DEF IInv, TypeOK, Entries
<1>3. signIn'[s] = new /\ signIn' = [signIn EXCEPT ![s] = signIn'[s]]
  <2>1. [signIn[s] EXCEPT !.stage = "begun", !.at = now] = new
    BY <1>2, EntryOverwritten
  <2> QED BY <1>1, <1>2, <2>1
<1>4. new \in Entries /\ new.stage = "begun"
  BY <1>2, EntryOverwritten DEF Entries
<1> HIDE DEF new
<1>5. ~Minting(s)' /\ signIn'[s].stage # "minted"
  BY <1>3, <1>4 DEF Minting
<1> QED BY <1>1, <1>2, <1>3, <1>4, <1>5, SigningInKeeps

LEMMA RedeemCodeKeeps ==
  ASSUME IInv, NEW s \in Sessions, RedeemCode(s)
  PROVE  IInv'
<1>1. PICK g \in IdPSessions :
        /\ ended[g] = Never
        /\ signIn' = [signIn EXCEPT ![s] = [stage |-> "redeemed", origin |-> g, at |-> 0]]
  BY DEF RedeemCode, Exchange
<1> DEFINE new == [stage |-> "redeemed", origin |-> g, at |-> 0]
<1>2. /\ signIn[s].stage = "begun" /\ users' = users
      /\ UNCHANGED <<now, idp, row, left, request, handler, history>>
  BY DEF RedeemCode, tables
<1>3. new \in Entries /\ new.stage = "redeemed" /\ new.origin = g
  BY ConstantsAreNumbers DEF Entries, Times
<1>4. signIn \in [Sessions -> Entries] /\ users' \subseteq Subjects
  BY <1>2 DEF IInv, TypeOK, Entries
<1> HIDE DEF new
<1>5. signIn'[s] = new /\ signIn' = [signIn EXCEPT ![s] = signIn'[s]]
  BY <1>1, <1>4 DEF new
<1>6. /\ signIn[s].stage # "over" /\ signIn'[s] \in Entries
      /\ signIn'[s].origin = g /\ signIn'[s].stage # "minted"
  BY <1>2, <1>3, <1>5
<1>7. /\ Minting(s)' => signIn'[s].origin \in IdPSessions
      /\ signIn'[s].stage = "minted" => signIn'[s].at <= now /\ signIn'[s].at <= LastSignIn
  BY <1>6
<1>8. \A o \in IdPSessions : signIn'[s].origin = o => ended[o] = Never
  BY <1>1, <1>6
<1> QED BY <1>2, <1>4, <1>5, <1>6, <1>7, <1>8, SigningInKeeps

LEMMA FailSignInKeeps ==
  ASSUME IInv, NEW s \in Sessions, FailSignIn(s)
  PROVE  IInv'
<1> DEFINE new == [NoSignIn EXCEPT !.stage = "over"]
<1>1. /\ signIn[s].stage # "over" /\ users' = users
      /\ signIn' = [signIn EXCEPT ![s] = new]
      /\ UNCHANGED <<now, idp, row, left, request, handler, history>>
  BY DEF FailSignIn, tables
<1>2. new \in Entries /\ new.stage = "over"
  BY ConstantsAreNumbers DEF Entries, Times, NoSignIn
<1> HIDE DEF new
<1>3. users' \subseteq Subjects /\ signIn'[s] = new
      /\ signIn' = [signIn EXCEPT ![s] = signIn'[s]]
  BY <1>1 DEF IInv, TypeOK
<1>4. ~Minting(s)' /\ signIn'[s].stage # "minted"
  BY <1>2, <1>3 DEF Minting
<1> QED BY <1>1, <1>2, <1>3, <1>4, SigningInKeeps

LEMMA RecordSignInKeeps ==
  ASSUME IInv, NEW s \in Sessions, RecordSignIn(s)
  PROVE  IInv'
<1> DEFINE new == [stage |-> "projected", origin |-> signIn[s].origin, at |-> signIn[s].at]
<1>1. /\ signIn[s].stage = "redeemed"
      /\ users' = users \cup {SubjectOf[signIn[s].origin]}
      /\ signIn' = [signIn EXCEPT ![s].stage = "projected"]
      /\ UNCHANGED <<now, idp, row, left, request, handler, history>>
  BY DEF RecordSignIn
<1>2. signIn \in [Sessions -> Entries] /\ Minting(s) /\ signIn[s].origin \in IdPSessions
  BY <1>1 DEF IInv, TypeOK, Entries, Minting, Clocked, SignInFine
<1>3. users' \subseteq Subjects
  BY <1>1, <1>2 DEF IInv, TypeOK, Subjects
<1>4. signIn'[s] = new /\ signIn' = [signIn EXCEPT ![s] = signIn'[s]]
  <2>1. [signIn[s] EXCEPT !.stage = "projected"] = new
    BY <1>2, EntryOverwritten
  <2> QED BY <1>1, <1>2, <2>1
<1>5. new \in Entries /\ new.stage = "projected" /\ new.origin = signIn[s].origin
  BY <1>2, EntryOverwritten DEF Entries
<1> HIDE DEF new
<1>6. signIn[s].stage # "over" /\ signIn'[s].stage # "minted"
  BY <1>1, <1>4, <1>5
<1> QED BY <1>1, <1>2, <1>3, <1>4, <1>5, <1>6, SigningInKeeps

LEMMA MintSessionKeeps ==
  ASSUME IInv, NEW s \in Sessions, MintSession(s)
  PROVE  IInv'
<1> DEFINE new == [stage |-> "minted", origin |-> signIn[s].origin, at |-> now]
<1>1. /\ signIn[s].stage = "projected" /\ now <= LastSignIn /\ users' = users
      /\ signIn' = [signIn EXCEPT ![s].stage = "minted", ![s].at = now]
      /\ UNCHANGED <<now, idp, row, left, request, handler, history>>
  BY DEF MintSession, tables
<1>2. signIn \in [Sessions -> Entries] /\ Minting(s) /\ signIn[s].origin \in IdPSessions
      /\ now \in Times /\ users' \subseteq Subjects
  BY <1>1 DEF IInv, TypeOK, Entries, Minting, Clocked, SignInFine
<1>3. signIn'[s] = new /\ signIn' = [signIn EXCEPT ![s] = signIn'[s]]
  <2>1. [signIn[s] EXCEPT !.stage = "minted", !.at = now] = new
    BY <1>2, EntryOverwritten
  <2> QED BY <1>1, <1>2, <2>1
<1>4. new \in Entries /\ new.origin = signIn[s].origin /\ new.at = now
  BY <1>2, EntryOverwritten DEF Entries
<1> HIDE DEF new
<1>5. signIn'[s].at <= now /\ signIn[s].stage # "over"
  BY <1>1, <1>2, <1>3, <1>4, TimesAreNumbers
<1> QED BY <1>1, <1>2, <1>3, <1>4, <1>5, SigningInKeeps

\* The row starts its life; nothing has been read of it, and whoever ended its
\* origin before took note of it.
LEMMA CreateSessionKeeps ==
  ASSUME IInv, NEW s \in Sessions, CreateSession(s)
  PROVE  IInv'
<1> DEFINE from == signIn[s]
           new == [state |-> "standing", subject |-> SubjectOf[from.origin],
                   sid |-> IF provider.idToken THEN from.origin ELSE NoSid,
                   created |-> from.at, lastSeen |-> from.at,
                   absolute |-> from.at + AbsoluteTTL]
           over == [stage |-> "over", origin |-> signIn[s].origin, at |-> 0]
<1>1. /\ signIn[s].stage = "minted"
      /\ row' = [row EXCEPT ![s] = new]
      /\ signIn' = [signIn EXCEPT ![s].stage = "over", ![s].at = 0]
      /\ lastUsed' = [lastUsed EXCEPT ![s] = from.at]
      /\ UNCHANGED <<now, provider, ended, answered, users, left, request, handler,
                     told, missed, overtaken, overlapped>>
  BY DEF CreateSession, idp
<1>2. /\ signIn \in [Sessions -> Entries] /\ Minting(s) /\ from.origin \in IdPSessions
      /\ from.at \in Times /\ from.at <= LastSignIn /\ from.at <= now /\ now \in Times
      /\ ~Exists(s) /\ told[s] = 0
  BY <1>1, EntryOverwritten DEF IInv, TypeOK, Entries, Minting, Clocked, SignInFine
<1>3. /\ signIn' \in [Sessions -> Entries] /\ signIn'[s] = over
      /\ \A o \in Sessions \ {s} : signIn'[o] = signIn[o]
  <2> HIDE DEF from, new
  <2>1. 0 \in Times /\ signIn[s] \in Entries
    BY <1>2, ConstantsAreNumbers DEF Times
  <2>3. [signIn[s] EXCEPT !.stage = "over", !.at = 0] = over
    BY <2>1, EntryOverwritten
  <2>2. over \in Entries
    BY <2>1, EntryOverwritten DEF Entries
  <2> HIDE DEF over
  <2> QED BY <1>1, <1>2, <2>2, <2>3
<1>4. new \in Rows
  <2>1. from.at + AbsoluteTTL \in Times
    BY <1>2, TimesAreNumbers, ConstantsAreNumbers DEF Times
  <2>2. SubjectOf[from.origin] \in Subjects
    BY <1>2 DEF Subjects
  <2> HIDE DEF from
  <2> QED BY <1>2, <2>1, <2>2 DEF Rows
<1>5. /\ row'[s] = new /\ \A o \in Sessions \ {s} : row'[o] = row[o]
      /\ row' \in [Sessions -> Rows \cup {NoRow}]
  <2> HIDE DEF new
  <2> QED BY <1>1, <1>4 DEF IInv, TypeOK
<1>6. lastUsed'[s] = from.at /\ \A o \in Sessions \ {s} : lastUsed'[o] = lastUsed[o]
  BY <1>1 DEF IInv, TypeOK
<1>7. TypeOK'
  <2>1. lastUsed' \in [Sessions -> Times]
    BY <1>1, <1>2 DEF IInv, TypeOK
  <2> QED BY <1>1, <1>3, <1>5, <2>1 DEF IInv, TypeOK, Entries
<1>8. SignInFine(s)' /\ RowFine(s)' /\ Tracked(s)' /\ ToldFine(s)'
  <2>1. SignInFine(s)'
    BY <1>3 DEF SignInFine, Minting
  <2>2. /\ row'[s].lastSeen = from.at /\ row'[s].created = from.at
        /\ row'[s].absolute = from.at + AbsoluteTTL /\ row'[s].subject = SubjectOf[from.origin]
        /\ row'[s].sid = IF provider.idToken THEN from.origin ELSE NoSid
    BY <1>5
  <2>3. from.at \in Nat
    BY <1>2, TimesAreNumbers
  <2>4. RowFine(s)'
    BY <1>1, <1>2, <1>3, <1>6, <2>2, <2>3, ConstantsAreNumbers DEF RowFine
  <2>5. Tracked(s)'
    BY <1>6, <2>2, <2>3, ConstantsAreNumbers DEF Tracked
  <2>6. told'[s] <= ExpiresAt(row[s])'
    BY <1>1, <1>2, <2>2, <2>3, ConstantsAreNumbers DEF ExpiresAt, Earlier
  <2> QED BY <2>1, <2>4, <2>5, <2>6 DEF ToldFine
<1> HIDE DEF new, over, from
<1>9. ASSUME NEW o \in Sessions \ {s}
      PROVE  SignInFine(o)' /\ RowFine(o)' /\ Tracked(o)' /\ ToldFine(o)'
  <2>1. /\ signIn'[o] = signIn[o] /\ row'[o] = row[o] /\ lastUsed'[o] = lastUsed[o]
        /\ SignInFine(o) /\ RowFine(o) /\ Tracked(o) /\ ToldFine(o) /\ now \in Nat
    BY <1>3, <1>5, <1>6, NumbersTyped DEF IInv, Clocked
  <2>2. SignInFine(o)' /\ RowFine(o)' /\ ToldFine(o)'
    <3>1. /\ now' = now /\ now' \in Nat /\ now <= now' /\ provider' = provider
          /\ told'[o] = told[o] /\ overtaken' = overtaken
      BY <1>1, <2>1
    <3> QED BY <2>1, <3>1, SessionStays DEF IInv
  <2> QED BY <1>1, <2>1, <2>2, TrackedStays DEF IsStanding
<1>10. ASSUME NEW q \in Requests PROVE SeenFine(q)'
  <2>1. SeenFine(q) /\ CookieOf[q] \in Sessions
    BY NumbersTyped DEF IInv, Clocked
  <2>2. CASE CookieOf[q] = s
    BY <1>1, <2>1, <2>2 DEF SeenFine, Underway
  <2>3. CASE CookieOf[q] # s
    BY <1>1, <1>3, <1>5, <1>6, <2>1, <2>3, SeenStays DEF Exists
  <2> QED BY <2>2, <2>3
<1>11. Noticed'
  <2>1. signIn'[s].origin = signIn[s].origin /\ ~Minting(s)'
    BY <1>3 DEF over, Minting
  <2>2. row'[s].state = "standing"
    BY <1>5 DEF new
  <2>3. ASSUME NEW o \in Sessions PROVE Narrow(o)'
    BY <1>1, <1>3, <1>5, <2>2 DEF IInv, Noticed, Narrow
  <2>4. ASSUME NEW g \in IdPSessions PROVE NoticeFine(g)'
    BY <1>1, <1>3, <2>1 DEF IInv, Noticed, NoticeFine, Minting, Fallback
  <2>5. ASSUME NEW g \in IdPSessions, g \in answered \/ (\E h \in Handlers : Fallback(h, g))
        PROVE  ~Escapes(s, g)'
    BY <1>1, <1>2, <2>1, <2>5 DEF IInv, Noticed, NoticeFine, Escapes
  <2>6. ASSUME NEW o \in Sessions \ {s}, NEW g \in IdPSessions, Escapes(o, g)' PROVE Escapes(o, g)
    BY <1>1, <1>3, <1>5, <2>6 DEF Escapes, IsStanding
  <2>7. ASSUME NEW g \in IdPSessions PROVE EndedFine(g)'
    BY <1>1, <2>5, <2>6 DEF IInv, Noticed, EndedFine
  <2>8. ASSUME NEW h \in Handlers PROVE FallbackFine(h)'
    BY <1>1, <2>5, <2>6 DEF IInv, Noticed, FallbackFine, Fallback
  <2> QED BY <2>3, <2>4, <2>7, <2>8 DEF Noticed
<1> QED BY <1>7, <1>8, <1>9, <1>10, <1>11 DEF IInv, Clocked

-----------------------------------------------------------------------------
(* A request on a session.                                                 *)

\* What a request's step leaves alone: it changes when its session was seen and
\* used, and what was told of it, and neither shortens its past nor its end.
LEMMA RequestStepKeeps ==
  ASSUME IInv, NEW q \in Requests, NEW c \in Sessions, c = CookieOf[q],
         signIn[c].stage = "over",
         UNCHANGED <<now, idp, users, signIn, left, handler, overlapped>>,
         request' \in [Requests -> {Idle} \cup Open],
         row' \in [Sessions -> Rows \cup {NoRow}],
         lastUsed' \in [Sessions -> Times], told' \in [Sessions -> 0 .. Horizon + IdleTTL],
         \A p \in Requests \ {q} : request'[p] = request[p],
         \A s \in Sessions \ {c} :
           row'[s] = row[s] /\ lastUsed'[s] = lastUsed[s] /\ told'[s] = told[s],
         missed \subseteq missed', missed' \subseteq Sessions,
         overtaken \subseteq overtaken', overtaken' \subseteq Sessions,
         Exists(c)' => /\ Exists(c) /\ row'[c].state = row[c].state
                       /\ row'[c].subject = row[c].subject /\ row'[c].sid = row[c].sid
                       /\ row'[c].created = row[c].created
                       /\ row'[c].absolute = row[c].absolute
                       /\ row'[c].lastSeen <= lastUsed'[c] /\ lastUsed'[c] <= now
                       /\ lastUsed'[c] < row[c].absolute
                       /\ lastUsed[c] <= lastUsed'[c]
                       /\ row[c].lastSeen <= row'[c].lastSeen \/ c \in overtaken',
         Tracked(c)', ToldFine(c)', SeenFine(q)'
  PROVE  IInv'
<1>1. UNCHANGED <<provider, ended, answered>>
  BY DEF idp
<1>2. TypeOK'
  BY <1>1 DEF IInv, TypeOK, Open
<1>3. ASSUME NEW s \in Sessions
      PROVE  SignInFine(s)' /\ RowFine(s)' /\ Tracked(s)' /\ ToldFine(s)'
  <2>1. SignInFine(s) /\ RowFine(s) /\ Tracked(s) /\ ToldFine(s) /\ now \in Nat /\ now <= now
    BY NumbersTyped DEF IInv, Clocked
  <2>2. CASE s = c
    <3>1. SignInFine(c)'
      BY <2>1, <2>2 DEF SignInFine, Minting
    <3>2. RowFine(c)'
      BY <1>1, <2>1, <2>2 DEF RowFine
    <3> QED BY <2>2, <3>1, <3>2
  <2>3. CASE s # c
    <3>1. /\ row'[s] = row[s] /\ lastUsed'[s] = lastUsed[s] /\ told'[s] = told[s]
          /\ signIn'[s] = signIn[s] /\ now' = now
      BY <2>3
    <3>2. SignInFine(s)' /\ RowFine(s)' /\ ToldFine(s)'
      BY <1>1, <2>1, <3>1, SessionStays DEF IInv
    <3>3. \A p \in Requests : CookieOf[p] = s => request'[p] = request[p]
      BY <2>3
    <3>4. IsStanding(s)' = IsStanding(s)
      BY <3>1 DEF IsStanding
    <3>5. Tracked(s)'
      BY <2>1, <3>1, <3>3, <3>4, TrackedStays
    <3> QED BY <3>2, <3>5
  <2> QED BY <2>2, <2>3
<1>4. ASSUME NEW p \in Requests PROVE SeenFine(p)'
  <2>1. SeenFine(p) /\ CookieOf[p] \in Sessions
    BY NumbersTyped DEF IInv, Clocked
  <2>2. CASE p = q
    BY <2>2
  <2>3. CASE p # q /\ CookieOf[p] # c
    <3>1. request'[p] = request[p] /\ row'[CookieOf[p]] = row[CookieOf[p]]
          /\ lastUsed'[CookieOf[p]] = lastUsed[CookieOf[p]]
      BY <2>1, <2>3
    <3> QED BY <2>1, <3>1 DEF SeenFine, Underway, Touching, Exists
  <2>4. CASE p # q /\ CookieOf[p] = c
    <3> SUFFICES ASSUME Underway(p), Exists(c)'
                 PROVE  /\ request[p].seen.absolute = row'[c].absolute
                        /\ request[p].seen.lastSeen <= row'[c].lastSeen \/ c \in overtaken'
                        /\ Touching(p) => request[p].at <= lastUsed'[c]
      BY <2>4 DEF SeenFine, Underway, Touching
    <3>1. /\ request[p].seen.absolute = row[c].absolute
          /\ request[p].seen.lastSeen <= row[c].lastSeen \/ c \in overtaken
          /\ Touching(p) => request[p].at <= lastUsed[c]
      BY <2>1, <2>4 DEF SeenFine
    <3>2. /\ request[p].seen.lastSeen \in Nat /\ request[p].at \in Nat
          /\ row[c].lastSeen \in Nat /\ lastUsed[c] \in Nat
      BY RequestTyped, RowTyped, NumbersTyped DEF IInv
    <3>3. row'[c].lastSeen \in Nat /\ lastUsed'[c] \in Nat
      BY <1>2, RowTyped, TimesAreNumbers DEF TypeOK, Exists, NoRow, Rows
    <3> QED BY <3>1, <3>2, <3>3
  <2> QED BY <2>2, <2>3, <2>4
<1>5. Noticed'
  <2>1. \A s \in Sessions : Exists(s)' =>
           /\ Exists(s) /\ row'[s].state = row[s].state
           /\ row'[s].subject = row[s].subject /\ row'[s].sid = row[s].sid
    BY DEF Exists
  <2> QED BY <1>1, <2>1, NoticesStay DEF Minting, Fallback
<1> QED BY <1>2, <1>3, <1>4, <1>5 DEF IInv, Clocked

LEMMA ReadSessionKeeps ==
  ASSUME IInv, NEW q \in Requests, ReadSession(q)
  PROVE  IInv'
<1> DEFINE c == CookieOf[q]
           new == [stage |-> "read", seen |-> row[c], at |-> 0]
<1>1. /\ request[q] = Idle /\ row[c] # NoRow /\ request' = [request EXCEPT ![q] = new]
      /\ UNCHANGED <<now, idp, users, signIn, left, handler, overlapped, row, lastUsed, told,
                     missed, overtaken>>
  BY DEF ReadSession, tables, history
<1>2. c \in Sessions /\ Exists(c) /\ row[c] \in Rows
  BY <1>1, NumbersTyped DEF IInv, TypeOK, Exists, NoRow, Rows
<1>3. RowFine(c) /\ Tracked(c) /\ ToldFine(c) /\ now \in Nat
      /\ row[c].lastSeen \in Nat /\ lastUsed[c] \in Nat
  BY <1>2, NumbersTyped, RowTyped DEF IInv, Clocked
<1>4. new \in Open /\ new.stage = "read" /\ new.seen = row[c]
  BY <1>2, ConstantsAreNumbers DEF Open, Times
<1> HIDE DEF new
<1>5. /\ request' \in [Requests -> {Idle} \cup Open] /\ request'[q] = new
      /\ \A p \in Requests \ {q} : request'[p] = request[p]
  BY <1>1, <1>4 DEF IInv, TypeOK, Open
<1> HIDE DEF c
<1>6. SeenFine(q)'
  BY <1>1, <1>2, <1>3, <1>4, <1>5 DEF SeenFine, RowFine, Touching, c
<1>7. ToldFine(c)' /\ Tracked(c)'
  <2>1. \A p \in Requests : CookieOf[p] = c /\ Touching(p) => request'[p] = request[p]
    BY <1>1, <1>5 DEF Touching, Idle
  <2>2. IsStanding(c)' = IsStanding(c)
    BY <1>1 DEF IsStanding
  <2>3. Tracked(c)'
    BY <1>1, <1>2, <1>3, <2>1, <2>2, TrackedStays
  <2> QED BY <1>1, <1>3, <2>3 DEF ToldFine, IsStanding
<1>8. /\ row' \in [Sessions -> Rows \cup {NoRow}] /\ lastUsed' \in [Sessions -> Times]
      /\ told' \in [Sessions -> 0 .. Horizon + IdleTTL]
      /\ missed \subseteq missed' /\ missed' \subseteq Sessions
      /\ overtaken \subseteq overtaken' /\ overtaken' \subseteq Sessions
  BY <1>1 DEF IInv, TypeOK
<1>9. /\ signIn[c].stage = "over" /\ row[c].lastSeen <= lastUsed[c] /\ lastUsed[c] <= now
      /\ lastUsed[c] < row[c].absolute /\ lastUsed[c] <= lastUsed[c]
      /\ row[c].lastSeen <= row[c].lastSeen
  BY <1>2, <1>3 DEF RowFine
<1> QED BY <1>1, <1>2, <1>5, <1>6, <1>7, <1>8, <1>9, RequestStepKeeps DEF c

LEMMA LaterIsBoth ==
  ASSUME NEW a \in Nat, NEW b \in Nat
  PROVE  /\ a <= Later(a, b) /\ b <= Later(a, b) /\ Later(a, b) \in {a, b}
         /\ (a <= b => Later(a, b) = b)
  BY DEF Later

LEMMA ExpiryBounds ==
  ASSUME NEW session \in Rows
  PROVE  /\ ExpiresAt(session) \in Nat /\ ExpiresAt(session) <= session.absolute
         /\ ExpiresAt(session) <= session.lastSeen + IdleTTL
         /\ ExpiresAt(session) \in 0 .. Horizon + IdleTTL
<1>1. session.absolute \in Nat /\ session.lastSeen \in Nat /\ session.absolute <= Horizon
  BY TimesAreNumbers DEF Rows
<1> HIDE DEF ExpiresAt
<1>2. ExpiresAt(session) = IF session.absolute < session.lastSeen + IdleTTL
                           THEN session.absolute ELSE session.lastSeen + IdleTTL
  BY DEF ExpiresAt, Earlier
<1> QED BY <1>1, <1>2, ConstantsAreNumbers

\* Of two rows with one absolute bound, the one seen later expires later.
LEMMA ExpiryFollowsSeen ==
  ASSUME NEW r, NEW s, r.absolute \in Nat, r.absolute = s.absolute,
         r.lastSeen \in Nat, s.lastSeen \in Nat, r.lastSeen <= s.lastSeen
  PROVE  ExpiresAt(r) <= ExpiresAt(s)
<1> DEFINE a == r.absolute
           m == r.lastSeen + IdleTTL
           n == s.lastSeen + IdleTTL
<1>1. a \in Nat /\ m \in Nat /\ n \in Nat /\ m <= n
  BY ConstantsAreNumbers
<1>2. ExpiresAt(r) = IF a < m THEN a ELSE m
  BY DEF ExpiresAt, Earlier
<1>3. ExpiresAt(s) = IF a < n THEN a ELSE n
  BY DEF ExpiresAt, Earlier
<1> HIDE DEF a, m, n
<1> QED BY <1>1, <1>2, <1>3

\* A request that is admitted is told no more than the row will keep to.
LEMMA AdmitTells ==
  ASSUME TypeOK, NEW q \in Requests, NEW c \in Sessions, c = CookieOf[q],
         NEW session \in Rows, Admit(q, session)
  PROVE  /\ request'[q] = Idle /\ \A p \in Requests \ {q} : request'[p] = request[p]
         /\ request' \in [Requests -> {Idle} \cup Open]
         /\ told'[c] \in {told[c], ExpiresAt(session)}
         /\ \A s \in Sessions \ {c} : told'[s] = told[s]
         /\ told' \in [Sessions -> 0 .. Horizon + IdleTTL]
<1>1. /\ request' = [request EXCEPT ![q] = Idle]
      /\ told' = [told EXCEPT ![c] = Later(told[c], ExpiresAt(session))]
  BY DEF Admit
<1>2. /\ request \in [Requests -> {Idle} \cup Open]
      /\ told \in [Sessions -> 0 .. Horizon + IdleTTL]
  BY DEF TypeOK, Open
<1>3. told[c] \in Nat /\ ExpiresAt(session) \in Nat /\ ExpiresAt(session) \in 0 .. Horizon + IdleTTL
  BY NumbersTyped, ExpiryBounds
<1>4. Later(told[c], ExpiresAt(session)) \in {told[c], ExpiresAt(session)}
  BY <1>3, LaterIsBoth
<1>5. Later(told[c], ExpiresAt(session)) \in 0 .. Horizon + IdleTTL
  BY <1>2, <1>3, <1>4
<1> QED BY <1>1, <1>2, <1>4, <1>5

LEMMA JudgeSessionKeeps ==
  ASSUME IInv, NEW q \in Requests, JudgeSession(q)
  PROVE  IInv'
<1> DEFINE c == CookieOf[q]
           seen == request[q].seen
<1>1. /\ request[q].stage = "read"
      /\ UNCHANGED <<now, idp, users, signIn, left, handler, overlapped, row, missed, overtaken>>
  BY DEF JudgeSession, tables
<1>2. c \in Sessions /\ Underway(q) /\ ~Touching(q) /\ request[q] \in Open /\ seen \in Rows
  BY <1>1, NumbersTyped, RequestTyped DEF IInv, Underway, Touching
<1>3. SeenFine(q) /\ RowFine(c) /\ Tracked(c) /\ ToldFine(c) /\ signIn[c].stage = "over"
  BY <1>2 DEF IInv, Clocked, SeenFine
<1>4. /\ now \in Nat /\ now \in Times /\ lastUsed[c] \in Nat /\ told[c] \in Nat
      /\ seen.lastSeen \in Nat /\ seen.absolute \in Nat
  BY <1>2, NumbersTyped, RequestTyped DEF IInv, TypeOK
<1>5. /\ row' \in [Sessions -> Rows \cup {NoRow}]
      /\ missed \subseteq missed' /\ missed' \subseteq Sessions
      /\ overtaken \subseteq overtaken' /\ overtaken' \subseteq Sessions
      /\ IsStanding(c)' = IsStanding(c)
  BY <1>1 DEF IInv, TypeOK, IsStanding
<1>6. /\ request \in [Requests -> {Idle} \cup Open] /\ lastUsed \in [Sessions -> Times]
      /\ told \in [Sessions -> 0 .. Horizon + IdleTTL]
  BY DEF IInv, TypeOK, Open
<1>7. CASE ~IsLive(seen, now)
  <2>1. /\ request' = [request EXCEPT ![q] = Idle] /\ lastUsed' = lastUsed /\ told' = told
    BY <1>7 DEF JudgeSession
  <2> HIDE DEF seen, c
  <2>2. /\ request' \in [Requests -> {Idle} \cup Open] /\ request'[q] = Idle
        /\ \A p \in Requests \ {q} : request'[p] = request[p]
    BY <1>6, <2>1
  <2>3. SeenFine(q)'
    BY <2>2 DEF SeenFine, Underway, Idle
  <2>4. Tracked(c)'
    <3>1. \A p \in Requests : CookieOf[p] = c /\ Touching(p) => request'[p] = request[p]
      BY <1>2, <2>2
    <3> QED BY <1>1, <1>2, <1>3, <1>5, <2>1, <3>1, TrackedStays
  <2>5. ToldFine(c)'
    BY <1>1, <1>3, <2>1 DEF ToldFine, IsStanding
  <2>6. Exists(c) => /\ row[c].lastSeen <= lastUsed[c] /\ lastUsed[c] <= now
                     /\ lastUsed[c] < row[c].absolute
    BY <1>3 DEF RowFine
  <2>7. Exists(c) => row[c].lastSeen \in Nat
    BY <1>2, RowTyped DEF IInv
  <2> QED BY <1>1, <1>2, <1>3, <1>4, <1>5, <1>6, <2>1, <2>2, <2>3, <2>4, <2>5, <2>6, <2>7,
             RequestStepKeeps DEF c, Exists
<1>8. CASE IsLive(seen, now)
  <2>1. /\ lastUsed' = [lastUsed EXCEPT ![c] = Later(lastUsed[c], now)]
        /\ IF TouchIsDue(seen, now)
           THEN /\ request' = [request EXCEPT ![q].stage = "touching", ![q].at = now]
                /\ UNCHANGED told
           ELSE Admit(q, seen)
    BY <1>8 DEF JudgeSession
  <2>2. now < seen.absolute
    <3>1. now < ExpiresAt(seen) /\ ExpiresAt(seen) <= seen.absolute /\ ExpiresAt(seen) \in Nat
      BY <1>2, <1>8, ExpiryBounds DEF IsLive
    <3> QED BY <1>4, <3>1
  <2> HIDE DEF seen, c
  <2>3. /\ lastUsed'[c] = Later(lastUsed[c], now)
        /\ lastUsed' \in [Sessions -> Times]
        /\ \A s \in Sessions \ {c} : lastUsed'[s] = lastUsed[s]
    <3>1. Later(lastUsed[c], now) \in Times
      BY <1>2, <1>4, <1>6, LaterIsBoth
    <3> QED BY <1>2, <1>6, <2>1, <3>1
  <2>4. Exists(c) => /\ lastUsed'[c] = now /\ lastUsed[c] <= now /\ row[c].lastSeen <= now
                     /\ now < row[c].absolute /\ row[c].lastSeen \in Nat
                     /\ row[c].absolute = seen.absolute
    <3> SUFFICES ASSUME Exists(c) PROVE /\ lastUsed'[c] = now /\ lastUsed[c] <= now
                     /\ row[c].lastSeen <= now
                     /\ now < row[c].absolute /\ row[c].lastSeen \in Nat
                     /\ row[c].absolute = seen.absolute
      OBVIOUS
    <3>1. /\ row[c].lastSeen <= lastUsed[c] /\ lastUsed[c] <= now
          /\ row[c].absolute = seen.absolute /\ row[c].lastSeen \in Nat
      BY <1>2, <1>3, RowTyped DEF RowFine, SeenFine, IInv, c, seen
    <3>2. lastUsed'[c] = now
      BY <1>4, <2>3, <3>1, LaterIsBoth
    <3> QED BY <1>4, <2>2, <3>1, <3>2
  <2>5. CASE TouchIsDue(seen, now)
    <3> DEFINE new == [stage |-> "touching", seen |-> seen, at |-> now]
    <3>1. new \in Open /\ new.stage = "touching" /\ new.seen = seen /\ new.at = now
      BY <1>2, <1>4 DEF Open, seen
    <3>2. [request[q] EXCEPT !.stage = "touching", !.at = now] = new
      <4> DEFINE a == [stage |-> "touching", seen |-> seen, at |-> request[q].at]
      <4>1. [request[q] EXCEPT !.stage = "touching"] = a
        BY <1>2 DEF Open, seen
      <4>2. [a EXCEPT !.at = now] = new
        OBVIOUS
      <4> HIDE DEF a, new
      <4>3. [[request[q] EXCEPT !.stage = "touching"] EXCEPT !.at = now] = new
        BY <4>1, <4>2
      <4> QED BY <4>3
    <3> HIDE DEF new
    <3>3. /\ request' \in [Requests -> {Idle} \cup Open] /\ request'[q] = new
          /\ \A p \in Requests \ {q} : request'[p] = request[p]
          /\ told' = told
      <4>1. request' = [[request EXCEPT ![q].stage = "touching"] EXCEPT ![q].at = now]
        BY <2>1, <2>5
      <4>2. request'[q] = [[request[q] EXCEPT !.stage = "touching"] EXCEPT !.at = now]
        BY <1>6, <4>1
      <4>3. /\ DOMAIN request' = Requests /\ request' = [p \in Requests |-> request'[p]]
            /\ \A p \in Requests \ {q} : request'[p] = request[p]
        BY <1>6, <4>1
      <4>4. request'[q] = new
        BY <4>2, <3>2
      <4> QED BY <1>6, <2>1, <2>5, <3>1, <4>3, <4>4
    <3>4. SeenFine(q)'
      <4>1. request'[q].at = now /\ request'[q].seen = seen
        BY <3>1, <3>3
      <4>2. Exists(c) => seen.lastSeen <= row[c].lastSeen \/ c \in overtaken
        BY <1>2, <1>3 DEF SeenFine, c, seen
      <4>3. Exists(c) => seen.absolute = row[c].absolute /\ now <= lastUsed'[c]
        BY <1>4, <2>4
      <4> QED BY <1>1, <1>3, <4>1, <4>2, <4>3 DEF SeenFine, Exists, c
    <3>5. Tracked(c)'
      <4>1. IsStanding(c)' => lastUsed'[c] - request'[q].at < TouchInterval
        <5>1. IsStanding(c)' => Exists(c)
          BY <1>1 DEF IsStanding, Exists
        <5> QED BY <5>1, <1>4, <2>4, <3>1, <3>3, ConstantsAreNumbers
      <4>2. CookieOf[q] = c /\ Touching(q)'
        BY <3>1, <3>3 DEF Touching, c
      <4> QED BY <4>1, <4>2 DEF Tracked
    <3>6. ToldFine(c)'
      BY <1>1, <1>3, <3>3 DEF ToldFine, IsStanding
    <3> QED BY <1>1, <1>2, <1>3, <1>4, <1>5, <1>6, <2>3, <2>4, <3>3, <3>4, <3>5, <3>6,
               RequestStepKeeps DEF c, Exists
  <2>6. CASE ~TouchIsDue(seen, now)
    <3>1. /\ request'[q] = Idle /\ \A p \in Requests \ {q} : request'[p] = request[p]
          /\ request' \in [Requests -> {Idle} \cup Open]
          /\ told'[c] \in {told[c], ExpiresAt(seen)}
          /\ \A s \in Sessions \ {c} : told'[s] = told[s]
          /\ told' \in [Sessions -> 0 .. Horizon + IdleTTL]
      <4>1. Admit(q, seen) /\ c = CookieOf[q] /\ seen \in Rows
        BY <1>2, <2>1, <2>6 DEF c
      <4> QED BY <1>2, <4>1, AdmitTells DEF IInv
    <3>2. SeenFine(q)'
      BY <3>1 DEF SeenFine, Underway, Idle
    <3>3. Exists(c) => seen.lastSeen <= row[c].lastSeen \/ c \in overtaken
      BY <1>2, <1>3 DEF SeenFine, c, seen
    <3>4. Tracked(c)'
      <4> SUFFICES ASSUME IsStanding(c)', c \notin overtaken
                   PROVE  lastUsed'[c] - row'[c].lastSeen < TouchInterval
        BY <1>5 DEF Tracked
      <4>1. Exists(c)
        BY <1>1 DEF IsStanding, Exists
      <4>2. now - seen.lastSeen < TouchInterval
        BY <1>4, <2>6, ConstantsAreNumbers DEF TouchIsDue
      <4> QED BY <1>1, <1>4, <2>4, <3>3, <4>1, <4>2, ConstantsAreNumbers
    <3>5. ToldFine(c)'
      <4> SUFFICES ASSUME IsStanding(c), c \notin overtaken
                   PROVE  told'[c] <= ExpiresAt(row[c])
        BY <1>1 DEF ToldFine, IsStanding
      <4>1. Exists(c) /\ told[c] <= ExpiresAt(row[c])
        BY <1>3 DEF ToldFine, IsStanding, Exists
      <4>2. ExpiresAt(seen) <= ExpiresAt(row[c])
        BY <1>4, <2>4, <3>3, <4>1, ExpiryFollowsSeen
      <4> QED BY <3>1, <4>1, <4>2
    <3> QED BY <1>1, <1>2, <1>3, <1>4, <1>5, <1>6, <2>3, <2>4, <3>1, <3>2, <3>4, <3>5,
               RequestStepKeeps DEF c, Exists
  <2> QED BY <2>5, <2>6
<1> QED BY <1>7, <1>8

LEMMA SeenOverwritten ==
  ASSUME NEW r \in Rows, NEW at \in Times
  PROVE  /\ [r EXCEPT !.lastSeen = at] \in Rows
         /\ [r EXCEPT !.lastSeen = at].lastSeen = at
         /\ [r EXCEPT !.lastSeen = at].state = r.state
         /\ [r EXCEPT !.lastSeen = at].subject = r.subject
         /\ [r EXCEPT !.lastSeen = at].sid = r.sid
         /\ [r EXCEPT !.lastSeen = at].created = r.created
         /\ [r EXCEPT !.lastSeen = at].absolute = r.absolute
<1>1. [r EXCEPT !.lastSeen = at] =
        [state |-> r.state, subject |-> r.subject, sid |-> r.sid, created |-> r.created,
         lastSeen |-> at, absolute |-> r.absolute]
  BY DEF Rows
<1> QED BY <1>1 DEF Rows

\* Where a request that touches its session stands.
LEMMA TouchingOn ==
  ASSUME IInv, NEW q \in Requests, NEW c, c = CookieOf[q], Touching(q)
  PROVE  /\ c \in Sessions /\ Underway(q) /\ request[q] \in Open /\ request[q].seen \in Rows
         /\ request[q].at \in Times
         /\ signIn[c].stage = "over"
         /\ SeenFine(q) /\ RowFine(c) /\ Tracked(c) /\ ToldFine(c)
         /\ now \in Nat /\ lastUsed[c] \in Nat /\ told[c] \in Nat /\ request[q].at \in Nat
         /\ request[q].seen.lastSeen \in Nat /\ request[q].seen.absolute \in Nat
<1>1. c \in Sessions /\ Underway(q)
  BY NumbersTyped DEF Touching, Underway, IInv
<1>2. request[q] \in Open /\ request[q].seen \in Rows
  BY <1>1, RequestTyped DEF IInv
<1>3. request[q].at \in Times
  BY <1>2 DEF Open
<1> QED BY <1>1, <1>2, <1>3, RequestTyped, NumbersTyped DEF IInv, Clocked, SeenFine

LEMMA FailTouchKeeps ==
  ASSUME IInv, NEW q \in Requests, FailTouch(q)
  PROVE  IInv'
<1> DEFINE c == CookieOf[q]
           seen == request[q].seen
<1>1. /\ Touching(q) /\ Admit(q, seen) /\ missed' = missed \cup {c}
      /\ UNCHANGED <<now, idp, users, signIn, left, handler, overlapped, row, lastUsed, overtaken>>
  BY DEF FailTouch, Touching, tables
<1>2. /\ c \in Sessions /\ seen \in Rows /\ signIn[c].stage = "over"
      /\ SeenFine(q) /\ RowFine(c) /\ ToldFine(c) /\ Underway(q)
      /\ now \in Nat /\ lastUsed[c] \in Nat /\ seen.lastSeen \in Nat /\ seen.absolute \in Nat
  BY <1>1, TouchingOn
<1>3. /\ request'[q] = Idle /\ \A p \in Requests \ {q} : request'[p] = request[p]
      /\ request' \in [Requests -> {Idle} \cup Open]
      /\ told'[c] \in {told[c], ExpiresAt(seen)}
      /\ \A s \in Sessions \ {c} : told'[s] = told[s]
      /\ told' \in [Sessions -> 0 .. Horizon + IdleTTL]
  BY <1>1, <1>2, AdmitTells DEF IInv
<1>4. Exists(c) => /\ row[c].lastSeen <= lastUsed[c] /\ lastUsed[c] <= now
                   /\ lastUsed[c] < row[c].absolute /\ row[c].lastSeen \in Nat
                   /\ seen.absolute = row[c].absolute
                   /\ seen.lastSeen <= row[c].lastSeen \/ c \in overtaken
  BY <1>2, RowTyped DEF RowFine, SeenFine, IInv
<1> HIDE DEF c, seen
<1>5. SeenFine(q)' /\ Tracked(c)'
  BY <1>1, <1>3 DEF SeenFine, Underway, Idle, Tracked
<1>6. ToldFine(c)'
  <2> SUFFICES ASSUME IsStanding(c), c \notin overtaken
               PROVE  told'[c] <= ExpiresAt(row[c])
    BY <1>1 DEF ToldFine, IsStanding
  <2>1. Exists(c) /\ told[c] <= ExpiresAt(row[c])
    BY <1>2 DEF ToldFine, IsStanding, Exists
  <2>2. ExpiresAt(seen) <= ExpiresAt(row[c])
    BY <1>2, <1>4, <2>1, ExpiryFollowsSeen
  <2> QED BY <1>3, <2>1, <2>2
<1>7. /\ row' \in [Sessions -> Rows \cup {NoRow}] /\ lastUsed' \in [Sessions -> Times]
      /\ missed \subseteq missed' /\ missed' \subseteq Sessions
      /\ overtaken \subseteq overtaken' /\ overtaken' \subseteq Sessions
  BY <1>1, <1>2 DEF IInv, TypeOK
<1> QED BY <1>1, <1>2, <1>3, <1>4, <1>5, <1>6, <1>7, RequestStepKeeps DEF c, Exists

\* A touch writes what its request read off the clock: what it makes up for is
\* tracked by the row from here on, unless it moved the row back.
LEMMA TouchSessionKeeps ==
  ASSUME IInv, NEW q \in Requests, TouchSession(q)
  PROVE  IInv'
<1> DEFINE c == CookieOf[q]
           at == request[q].at
           seen == request[q].seen
           touched == [seen EXCEPT !.lastSeen = at]
<1>1. /\ Touching(q) /\ Admit(q, touched)
      /\ row' = [row EXCEPT ![c] = AfterTouch(row[c], at)]
      /\ overtaken' = IF row[c] # NoRow /\ at < row[c].lastSeen
                      THEN overtaken \cup {c} ELSE overtaken
      /\ UNCHANGED <<now, idp, users, signIn, left, handler, lastUsed, missed, overlapped>>
  BY DEF TouchSession, Touching
<1>2. /\ c \in Sessions /\ seen \in Rows /\ at \in Times /\ signIn[c].stage = "over"
      /\ SeenFine(q) /\ RowFine(c) /\ Tracked(c) /\ ToldFine(c) /\ Underway(q)
      /\ now \in Nat /\ lastUsed[c] \in Nat /\ told[c] \in Nat /\ at \in Nat
      /\ seen.lastSeen \in Nat /\ seen.absolute \in Nat
  BY <1>1, TouchingOn
<1>3. touched \in Rows /\ touched.lastSeen = at /\ touched.absolute = seen.absolute
  BY <1>2, SeenOverwritten
<1> HIDE DEF touched
<1>4. /\ request'[q] = Idle /\ \A p \in Requests \ {q} : request'[p] = request[p]
      /\ request' \in [Requests -> {Idle} \cup Open]
      /\ told'[c] \in {told[c], ExpiresAt(touched)}
      /\ \A s \in Sessions \ {c} : told'[s] = told[s]
      /\ told' \in [Sessions -> 0 .. Horizon + IdleTTL]
  BY <1>1, <1>2, <1>3, AdmitTells DEF IInv
<1>5. Exists(c) => /\ row[c] \in Rows /\ row[c] # NoRow
                   /\ row[c].lastSeen <= lastUsed[c] /\ lastUsed[c] <= now
                   /\ lastUsed[c] < row[c].absolute /\ row[c].lastSeen \in Nat
                   /\ at <= lastUsed[c] /\ seen.absolute = row[c].absolute
                   /\ row[c].absolute \in Nat
  BY <1>1, <1>2, RowTyped DEF RowFine, SeenFine, IInv, Exists, NoRow
<1> HIDE DEF c, seen, at
<1>6. /\ row'[c] = AfterTouch(row[c], at)
      /\ \A s \in Sessions \ {c} : row'[s] = row[s]
      /\ IsStanding(c) => /\ row'[c] = [row[c] EXCEPT !.lastSeen = at]
                          /\ row'[c] \in Rows /\ row'[c].lastSeen = at
                          /\ row'[c].state = row[c].state
                          /\ row'[c].subject = row[c].subject /\ row'[c].sid = row[c].sid
                          /\ row'[c].created = row[c].created
                          /\ row'[c].absolute = row[c].absolute
      /\ ~IsStanding(c) => row'[c] = row[c]
  <2>1. row'[c] = AfterTouch(row[c], at) /\ \A s \in Sessions \ {c} : row'[s] = row[s]
    BY <1>1, <1>2 DEF IInv, TypeOK
  <2>2. ASSUME IsStanding(c)
        PROVE  row'[c] = [row[c] EXCEPT !.lastSeen = at] /\ row[c] \in Rows
    <3>1. Exists(c)
      BY <2>2 DEF IsStanding, Exists
    <3> QED BY <1>5, <2>1, <2>2, <3>1 DEF AfterTouch, IsStanding
  <2>3. ASSUME ~IsStanding(c) PROVE row'[c] = row[c]
    BY <2>1, <2>3 DEF AfterTouch, IsStanding
  <2>4. ASSUME NEW r \in Rows, NEW new, new = [r EXCEPT !.lastSeen = at]
        PROVE  /\ new \in Rows /\ new.lastSeen = at /\ new.state = r.state
               /\ new.subject = r.subject /\ new.sid = r.sid
               /\ new.created = r.created /\ new.absolute = r.absolute
    BY <1>2, <2>4, SeenOverwritten
  <2> QED BY <2>1, <2>2, <2>3, <2>4
<1>7. row' \in [Sessions -> Rows \cup {NoRow}]
  <2>1. row'[c] \in Rows \cup {NoRow}
    BY <1>2, <1>6 DEF IInv, TypeOK
  <2> QED BY <1>1, <1>6, <2>1 DEF IInv, TypeOK
<1>8. Exists(c)' => /\ Exists(c) /\ row'[c].state = row[c].state
                    /\ row'[c].subject = row[c].subject /\ row'[c].sid = row[c].sid
                    /\ row'[c].created = row[c].created
                    /\ row'[c].absolute = row[c].absolute
                    /\ row'[c].lastSeen <= lastUsed[c]
                    /\ row[c].lastSeen <= row'[c].lastSeen \/ c \in overtaken'
  <2>1. CASE IsStanding(c)
    <3>1. Exists(c)
      BY <2>1 DEF IsStanding, Exists
    <3>2. row[c].lastSeen <= at \/ c \in overtaken'
      BY <1>1, <1>2, <1>5, <3>1
    <3> QED BY <1>5, <1>6, <2>1, <3>1, <3>2
  <2>2. CASE ~IsStanding(c)
    BY <1>5, <1>6, <2>2 DEF Exists
  <2> QED BY <2>1, <2>2
<1>9. IsStanding(c)' => IsStanding(c) /\ Exists(c) /\ row'[c].lastSeen = at
                      /\ row'[c].absolute = row[c].absolute
                      /\ (row[c].lastSeen <= at \/ c \in overtaken')
  BY <1>6, <1>8 DEF IsStanding, Exists
<1>10. SeenFine(q)'
  BY <1>4 DEF SeenFine, Underway, Idle
<1>11. overtaken \subseteq overtaken' /\ overtaken' \subseteq Sessions
       /\ missed \subseteq missed' /\ missed' \subseteq Sessions
       /\ lastUsed' \in [Sessions -> Times]
  BY <1>1, <1>2 DEF IInv, TypeOK
<1>12. Tracked(c)'
  <2> SUFFICES ASSUME IsStanding(c)', c \notin missed, c \notin overtaken'
               PROVE  \/ lastUsed[c] - row'[c].lastSeen < TouchInterval
                      \/ \E p \in Requests : /\ CookieOf[p] = c /\ Touching(p)'
                                             /\ lastUsed[c] - request'[p].at < TouchInterval
    BY <1>1 DEF Tracked
  <2>1. row'[c].lastSeen = at /\ row[c].lastSeen <= at /\ Exists(c)
    BY <1>9
  <2>2. CASE lastUsed[c] - row[c].lastSeen < TouchInterval
    BY <1>2, <1>5, <2>1, <2>2, ConstantsAreNumbers
  <2>3. CASE \E p \in Requests :
               CookieOf[p] = c /\ Touching(p) /\ lastUsed[c] - request[p].at < TouchInterval
    <3>1. PICK p \in Requests :
            CookieOf[p] = c /\ Touching(p) /\ lastUsed[c] - request[p].at < TouchInterval
      BY <2>3
    <3>2. CASE p = q
      BY <2>1, <3>1, <3>2 DEF at
    <3>3. CASE p # q
      <4>1. request'[p] = request[p]
        BY <1>4, <3>3
      <4> QED BY <3>1, <4>1 DEF Touching
    <3> QED BY <3>2, <3>3
  <2>4. IsStanding(c) /\ c \notin overtaken
    BY <1>9, <1>11
  <2> QED BY <1>2, <2>2, <2>3, <2>4 DEF Tracked
<1>13. ToldFine(c)'
  <2> SUFFICES ASSUME IsStanding(c)', c \notin overtaken'
               PROVE  told'[c] <= ExpiresAt(row'[c])
    BY DEF ToldFine
  <2>1. /\ IsStanding(c) /\ row'[c].lastSeen = at /\ row[c].lastSeen <= at /\ Exists(c)
        /\ row'[c].absolute = row[c].absolute /\ c \notin overtaken
    BY <1>9, <1>11
  <2>2. told[c] <= ExpiresAt(row[c])
    BY <1>2, <2>1 DEF ToldFine
  <2>3. ExpiresAt(row[c]) <= ExpiresAt(row'[c])
    BY <1>2, <1>5, <2>1, ExpiryFollowsSeen
  <2>4. ExpiresAt(touched) <= ExpiresAt(row'[c])
    <3>1. touched.lastSeen <= row'[c].lastSeen /\ touched.absolute = row'[c].absolute
      BY <1>2, <1>3, <1>5, <2>1
    <3> QED BY <1>2, <1>3, <2>1, <3>1, ExpiryFollowsSeen
  <2>5. ExpiresAt(row[c]) \in Nat /\ ExpiresAt(touched) \in Nat /\ ExpiresAt(row'[c]) \in Nat
    BY <1>3, <1>5, <1>6, <2>1, ExpiryBounds
  <2> QED BY <1>2, <1>4, <2>2, <2>3, <2>4, <2>5
<1>14. Exists(c)' => /\ row'[c].lastSeen <= lastUsed'[c] /\ lastUsed'[c] <= now
                     /\ lastUsed'[c] < row[c].absolute /\ lastUsed[c] <= lastUsed'[c]
  BY <1>1, <1>2, <1>5, <1>8
<1> QED BY <1>1, <1>2, <1>4, <1>6, <1>7, <1>8, <1>10, <1>11, <1>12, <1>13, <1>14,
           RequestStepKeeps DEF c

-----------------------------------------------------------------------------
(* How a session ends.                                                     *)

\* Time may pass, and the notices do what they like with theirs.
LEMMA ClockedStays ==
  ASSUME IInv, now' \in Nat, now <= now', provider' = provider,
         UNCHANGED <<signIn, row, request, lastUsed, told, missed, overtaken>>
  PROVE  Clocked'
<1>1. ASSUME NEW s \in Sessions
      PROVE  SignInFine(s)' /\ RowFine(s)' /\ Tracked(s)' /\ ToldFine(s)'
  <2>1. SignInFine(s) /\ RowFine(s) /\ Tracked(s) /\ ToldFine(s)
    BY DEF IInv, Clocked
  <2>2. SignInFine(s)' /\ RowFine(s)' /\ ToldFine(s)'
    BY <2>1, SessionStays DEF IInv
  <2> QED BY <2>1, <2>2 DEF Tracked, IsStanding, Touching
<1>2. ASSUME NEW q \in Requests PROVE SeenFine(q)'
  BY DEF IInv, Clocked, SeenFine, Underway, Touching, Exists
<1> QED BY <1>1, <1>2 DEF Clocked

LEMMA Revoked ==
  ASSUME TypeOK, NEW dead, row' = Revoking(dead), NEW s \in Sessions
  PROVE  /\ row'[s] \in Rows \cup {NoRow} /\ Exists(s)' = Exists(s)
         /\ ~Exists(s) => row'[s] = row[s]
         /\ Exists(s) => /\ row'[s].state = IF s \in dead THEN "revoked" ELSE row[s].state
                         /\ row'[s].subject = row[s].subject /\ row'[s].sid = row[s].sid
                         /\ row'[s].created = row[s].created
                         /\ row'[s].lastSeen = row[s].lastSeen
                         /\ row'[s].absolute = row[s].absolute
<1>1. row'[s] = IF row[s] # NoRow /\ s \in dead THEN [row[s] EXCEPT !.state = "revoked"] ELSE row[s]
  BY DEF Revoking
<1>2. CASE ~Exists(s)
  <2>1. row[s] = NoRow
    BY <1>2 DEF TypeOK, Exists, Rows
  <2> QED BY <1>1, <1>2, <2>1 DEF Exists
<1>3. CASE Exists(s)
  <2>1. row[s] \in Rows /\ row[s] # NoRow
    BY <1>3, RowTyped DEF Exists, NoRow
  <2>2. ASSUME NEW r \in Rows
        PROVE  [r EXCEPT !.state = "revoked"] =
                 [state |-> "revoked", subject |-> r.subject, sid |-> r.sid,
                  created |-> r.created, lastSeen |-> r.lastSeen, absolute |-> r.absolute]
    BY DEF Rows
  <2>3. CASE s \in dead
    <3>1. row'[s] = [state |-> "revoked", subject |-> row[s].subject, sid |-> row[s].sid,
                     created |-> row[s].created, lastSeen |-> row[s].lastSeen,
                     absolute |-> row[s].absolute]
      BY <1>1, <2>1, <2>2, <2>3
    <3>2. row'[s] \in Rows
      BY <2>1, <3>1 DEF Rows
    <3> QED BY <1>3, <2>3, <3>1, <3>2 DEF Exists
  <2>4. CASE s \notin dead
    BY <1>1, <1>3, <2>1, <2>4 DEF Exists
  <2> QED BY <2>3, <2>4
<1> QED BY <1>2, <1>3

\* Revoking a session moves none of its bounds.
LEMMA RevokingStaysClocked ==
  ASSUME IInv, NEW dead, row' = Revoking(dead),
         UNCHANGED <<now, provider, signIn, request, lastUsed, told, missed, overtaken>>
  PROVE  row' \in [Sessions -> Rows \cup {NoRow}] /\ Clocked'
<1>1. row' \in [Sessions -> Rows \cup {NoRow}]
  BY Revoked DEF IInv, Revoking
<1>2. ASSUME NEW s \in Sessions
      PROVE  /\ Exists(s)' = Exists(s) /\ row'[s].lastSeen = row[s].lastSeen
             /\ Exists(s) => /\ row'[s].subject = row[s].subject /\ row'[s].sid = row[s].sid
                             /\ row'[s].created = row[s].created
                             /\ row'[s].absolute = row[s].absolute
             /\ IsStanding(s)' => IsStanding(s) /\ Exists(s)
  <2>1. IsStanding(s)' => IsStanding(s) /\ Exists(s)
    BY Revoked DEF IInv, IsStanding, Exists
  <2> QED BY <2>1, Revoked DEF IInv
<1>3. ASSUME NEW s \in Sessions
      PROVE  SignInFine(s)' /\ RowFine(s)' /\ Tracked(s)' /\ ToldFine(s)'
  <2>1. SignInFine(s) /\ RowFine(s) /\ Tracked(s) /\ ToldFine(s)
    BY DEF IInv, Clocked
  <2>2. SignInFine(s)' /\ RowFine(s)'
    BY <1>2, <2>1 DEF SignInFine, RowFine, Minting
  <2>3. Tracked(s)'
    BY <1>2, <2>1 DEF Tracked, Touching
  <2>4. ToldFine(s)'
    BY <1>2, <2>1 DEF ToldFine, ExpiresAt
  <2> QED BY <2>2, <2>3, <2>4
<1>4. ASSUME NEW q \in Requests PROVE SeenFine(q)'
  <2>1. SeenFine(q) /\ CookieOf[q] \in Sessions
    BY NumbersTyped DEF IInv, Clocked
  <2> QED BY <1>2, <2>1 DEF SeenFine, Underway, Touching
<1> QED BY <1>1, <1>3, <1>4 DEF Clocked

\* What a notice that was answered, or is to be answered by the second statement,
\* has to have seen to.
Noted(g) ==
  /\ ended[g] # Never
  /\ \A s \in Sessions : signIn[s].origin = g /\ Minting(s) => s \in overlapped

HasReason(s) ==
  \/ s \in left
  \/ ended[signIn[s].origin] # Never
  \/ /\ row[s].sid = NoSid \/ provider.logoutToken = "sub"
     /\ \E g \in IdPSessions : ended[g] # Never /\ SubjectOf[g] = row[s].subject

LEMMA RevokingKeepsNotices ==
  ASSUME IInv, NEW dead, row' = Revoking(dead), UNCHANGED <<provider, signIn, ended>>,
         left \subseteq left', overlapped \subseteq overlapped',
         \A s \in Sessions : Exists(s) /\ s \in dead => s \in left' \/ HasReason(s),
         \A g \in IdPSessions : g \in answered' =>
           \/ g \in answered
           \/ /\ Noted(g)'
              /\ provider.idToken \/ provider.logoutToken # "sid" =>
                   \A s \in Sessions : ~Escapes(s, g)',
         \A g \in IdPSessions, h \in Handlers : Fallback(h, g)' =>
           \/ Fallback(h, g)
           \/ Noted(g)' /\ (provider.idToken => \A s \in Sessions : ~Escapes(s, g)')
  PROVE  Noticed'
<1>1. ASSUME NEW s \in Sessions PROVE Narrow(s)'
  <2> SUFFICES ASSUME row'[s].state = "revoked"
               PROVE  /\ Exists(s) /\ (s \in left' \/ HasReason(s))
                      /\ row'[s].sid = row[s].sid /\ row'[s].subject = row[s].subject
    BY DEF Narrow, HasReason
  <2>1. Exists(s)
    BY Revoked DEF IInv, Exists
  <2>2. /\ row'[s].state = IF s \in dead THEN "revoked" ELSE row[s].state
        /\ row'[s].sid = row[s].sid /\ row'[s].subject = row[s].subject
    BY <2>1, Revoked DEF IInv
  <2>3. s \notin dead => HasReason(s) \/ s \in left'
    BY <2>2 DEF IInv, Noticed, Narrow, HasReason
  <2> QED BY <2>1, <2>2, <2>3
<1>2. ASSUME NEW s \in Sessions, NEW g \in IdPSessions, Escapes(s, g)' PROVE Escapes(s, g)
  <2>1. IsStanding(s)
    BY <1>2, Revoked DEF IInv, Escapes, IsStanding, Exists
  <2> QED BY <1>2, <2>1 DEF Escapes
<1>3. ASSUME NEW g \in IdPSessions, Noted(g) PROVE Noted(g)'
  BY <1>3 DEF Noted, Minting
<1>4. ASSUME NEW g \in IdPSessions PROVE NoticeFine(g)'
  <2>1. g \in answered \/ (\E h \in Handlers : Fallback(h, g)) => Noted(g)
    BY DEF IInv, Noticed, NoticeFine, Noted
  <2>2. g \in answered' \/ (\E h \in Handlers : Fallback(h, g)') => Noted(g)'
    BY <1>3, <2>1
  <2> QED BY <2>2 DEF NoticeFine, Noted
<1>5. ASSUME NEW g \in IdPSessions PROVE EndedFine(g)'
  BY <1>2 DEF IInv, Noticed, EndedFine
<1>6. ASSUME NEW h \in Handlers PROVE FallbackFine(h)'
  BY <1>2 DEF IInv, Noticed, FallbackFine
<1> QED BY <1>1, <1>4, <1>5, <1>6 DEF Noticed

LEMMA LogoutKeeps ==
  ASSUME IInv, NEW s \in Sessions, Logout(s)
  PROVE  IInv'
<1>1. /\ left' = left \cup {s} /\ row' \in {row, Revoking({s})}
      /\ UNCHANGED <<now, provider, ended, answered, users, signIn, request, handler, lastUsed,
                     told, missed, overtaken, overlapped>>
  BY DEF Logout, idp, history
<1>2. PICK dead \in {{}, {s}} : row' = Revoking(dead)
  <2>1. row = Revoking({})
    BY DEF Revoking, IInv, TypeOK
  <2> QED BY <1>1, <2>1
<1>3. row' \in [Sessions -> Rows \cup {NoRow}] /\ Clocked'
  BY <1>1, <1>2, RevokingStaysClocked
<1>4. TypeOK'
  BY <1>1, <1>3 DEF IInv, TypeOK
<1>5. Noticed'
  BY <1>1, <1>2, RevokingKeepsNotices DEF Fallback
<1> QED BY <1>3, <1>4, <1>5 DEF IInv

\* One statement of a notice, when what it revokes is the notice's to revoke and
\* what it leaves is nobody's or the second statement's.
LEMMA RevokeKeeps ==
  ASSUME IInv, NEW h \in Handlers, NEW g \in IdPSessions, NEW dead, NEW again \in BOOLEAN,
         Revoke(h, g, dead, again), ended[g] # Never,
         \A s \in Sessions : Exists(s) /\ s \in dead => HasReason(s),
         provider.idToken \/ (~again /\ provider.logoutToken # "sid") =>
           \A s \in Sessions : Escapes(s, g) => s \in dead
  PROVE  IInv'
<1>1. /\ row' = Revoking(dead)
      /\ handler' = [handler EXCEPT ![h] =
                       IF again THEN [stage |-> "fallback", ends |-> g] ELSE Idle]
      /\ answered' = IF again THEN answered ELSE answered \cup {g}
      /\ overlapped' = overlapped \cup BeingMinted(g)
      /\ UNCHANGED <<now, provider, ended, users, signIn, left, request, lastUsed, told, missed,
                     overtaken>>
  BY DEF Revoke
<1>2. row' \in [Sessions -> Rows \cup {NoRow}] /\ Clocked'
  BY <1>1, RevokingStaysClocked
<1>3. TypeOK'
  <2>1. overlapped' \subseteq Sessions
    BY <1>1 DEF IInv, TypeOK, BeingMinted
  <2>2. handler' \in [Handlers -> {Idle} \cup [stage : {"fallback"}, ends : IdPSessions]]
    BY <1>1 DEF IInv, TypeOK
  <2> QED BY <1>1, <1>2, <2>1, <2>2 DEF IInv, TypeOK
<1>4. Noted(g)'
  BY <1>1 DEF Noted, BeingMinted, Minting
<1>5. provider.idToken \/ (~again /\ provider.logoutToken # "sid") =>
        \A s \in Sessions : ~Escapes(s, g)'
  <2> SUFFICES ASSUME provider.idToken \/ (~again /\ provider.logoutToken # "sid"),
                      NEW s \in Sessions, Escapes(s, g)'
               PROVE  FALSE
    OBVIOUS
  <2>1. IsStanding(s) /\ Exists(s)
    BY <1>1, Revoked DEF IInv, Escapes, IsStanding, Exists
  <2>2. Escapes(s, g)
    BY <1>1, <2>1 DEF Escapes
  <2>3. s \in dead
    BY <2>2
  <2> QED BY <1>1, <2>1, <2>3, Revoked DEF IInv, Escapes, IsStanding
<1>6. ASSUME NEW o \in IdPSessions, NEW k \in Handlers, Fallback(k, o)'
      PROVE  Fallback(k, o) \/ (o = g /\ again)
  <2>1. k # h => handler'[k] = handler[k]
    BY <1>1 DEF IInv, TypeOK
  <2>2. k = h => handler'[k] = IF again THEN [stage |-> "fallback", ends |-> g] ELSE Idle
    BY <1>1 DEF IInv, TypeOK
  <2> QED BY <1>6, <2>1, <2>2 DEF Fallback, Idle
<1>7. Noticed'
  <2>1. \A o \in IdPSessions : o \in answered' => o \in answered \/ (o = g /\ ~again)
    BY <1>1
  <2> QED BY <1>1, <1>4, <1>5, <1>6, <2>1, RevokingKeepsNotices
<1> QED BY <1>2, <1>3, <1>7 DEF IInv

LEMMA VerifiedHasEnded ==
  ASSUME TypeOK, NEW g \in IdPSessions, Verified(g)
  PROVE  ended[g] # Never
  BY ConstantsAreNumbers DEF TypeOK, Verified, Never

LEMMA RevokeSessionsByIDPSessionIDKeeps ==
  ASSUME IInv, NEW h \in Handlers, NEW g \in IdPSessions, RevokeSessionsByIDPSessionID(h, g)
  PROVE  IInv'
<1> DEFINE again == WithSid(g) = {}
<1>1. Revoke(h, g, WithSid(g), again) /\ ended[g] # Never
  BY VerifiedHasEnded DEF RevokeSessionsByIDPSessionID, IInv
<1>2. ASSUME NEW s \in WithSid(g) PROVE s \in Sessions /\ HasReason(s) /\ provider.idToken
  <2>1. s \in Sessions /\ Exists(s) /\ row[s].sid = g
    BY DEF WithSid, Standing, Exists
  <2>2. provider.idToken /\ signIn[s].origin = g
    BY <2>1, SessionsAssumption DEF IInv, Clocked, RowFine
  <2> QED BY <1>1, <2>1, <2>2 DEF HasReason
<1>3. ASSUME provider.idToken \/ ~again, NEW s \in Sessions, Escapes(s, g)
      PROVE  s \in WithSid(g)
  <2>1. provider.idToken
    BY <1>2, <1>3
  <2>2. Exists(s) /\ row[s] # NoRow
    BY <1>3 DEF Escapes, IsStanding, Exists, NoRow
  <2>3. row[s].sid = g
    BY <1>3, <2>1, <2>2 DEF IInv, Clocked, RowFine, Escapes
  <2> QED BY <1>3, <2>2, <2>3 DEF WithSid, Standing, Escapes, IsStanding
<1>4. again \in BOOLEAN
  OBVIOUS
<1> HIDE DEF again
<1> QED BY <1>1, <1>2, <1>3, <1>4, RevokeKeeps

LEMMA RevokeSessionsBySubjectKeeps ==
  ASSUME IInv, NEW h \in Handlers, NEW g \in IdPSessions, RevokeSessionsBySubject(h, g)
  PROVE  IInv'
<1>1. Revoke(h, g, OfSubject(g), FALSE) /\ ended[g] # Never /\ provider.logoutToken = "sub"
  BY VerifiedHasEnded DEF RevokeSessionsBySubject, IInv
<1>2. ASSUME NEW s \in Sessions, s \in OfSubject(g) PROVE HasReason(s)
  BY <1>1, <1>2 DEF HasReason, OfSubject
<1>3. ASSUME NEW s \in Sessions, Escapes(s, g) PROVE s \in OfSubject(g)
  <2>1. Exists(s) /\ row[s] # NoRow
    BY <1>3 DEF Escapes, IsStanding, Exists, NoRow
  <2>2. row[s].subject = SubjectOf[g]
    BY <1>3, <2>1 DEF IInv, Clocked, RowFine, Escapes
  <2> QED BY <1>3, <2>1, <2>2 DEF OfSubject, Standing, Escapes, IsStanding
<1> QED BY <1>1, <1>2, <1>3, RevokeKeeps

\* The second statement revokes the subject's sessions without a sid, which
\* are all that may have come from the session when ID tokens carry none.
LEMMA RevokeSessionsBySubjectWithoutIDPSessionKeeps ==
  ASSUME IInv, NEW h \in Handlers, RevokeSessionsBySubjectWithoutIDPSession(h)
  PROVE  IInv'
<1> DEFINE g == handler[h].ends
           dead == IF provider.logoutToken = "sid" THEN {} ELSE WithoutSid(g)
<1>1. g \in IdPSessions /\ Fallback(h, g)
  BY DEF RevokeSessionsBySubjectWithoutIDPSession, IInv, TypeOK, Fallback
<1>2. Revoke(h, g, dead, FALSE)
  BY DEF RevokeSessionsBySubjectWithoutIDPSession
<1>3. ended[g] # Never /\ (provider.idToken => \A s \in Sessions : ~Escapes(s, g))
  BY <1>1 DEF IInv, Noticed, NoticeFine, FallbackFine
<1>4. ASSUME NEW s \in Sessions, s \in dead PROVE HasReason(s)
  <2>1. s \in WithoutSid(g)
    BY <1>4
  <2> HIDE DEF g
  <2> QED BY <1>1, <1>3, <2>1 DEF HasReason, OfSubject, WithoutSid
<1>5. ASSUME NEW s \in Sessions, Escapes(s, g), provider.logoutToken # "sid", ~provider.idToken
      PROVE  s \in dead
  <2>1. Exists(s) /\ row[s] # NoRow
    BY <1>5 DEF Escapes, IsStanding, Exists, NoRow
  <2>2. row[s].subject = SubjectOf[g] /\ row[s].sid = NoSid
    BY <1>5, <2>1 DEF IInv, Clocked, RowFine, Escapes
  <2>3. s \in Standing
    BY <1>5, <2>1 DEF Standing, Escapes, IsStanding
  <2> QED BY <1>5, <2>2, <2>3 DEF OfSubject, WithoutSid
<1> HIDE DEF g, dead
<1> QED BY <1>1, <1>2, <1>3, <1>4, <1>5, RevokeKeeps

LEMMA FailFallbackKeeps ==
  ASSUME IInv, NEW h \in Handlers, FailFallback(h)
  PROVE  IInv'
<1>1. /\ handler' = [handler EXCEPT ![h] = Idle]
      /\ UNCHANGED <<now, provider, ended, answered, users, row, signIn, left, request, lastUsed,
                     told, missed, overtaken, overlapped>>
  BY DEF FailFallback, idp, tables, history
<1>2. TypeOK'
  BY <1>1 DEF IInv, TypeOK
<1>3. Clocked'
  <2>1. now \in Nat /\ now <= now
    BY NumbersTyped DEF IInv
  <2> QED BY <1>1, <2>1, ClockedStays
<1>4. \A k \in Handlers, g \in IdPSessions : Fallback(k, g)' => Fallback(k, g)
  BY <1>1 DEF IInv, TypeOK, Fallback, Idle
<1>5. Noticed'
  BY <1>1, <1>4, NoticesStay DEF Exists, Minting
<1> QED BY <1>2, <1>3, <1>5 DEF IInv

LEMMA EndIdPSessionKeeps ==
  ASSUME IInv, NEW g \in IdPSessions, EndIdPSession(g)
  PROVE  IInv'
<1>1. /\ ended' = [ended EXCEPT ![g] = LogoutMaxAge + 1]
      /\ UNCHANGED <<now, provider, answered, users, row, signIn, left, request, handler, lastUsed,
                     told, missed, overtaken, overlapped>>
  BY DEF EndIdPSession, tables, history
<1>2. TypeOK'
  BY <1>1, ConstantsAreNumbers DEF IInv, TypeOK
<1>3. Clocked'
  <2>1. now \in Nat /\ now <= now
    BY NumbersTyped DEF IInv
  <2> QED BY <1>1, <2>1, ClockedStays
<1>4. \A o \in IdPSessions : ended[o] # Never => ended'[o] # Never
  BY <1>1, ConstantsAreNumbers DEF IInv, TypeOK, Never
<1>5. Noticed'
  BY <1>1, <1>4, NoticesStay DEF Exists, Minting, Fallback
<1> QED BY <1>2, <1>3, <1>5 DEF IInv

\* What is swept leaves nothing behind, and nothing else is.
LEMMA DeleteSessionsExpiredBeforeKeeps ==
  ASSUME IInv, DeleteSessionsExpiredBefore
  PROVE  IInv'
<1> DEFINE swept == {s \in Sessions : row[s] # NoRow /\ IsSwept(row[s])}
<1>1. /\ row' = [s \in Sessions |-> IF s \in swept THEN NoRow ELSE row[s]]
      /\ lastUsed' = [s \in Sessions |-> IF s \in swept THEN 0 ELSE lastUsed[s]]
      /\ told' = [s \in Sessions |-> IF s \in swept THEN 0 ELSE told[s]]
      /\ missed' = missed \ swept /\ overtaken' = overtaken \ swept
      /\ overlapped' = overlapped \ swept /\ left' = left \ swept
      /\ UNCHANGED <<now, provider, ended, answered, users, signIn, request, handler>>
  BY DEF DeleteSessionsExpiredBefore, idp
<1>2. ASSUME NEW s \in swept PROVE s \in Sessions /\ Exists(s) /\ signIn[s].stage = "over"
  <2>1. s \in Sessions /\ Exists(s)
    BY DEF IInv, TypeOK, Exists, NoRow, Rows
  <2> QED BY <2>1 DEF IInv, Clocked, RowFine
<1> HIDE DEF swept
<1>3. TypeOK'
  BY <1>1, ConstantsAreNumbers DEF IInv, TypeOK, Times
<1>4. ASSUME NEW s \in Sessions
      PROVE  /\ s \in swept => row'[s] = NoRow /\ told'[s] = 0
             /\ s \notin swept => /\ row'[s] = row[s] /\ lastUsed'[s] = lastUsed[s]
                                  /\ told'[s] = told[s]
                                  /\ s \in overtaken => s \in overtaken'
                                  /\ s \in missed => s \in missed'
  BY <1>1
<1>5. ASSUME NEW s \in Sessions
      PROVE  SignInFine(s)' /\ RowFine(s)' /\ Tracked(s)' /\ ToldFine(s)'
  <2>1. SignInFine(s) /\ RowFine(s) /\ Tracked(s) /\ ToldFine(s) /\ now \in Nat /\ now <= now
    BY NumbersTyped DEF IInv, Clocked
  <2>2. CASE s \in swept
    <3>1. ~Exists(s)' /\ ~IsStanding(s)'
      BY <1>4, <2>2 DEF Exists, IsStanding, NoRow
    <3> QED BY <1>1, <1>2, <2>1, <2>2, <3>1 DEF SignInFine, RowFine, Tracked, ToldFine, Minting
  <2>3. CASE s \notin swept
    <3>1. SignInFine(s)' /\ RowFine(s)' /\ ToldFine(s)'
      <4>1. /\ row'[s] = row[s] /\ lastUsed'[s] = lastUsed[s] /\ told'[s] = told[s]
            /\ s \in overtaken => s \in overtaken'
        BY <1>4, <2>3
      <4> QED BY <1>1, <2>1, <4>1, SessionStays DEF IInv
    <3>2. Tracked(s)'
      BY <1>1, <1>4, <2>1, <2>3, TrackedStays DEF IsStanding
    <3> QED BY <3>1, <3>2
  <2> QED BY <2>2, <2>3
<1>6. ASSUME NEW q \in Requests PROVE SeenFine(q)'
  <2>1. SeenFine(q) /\ CookieOf[q] \in Sessions
    BY NumbersTyped DEF IInv, Clocked
  <2>2. Exists(CookieOf[q])' => CookieOf[q] \notin swept
    BY <1>4, <2>1 DEF Exists, NoRow
  <2> QED BY <1>1, <1>4, <2>1, <2>2 DEF SeenFine, Underway, Touching, Exists
<1>7. Noticed'
  <2>1. ASSUME NEW s \in Sessions, Exists(s)'
        PROVE  Exists(s) /\ row'[s] = row[s] /\ s \notin swept
    BY <1>4, <2>1 DEF Exists, NoRow
  <2>2. ASSUME NEW s \in Sessions, Minting(s)' PROVE Minting(s) /\ s \notin swept
    BY <1>1, <1>2, <2>2 DEF Minting
  <2>3. \A s \in Sessions : s \notin swept => /\ (s \in left => s \in left')
                                             /\ (s \in overlapped => s \in overlapped')
    BY <1>1
  <2> QED BY <1>1, <2>1, <2>2, <2>3, NoticesStay DEF Fallback
<1> QED BY <1>3, <1>5, <1>6, <1>7 DEF IInv, Clocked

LEMMA TickKeeps ==
  ASSUME IInv, Tick
  PROVE  IInv'
<1>1. /\ now < Horizon /\ now' = now + 1
      /\ ended' = [g \in IdPSessions |-> IF ended[g] > 0 THEN ended[g] - 1 ELSE ended[g]]
      /\ UNCHANGED <<provider, answered, users, row, signIn, left, request, handler, lastUsed,
                     told, missed, overtaken, overlapped>>
  BY DEF Tick, tables, history
<1>2. now' \in Times /\ now' \in Nat /\ now <= now'
  BY <1>1, NumbersTyped, ConstantsAreNumbers DEF IInv, Times
<1>3. ASSUME NEW g \in IdPSessions
      PROVE  /\ ended'[g] \in 0 .. LogoutMaxAge + 1 \cup {Never}
             /\ ended[g] # Never => ended'[g] # Never
  BY <1>1, ConstantsAreNumbers DEF IInv, TypeOK, Never
<1>4. TypeOK'
  BY <1>1, <1>2, <1>3 DEF IInv, TypeOK
<1>5. Clocked'
  BY <1>1, <1>2, ClockedStays
<1>6. Noticed'
  BY <1>1, <1>3, NoticesStay DEF Exists, Minting, Fallback
<1> QED BY <1>4, <1>5, <1>6 DEF IInv

-----------------------------------------------------------------------------
(* The theorems.                                                           *)

LEMMA StutterKeeps ==
  ASSUME IInv, UNCHANGED vars
  PROVE  IInv'
<1>1. UNCHANGED <<now, provider, ended, answered, users, row, signIn, left, request, handler,
                  lastUsed, told, missed, overtaken, overlapped>>
  BY DEF vars, idp, tables, history
<1>2. TypeOK'
  BY <1>1 DEF IInv, TypeOK
<1>3. Clocked'
  BY <1>1, NumbersTyped, ClockedStays DEF IInv
<1>4. Noticed'
  BY <1>1, NoticesStay DEF IInv, Exists, Minting, Fallback
<1> QED BY <1>2, <1>3, <1>4 DEF IInv

LEMMA NextKeeps ==
  ASSUME IInv, [Next]_vars
  PROVE  IInv'
<1>1. ASSUME NEW s \in Sessions, SignInSteps(s) PROVE IInv'
  BY <1>1, BeginLoginKeeps, RedeemCodeKeeps, FailSignInKeeps, RecordSignInKeeps,
     MintSessionKeeps, CreateSessionKeeps DEF SignInSteps
<1>2. ASSUME NEW q \in Requests, RequestSteps(q) PROVE IInv'
  BY <1>2, ReadSessionKeeps, JudgeSessionKeeps, TouchSessionKeeps, FailTouchKeeps
     DEF RequestSteps
<1>3. ASSUME NEW h \in Handlers, NoticeSteps(h) PROVE IInv'
  BY <1>3, RevokeSessionsByIDPSessionIDKeeps, RevokeSessionsBySubjectKeeps,
     RevokeSessionsBySubjectWithoutIDPSessionKeeps, FailFallbackKeeps DEF NoticeSteps
<1> QED BY <1>1, <1>2, <1>3, LogoutKeeps, EndIdPSessionKeeps, DeleteSessionsExpiredBeforeKeeps,
           TickKeeps, StutterKeeps DEF Next

\* Every reachable state satisfies the inductive invariant: where each row and
\* each request's reading of it comes from, which touch makes up for an idle
\* bound that lags, and what a notice has seen to before it is answered.
THEOREM Invariant == Spec => []IInv
<1>1. Init => IInv
  BY InitEstablishes
<1>2. IInv /\ [Next]_vars => IInv'
  BY NextKeeps
<1> QED BY <1>1, <1>2, PTL DEF Spec

\* Every variable keeps its type: no reading of the clock, no bound and no end
\* that a request is told leaves its range.
THEOREM TypeCorrect == Spec => []TypeOK
<1>1. IInv => TypeOK
  BY DEF IInv
<1> QED BY <1>1, Invariant, PTL

\* A row is there when its state is one.
LEMMA PresentExists ==
  ASSUME TypeOK, NEW s \in Sessions
  PROVE  row[s] # NoRow <=> Exists(s)
  BY DEF TypeOK, Exists, NoRow, Rows

\* The touches of authenticate keep the idle bound in step with the use of the
\* session: what is missing is on its way, failed, or was overtaken.
THEOREM IdleBoundIsTracked == Spec => []IdleBoundTracksUse
<1>1. ASSUME IInv, NEW s \in Sessions, row[s] # NoRow, row[s].state = "standing"
      PROVE  /\ row[s].lastSeen <= lastUsed[s]
             /\ \/ lastUsed[s] - row[s].lastSeen < TouchInterval
                \/ s \in missed \cup overtaken
                \/ \E q \in Requests :
                     request[q] # Idle /\ request[q].stage = "touching" /\ CookieOf[q] = s
  <2>1. RowFine(s) /\ Tracked(s) /\ Exists(s) /\ IsStanding(s)
    BY <1>1, PresentExists DEF IInv, Clocked, IsStanding
  <2>2. \A q \in Requests : Touching(q) => request[q] # Idle
    BY DEF Touching, Idle
  <2> QED BY <2>1, <2>2 DEF RowFine, Tracked, Touching
<1>2. IInv => IdleBoundTracksUse
  BY <1>1 DEF IdleBoundTracksUse
<1> QED BY <1>2, Invariant, PTL

\* The absolute bound is fixed when the row is made, and no request is admitted
\* at or after it, however the touches slide the idle bound.
THEOREM WorkdaysEnd == Spec => []NobodyOutstaysTheWorkday
<1>1. ASSUME IInv, NEW s \in Sessions, row[s] # NoRow
      PROVE  lastUsed[s] < row[s].created + AbsoluteTTL
  <2>1. RowFine(s) /\ Exists(s)
    BY <1>1, PresentExists DEF IInv, Clocked
  <2> QED BY <2>1 DEF RowFine
<1>2. IInv => NobodyOutstaysTheWorkday
  BY <1>1 DEF NobodyOutstaysTheWorkday
<1> QED BY <1>2, Invariant, PTL

\* A session lasts as long as /v1/me has said, whichever of the requests on it
\* was told last.
THEOREM ToldEndsAreKept == Spec => []ToldEndIsKept
<1>1. ASSUME IInv PROVE ToldEndIsKept
  BY <1>1 DEF IInv, Clocked, ToldFine, IsStanding, ToldEndIsKept
<1> QED BY <1>1, Invariant, PTL

\* handleBackchannelLogout answers 200 only when both statements have seen to
\* every session of the provider's, for any number of notices at once.
THEOREM AnsweredNoticesEndSessions == Spec => []EndedMeansEnded
<1>1. ASSUME IInv, NEW s \in Sessions, row[s] # NoRow, signIn[s].origin \in answered,
             provider.idToken \/ provider.logoutToken # "sid"
      PROVE  row[s].state = "revoked" \/ s \in overlapped
  <2>1. Exists(s) /\ row[s] \in Rows
    BY <1>1, PresentExists, RowTyped DEF IInv
  <2>2. EndedFine(signIn[s].origin)
    BY <1>1 DEF IInv, TypeOK, Noticed
  <2>3. ~Escapes(s, signIn[s].origin)
    BY <1>1, <2>2 DEF EndedFine
  <2> QED BY <2>1, <2>3 DEF Escapes, IsStanding, Rows
<1>2. IInv => EndedMeansEnded
  BY <1>1 DEF EndedMeansEnded
<1> QED BY <1>2, Invariant, PTL

\* Nobody's session is revoked for another session's end, but where a token
\* names no sid and the subject is all there is to go by.
THEOREM LogoutsAreNarrow == Spec => []LogoutIsNarrow
<1>1. ASSUME IInv PROVE LogoutIsNarrow
  BY <1>1 DEF IInv, Noticed, Narrow, LogoutIsNarrow
<1> QED BY <1>1, Invariant, PTL

\* Nothing but the reaper takes a row away.
LEMMA OnlyTheReaperDeletes ==
  ASSUME IInv, Next, NEW s \in Sessions, Exists(s), ~Exists(s)'
  PROVE  DeleteSessionsExpiredBefore
<1>1. row' # row
  BY DEF Exists
<1>2. ASSUME NEW dead PROVE row' # Revoking(dead)
  BY Revoked DEF IInv
<1>3. ~\E o \in Sessions : SignInSteps(o)
  <2>1. ASSUME NEW o \in Sessions, CreateSession(o) PROVE FALSE
    BY <2>1 DEF CreateSession, Exists, IInv, TypeOK
  <2> QED BY <1>1, <2>1 DEF SignInSteps, BeginLogin, RedeemCode, FailSignIn, RecordSignIn,
             MintSession, tables
<1>4. ~\E o \in Sessions : Logout(o)
  BY <1>1, <1>2 DEF Logout
<1>5. ~\E q \in Requests : RequestSteps(q)
  <2>1. ASSUME NEW q \in Requests, TouchSession(q) PROVE FALSE
    <3> DEFINE at == request[q].at
    <3>1. row' = [row EXCEPT ![CookieOf[q]] = AfterTouch(row[CookieOf[q]], at)]
      BY <2>1 DEF TouchSession
    <3>2. row'[s] \in {row[s], AfterTouch(row[s], at)}
      BY <3>1 DEF IInv, TypeOK
    <3>3. AfterTouch(row[s], at) \in {row[s], [row[s] EXCEPT !.lastSeen = at]}
      BY DEF AfterTouch
    <3>4. [row[s] EXCEPT !.lastSeen = at].state = row[s].state
      BY RowTyped DEF IInv, Rows
    <3> QED BY <3>2, <3>3, <3>4 DEF Exists
  <2> QED BY <1>1, <2>1 DEF RequestSteps, ReadSession, JudgeSession, FailTouch, tables
<1>6. ~\E h \in Handlers : NoticeSteps(h)
  BY <1>1, <1>2 DEF NoticeSteps, RevokeSessionsByIDPSessionID, RevokeSessionsBySubject,
     RevokeSessionsBySubjectWithoutIDPSession, FailFallback, Revoke, tables
<1>7. ~Tick /\ ~\E g \in IdPSessions : EndIdPSession(g)
  BY <1>1 DEF Tick, EndIdPSession, tables
<1> QED BY <1>3, <1>4, <1>5, <1>6, <1>7 DEF Next

\* Of a session whose absolute bound is past, no reading is live: the bound is
\* the same on every reading of its row.
LEMMA SweptIsDead ==
  ASSUME IInv, NEW s \in Sessions, Exists(s), IsSwept(row[s])
  PROVE  /\ ~IsLive(row[s], now)
         /\ \A q \in Requests : CookieOf[q] = s /\ Underway(q) => ~IsLive(request[q].seen, now)
<1>1. now \in Nat /\ row[s] \in Rows /\ row[s].absolute \in Nat /\ row[s].absolute < now
  BY NumbersTyped, RowTyped DEF IInv, IsSwept
<1>2. ~IsLive(row[s], now)
  BY <1>1, ExpiryBounds DEF IsLive
<1>3. ASSUME NEW q \in Requests, CookieOf[q] = s, Underway(q)
      PROVE  ~IsLive(request[q].seen, now)
  <2>1. request[q].seen \in Rows /\ request[q].seen.absolute \in Nat
    BY <1>3, RequestTyped DEF IInv
  <2>2. request[q].seen.absolute = row[s].absolute
    BY <1>3 DEF IInv, Clocked, SeenFine
  <2> QED BY <1>1, <2>1, <2>2, ExpiryBounds DEF IsLive
<1> QED BY <1>2, <1>3

\* ReapSessions needs no lock: a request that read the row before the sweep
\* judges it dead too.
THEOREM OnlyTheDeadAreReaped == Spec => ReaperTakesTheDead
<1> DEFINE Dead(s) ==
      row[s] # NoRow /\ row'[s] = NoRow =>
        /\ ~IsLive(row[s], now)
        /\ \A q \in Requests :
             CookieOf[q] = s /\ request[q] # Idle /\ request[q].stage = "read" =>
               ~IsLive(request[q].seen, now)
<1>1. ASSUME IInv, Next, NEW s \in Sessions PROVE Dead(s)
  <2> SUFFICES ASSUME row[s] # NoRow, row'[s] = NoRow
               PROVE  /\ ~IsLive(row[s], now)
                      /\ \A q \in Requests :
                           CookieOf[q] = s /\ request[q].stage = "read" =>
                             ~IsLive(request[q].seen, now)
    OBVIOUS
  <2>1. Exists(s) /\ ~Exists(s)'
    BY <1>1, PresentExists DEF IInv, Exists, NoRow
  <2>2. DeleteSessionsExpiredBefore
    BY <1>1, <2>1, OnlyTheReaperDeletes
  <2>3. IsSwept(row[s])
    BY <1>1, <2>2 DEF DeleteSessionsExpiredBefore
  <2> QED BY <1>1, <2>1, <2>3, SweptIsDead DEF Underway
<1>2. ASSUME IInv, [Next]_vars PROVE [\A s \in Sessions : Dead(s)]_vars
  BY <1>1, <1>2
<1>3. IInv /\ [Next]_vars => [\A s \in Sessions : Dead(s)]_vars
  BY <1>2
<1> QED BY <1>3, Invariant, PTL DEF Spec, ReaperTakesTheDead

-----------------------------------------------------------------------------
(* The keys that sign-in trusts.                                           *)
(*                                                                         *)
(* A sign-in's token and a provider's notice are believed for the key they *)
(* are signed with.  The two specifications share no state, and nothing    *)
(* below uses anything above.                                              *)

(* The inductive invariant of the keys.                                    *)

IsOpen(t) == token[t] # NoToken

\* The cooldown ends when the provider has been left alone for that long.
CooledDown == cooldown + quiet = RefreshCooldown

\* Whoever is refreshing holds refreshMu.
OneRefresh ==
  \A t \in Tokens : token[t].stage = "refreshing" <=> refresh # Free /\ refresh.by = t

\* A set that landed is the one in hand, not vetted yet.
LandedIsHeld == refresh.stage = "landed" => refresh.to = url /\ set = refresh.doc

\* The keys of an answer were published when it was given, and a set's keys when
\* the answer it came from was.  Of an answer that nobody will make a set of,
\* nothing is said.
AnswerIsFresh ==
  refresh.stage \in {"served", "landed"} /\ ~Hung =>
    \A k \in refresh.doc : gone[k] <= refresh.elapsed

SetIsFresh == freshFor > 0 => \A k \in set : gone[k] + freshFor <= Forgotten

\* A key counts as gone only while nobody is served it.
PublishedIsNotGone == \A k \in Keys : Served(published, k) => gone[k] = 0

\* What excuses a verdict is noted in every open verification.
ExcusesAreNoted ==
  \A t \in Tokens :
    IsOpen(t) /\ Unsettled(token[t].key, published[address], url # address, set) =>
      token[t].excused

\* A verification whose own refresh is being made, or has been made.
Refreshes(t) ==
  \/ token[t].stage = "refreshing"
  \/ token[t].stage = "again" /\ token[t].error = "none"

\* What such a refresh brings has the key, if nothing excuses that it has not.
AnswerServes ==
  refresh.stage \in {"served", "landed"} /\ refresh.to = url =>
    \A t \in Tokens :
      Refreshes(t) /\ ~token[t].excused => token[t].key \in refresh.doc

SetServes ==
  \A t \in Tokens :
    token[t].stage = "again" /\ token[t].error = "none" /\ ~token[t].excused =>
      token[t].key \in set

Excuses == ExcusesAreNoted /\ AnswerServes /\ SetServes /\ GenuineIsNotCalledInvalid

\* What the tokens say of the refresh, the timers of each other, and the sets of
\* what the provider served.
KInv ==
  /\ KeysTypeOK /\ OneRefresh
  /\ CooledDown
  /\ LandedIsHeld /\ AnswerIsFresh /\ SetIsFresh /\ PublishedIsNotGone
  /\ Excuses

-----------------------------------------------------------------------------
(* Types.                                                                  *)

Opened == [stage : {"waiting", "refreshing", "again"} \cup Verdicts,
           key : Keys, why : {"missing", "signature"},
           error : {"none", "cooldown", "failed"}, excused : BOOLEAN, left : BOOLEAN]

Ongoing == [stage : {"discovering", "asking", "served", "landed"}, by : Tokens,
            to : Addresses, doc : SUBSET Keys, elapsed : 0 .. Timeout]

TokensFine == token \in [Tokens -> {NoToken} \cup Opened]
RefreshFine == refresh \in {Free} \cup Ongoing
CacheFine ==
  /\ url \in Addresses /\ set \subseteq Keys /\ owner \in Tokens \cup {Process, Nobody}
  /\ freshFor \in 0 .. MaxFresh /\ discoveryFor \in 0 .. DiscoveryTTL
ServingFine ==
  /\ published \in [Addresses -> Documents]
  /\ address \in Addresses /\ up \in BOOLEAN
  /\ changes \in 0 .. MaxChanges
CountersFine ==
  /\ arrivals \in 0 .. MaxArrivals
  /\ cooldown \in 0 .. RefreshCooldown
  /\ gone \in [Keys -> 0 .. Forgotten]
  /\ quiet \in 0 .. RefreshCooldown

LEMMA KeyTypesAre ==
  KeysTypeOK <=> TokensFine /\ RefreshFine /\ CacheFine /\ ServingFine /\ CountersFine
  BY DEF KeysTypeOK, TokensFine, RefreshFine, CacheFine, ServingFine, CountersFine, Opened,
     Ongoing

LEMMA KeysLimits ==
  /\ MaxFresh \in Nat \ {0} /\ MinFresh \in Nat \ {0} /\ MinFresh <= MaxFresh
  /\ DiscoveryTTL \in Nat \ {0} /\ RefreshCooldown \in Nat \ {0} /\ Timeout \in Nat \ {0}
  /\ MaxChanges \in Nat /\ MaxArrivals \in Nat
  /\ Forgotten = MaxFresh + Timeout /\ Forgotten \in Nat
  BY KeysAssumption DEF Forgotten

LEMMA IdleIsClosed ==
  /\ NoToken.stage = "idle" /\ NoToken \notin Opened
  /\ \A r \in Opened : r # NoToken /\ r.stage # "idle"
  BY DEF NoToken, Opened, Verdicts

LEMMA FreeIsNone ==
  /\ Free.stage = "free" /\ \A r \in Ongoing : r # Free /\ r.stage # "free"
  BY DEF Free, Ongoing

LEMMA OpenIsOpened ==
  ASSUME TokensFine, NEW t \in Tokens, IsOpen(t)
  PROVE  token[t] \in Opened
  BY DEF TokensFine, IsOpen

LEMMA HeldIsOngoing ==
  ASSUME RefreshFine, refresh # Free
  PROVE  refresh \in Ongoing
  BY DEF RefreshFine

LEMMA DocumentsAreSets == \A d \in Documents : d \subseteq Keys
  BY KeysAssumption

\* A stage or an error changed, or an excuse noted.
LEMMA OpenedUpdate ==
  ASSUME NEW r \in Opened
  PROVE  /\ \A s \in {"waiting", "refreshing", "again"} \cup Verdicts :
              /\ [r EXCEPT !.stage = s] \in Opened
              /\ [r EXCEPT !.stage = s].stage = s
              /\ [r EXCEPT !.stage = s].key = r.key
              /\ [r EXCEPT !.stage = s].error = r.error
              /\ [r EXCEPT !.stage = s].excused = r.excused
         /\ \A why \in {"missing", "signature"} :
              /\ Wait(r, why) \in Opened
              /\ Wait(r, why).stage = "waiting" /\ Wait(r, why).key = r.key
              /\ Wait(r, why).excused = r.excused
         /\ \A e \in {"none", "cooldown", "failed"} :
              /\ [r EXCEPT !.stage = "again", !.error = e] \in Opened
              /\ [r EXCEPT !.stage = "again", !.error = e].stage = "again"
              /\ [r EXCEPT !.stage = "again", !.error = e].error = e
              /\ [r EXCEPT !.stage = "again", !.error = e].key = r.key
              /\ [r EXCEPT !.stage = "again", !.error = e].excused = r.excused
<1>1. \A s \in {"waiting", "refreshing", "again"} \cup Verdicts :
        /\ [r EXCEPT !.stage = s] \in Opened
        /\ [r EXCEPT !.stage = s].stage = s
        /\ [r EXCEPT !.stage = s].key = r.key
        /\ [r EXCEPT !.stage = s].error = r.error
        /\ [r EXCEPT !.stage = s].excused = r.excused
  BY DEF Opened
<1>2. \A why \in {"missing", "signature"} :
        /\ Wait(r, why) \in Opened
        /\ Wait(r, why).stage = "waiting" /\ Wait(r, why).key = r.key
        /\ Wait(r, why).excused = r.excused
  BY DEF Opened, Wait
<1>3. \A e \in {"none", "cooldown", "failed"} :
        /\ [r EXCEPT !.stage = "again", !.error = e] \in Opened
        /\ [r EXCEPT !.stage = "again", !.error = e].stage = "again"
        /\ [r EXCEPT !.stage = "again", !.error = e].error = e
        /\ [r EXCEPT !.stage = "again", !.error = e].key = r.key
        /\ [r EXCEPT !.stage = "again", !.error = e].excused = r.excused
  BY DEF Opened
<1> QED
  BY <1>1, <1>2, <1>3

-----------------------------------------------------------------------------
(* Excuses.                                                                *)

\* Nothing but excuses is added to the tokens.
ExcusesNoted(tokens, offered, moved, held) ==
  \A t \in Tokens :
    /\ tokens[t] # NoToken <=> IsOpen(t)
    /\ tokens[t].stage = token[t].stage
    /\ IsOpen(t) =>
         /\ tokens[t] \in Opened
         /\ tokens[t].key = token[t].key /\ tokens[t].error = token[t].error
         /\ tokens[t].excused <=>
              token[t].excused \/ Unsettled(token[t].key, offered, moved, held)

LEMMA ExcusingNotes ==
  ASSUME TokensFine, NEW offered, NEW moved \in BOOLEAN, NEW held
  PROVE  LET tokens == Excusing(token, offered, moved, held)
         IN /\ tokens \in [Tokens -> {NoToken} \cup Opened]
            /\ ExcusesNoted(tokens, offered, moved, held)
<1> DEFINE tokens == Excusing(token, offered, moved, held)
<1>1. tokens = [t \in Tokens |->
        IF token[t] = NoToken THEN NoToken
        ELSE [token[t] EXCEPT !.excused =
                @ \/ Unsettled(token[t].key, offered, moved, held)]]
  BY DEF Excusing
<1> HIDE DEF tokens
<1>2. ASSUME NEW t \in Tokens, ~IsOpen(t)
      PROVE  tokens[t] = NoToken /\ token[t] = NoToken
  BY <1>1, <1>2 DEF IsOpen
<1>3. ASSUME NEW t \in Tokens, IsOpen(t)
      PROVE  /\ tokens[t] \in Opened /\ tokens[t].stage = token[t].stage
             /\ tokens[t].key = token[t].key /\ tokens[t].error = token[t].error
             /\ tokens[t].excused <=>
                  token[t].excused \/ Unsettled(token[t].key, offered, moved, held)
  <2> DEFINE u == token[t].excused \/ Unsettled(token[t].key, offered, moved, held)
  <2>1. token[t] \in Opened
    BY <1>3, OpenIsOpened
  <2>2. tokens[t] = [token[t] EXCEPT !.excused = u]
    BY <1>1, <1>3 DEF IsOpen
  <2>3. u \in BOOLEAN
    BY <2>1 DEF Opened, Unsettled, Refuses, Ambiguous, Mismatched
  <2> HIDE DEF u
  <2>4. /\ tokens[t] \in Opened /\ tokens[t].stage = token[t].stage
        /\ tokens[t].key = token[t].key /\ tokens[t].error = token[t].error
        /\ tokens[t].excused = u
    BY <2>1, <2>2, <2>3 DEF Opened
  <2> QED
    BY <2>4 DEF u
<1>4. tokens \in [Tokens -> {NoToken} \cup Opened]
  BY <1>1, <1>2, <1>3
<1>5. ExcusesNoted(tokens, offered, moved, held)
  BY <1>2, <1>3, IdleIsClosed DEF ExcusesNoted
<1> QED
  BY <1>4, <1>5 DEF tokens

-----------------------------------------------------------------------------
(* Steps of one token.                                                     *)

\* Token t becomes r, and nothing else of what excuses depend on changes.
LEMMA OneToken ==
  ASSUME KInv, NEW t \in Tokens, NEW r \in {NoToken} \cup Opened,
         token' = [token EXCEPT ![t] = r],
         UNCHANGED <<published, address, url, set, refresh>>,
         token[t].stage # "refreshing", r.stage # "refreshing",
         ~(r.stage = "again" /\ r.error = "none"),
         r # NoToken /\ Unsettled(r.key, published[address], url # address, set) => r.excused,
         r.stage = "invalid" => r.excused
  PROVE  TokensFine' /\ OneRefresh' /\ Excuses'
<1>1. TokensFine
  BY KeyTypesAre DEF KInv
<1>2. TokensFine'
  BY <1>1 DEF TokensFine
<1>3. token'[t] = r /\ \A p \in Tokens \ {t} : token'[p] = token[p]
  BY <1>1 DEF TokensFine
<1>4. OneRefresh'
  BY <1>3 DEF KInv, OneRefresh
<1>5. ExcusesAreNoted'
  BY <1>3 DEF KInv, Excuses, ExcusesAreNoted, IsOpen
<1>6. AnswerServes'
  BY <1>3 DEF KInv, Excuses, AnswerServes, Refreshes
<1>7. SetServes'
  BY <1>3 DEF KInv, Excuses, SetServes
<1>8. GenuineIsNotCalledInvalid'
  BY <1>3 DEF KInv, Excuses, GenuineIsNotCalledInvalid
<1> QED
  BY <1>2, <1>4, <1>5, <1>6, <1>7, <1>8 DEF Excuses

\* The rest of the invariant is not about tokens; the cache may lose its workers.
LEMMA RestStays ==
  ASSUME KInv, TokensFine', OneRefresh', Excuses', arrivals' \in 0 .. MaxArrivals,
         owner' \in {owner, Nobody},
         UNCHANGED <<serving, url, set, freshFor, discoveryFor, cooldown, refresh, gone, quiet>>
  PROVE  KInv'
<1>1. RefreshFine' /\ CacheFine' /\ ServingFine' /\ CountersFine'
  BY KeyTypesAre DEF KInv, RefreshFine, CacheFine, ServingFine, CountersFine, serving
<1>2. CooledDown' /\ LandedIsHeld' /\ SetIsFresh' /\ PublishedIsNotGone'
  BY DEF KInv, CooledDown, LandedIsHeld, SetIsFresh, PublishedIsNotGone, Served, serving
<1>3. AnswerIsFresh'
  <2>1. Hung => Hung'
    BY DEF Hung, Ambiguous
  <2> QED
    BY <2>1 DEF KInv, AnswerIsFresh
<1>4. KeysTypeOK'
  BY <1>1, KeyTypesAre, PTL
<1> QED
  BY <1>2, <1>3, <1>4 DEF KInv

LEMMA VerifyKeeps ==
  ASSUME KInv, NEW t \in Tokens, NEW key \in Keys, Verify(t, key)
  PROVE  KInv'
<1> DEFINE r0 == [stage |-> "arrived", key |-> key, why |-> "missing", error |-> "none",
                  excused |-> Unsettled(key, published[address], url # address, set),
                  left |-> FALSE]
<1>1. /\ Unsettled(key, published[address], url # address, set) \in BOOLEAN
      /\ Refuses(set, key) => Unsettled(key, published[address], url # address, set)
  BY DEF Unsettled, Refuses, Ambiguous, Mismatched
<1>2. PICK r \in Opened :
        /\ token' = [token EXCEPT ![t] = r]
        /\ r.stage \in {"waiting", "invalid", "accepted"} /\ r.key = key
        /\ r.excused = Unsettled(key, published[address], url # address, set)
        /\ r.stage = "invalid" => Refuses(set, key)
  <2>1. \A w \in {"missing", "signature"} :
          /\ Wait(r0, w) \in Opened /\ Wait(r0, w).stage = "waiting"
          /\ Wait(r0, w).key = key
          /\ Wait(r0, w).excused = Unsettled(key, published[address], url # address, set)
    BY <1>1 DEF Wait, Opened
  <2>2. \A s \in {"invalid", "accepted"} :
          /\ [r0 EXCEPT !.stage = s] \in Opened /\ [r0 EXCEPT !.stage = s].stage = s
          /\ [r0 EXCEPT !.stage = s].key = key
          /\ [r0 EXCEPT !.stage = s].excused
               = Unsettled(key, published[address], url # address, set)
    BY <1>1 DEF Opened, Verdicts
  <2> DEFINE new == IF freshFor = 0 THEN Wait(r0, "missing")
                    ELSE IF Refuses(set, key) THEN [r0 EXCEPT !.stage = "invalid"]
                    ELSE IF UnderId(set, key) = {} THEN Wait(r0, "missing")
                    ELSE IF key \in UnderId(set, key) THEN [r0 EXCEPT !.stage = "accepted"]
                    ELSE Wait(r0, "signature")
  <2>3. token' = [token EXCEPT ![t] = new]
    BY DEF Verify
  <2> HIDE DEF r0
  <2>4. /\ new \in Opened /\ new.stage \in {"waiting", "invalid", "accepted"}
        /\ new.key = key
        /\ new.excused = Unsettled(key, published[address], url # address, set)
        /\ new.stage = "invalid" => Refuses(set, key)
    BY <2>1, <2>2
  <2> HIDE DEF new
  <2> QED
    BY <2>3, <2>4
<1>3. token[t].stage # "refreshing"
  BY IdleIsClosed DEF Verify
<1>4. UNCHANGED <<published, address, url, set, refresh>>
  BY DEF Verify, serving, keys
<1>5. TokensFine' /\ OneRefresh' /\ Excuses'
  BY <1>1, <1>2, <1>3, <1>4, OneToken
<1>6. arrivals' \in 0 .. MaxArrivals
  BY KeysLimits DEF Verify, KInv, KeysTypeOK
<1> QED
  BY <1>5, <1>6, RestStays DEF Verify, keys

LEMMA LookAgainKeeps ==
  ASSUME KInv, NEW t \in Tokens, LookAgain(t)
  PROVE  KInv'
<1> DEFINE r == token[t]
           found == UnderId(set, r.key)
<1>1. r \in Opened /\ IsOpen(t) /\ r.stage = "again"
  BY OpenIsOpened, IdleIsClosed, KeyTypesAre DEF KInv, LookAgain, IsOpen
<1>2. Unsettled(r.key, published[address], url # address, set) => r.excused
  BY <1>1 DEF KInv, Excuses, ExcusesAreNoted
<1>3. r.error = "none" /\ r.key \notin found => r.excused
  BY <1>1 DEF KInv, Excuses, SetServes, UnderId
<1>4. Refuses(set, r.key) => r.excused
  BY <1>2 DEF Unsettled
<1>5. PICK n \in Opened :
        /\ token' = [token EXCEPT ![t] = n]
        /\ n.stage \in {"waiting"} \cup Verdicts
        /\ n.key = r.key /\ n.excused = r.excused
        /\ n.stage = "invalid" => r.excused
  <2> DEFINE Judged(s) == [r EXCEPT !.stage = s]
             new == IF freshFor = 0 THEN Judged("unavailable")
                    ELSE IF Refuses(set, r.key) THEN Judged("invalid")
                    ELSE IF found = {} THEN Judged(AfterRefresh(r, "invalid"))
                    ELSE IF r.why = "missing"
                    THEN IF r.key \in found THEN Judged("accepted") ELSE Wait(r, "signature")
                    ELSE IF r.error = "failed" THEN Judged("unavailable")
                    ELSE IF r.key \in found THEN Judged("accepted")
                    ELSE Judged(AfterRefresh(r, "invalid"))
  <2>1. token' = [token EXCEPT ![t] = new]
    BY DEF LookAgain
  <2>2. \A s \in Verdicts : /\ Judged(s) \in Opened /\ Judged(s).stage = s
                            /\ Judged(s).key = r.key /\ Judged(s).excused = r.excused
    <3>1. \A s \in {"waiting", "refreshing", "again"} \cup Verdicts :
            /\ [r EXCEPT !.stage = s] \in Opened /\ [r EXCEPT !.stage = s].stage = s
            /\ [r EXCEPT !.stage = s].key = r.key
            /\ [r EXCEPT !.stage = s].excused = r.excused
      BY <1>1, OpenedUpdate
    <3> QED
      BY <3>1
  <2>3. /\ Wait(r, "signature") \in Opened /\ Wait(r, "signature").stage = "waiting"
        /\ Wait(r, "signature").key = r.key /\ Wait(r, "signature").excused = r.excused
    BY <1>1, OpenedUpdate
  <2>4. /\ AfterRefresh(r, "invalid") \in {"invalid", "unavailable"}
        /\ AfterRefresh(r, "invalid") = "invalid" => r.error = "none"
    BY DEF AfterRefresh
  <2>5. Verdicts = {"accepted", "invalid", "unavailable"}
    BY DEF Verdicts
  <2> HIDE DEF r, found, Judged
  <2>6. /\ new \in Opened /\ new.stage \in {"waiting"} \cup Verdicts
        /\ new.key = r.key /\ new.excused = r.excused
        /\ new.stage = "invalid" => r.excused
    BY <1>3, <1>4, <2>2, <2>3, <2>4, <2>5
  <2> HIDE DEF new
  <2> QED
    BY <2>1, <2>6
<1>6. UNCHANGED <<published, address, url, set, refresh>>
  BY DEF LookAgain, serving, keys
<1>7. TokensFine' /\ OneRefresh' /\ Excuses'
  BY <1>1, <1>2, <1>5, <1>6, OneToken DEF Verdicts
<1> QED
  BY <1>7, RestStays DEF LookAgain, KInv, KeysTypeOK, keys

LEMMA RefuseRefreshKeeps ==
  ASSUME KInv, NEW t \in Tokens, RefuseRefresh(t)
  PROVE  KInv'
<1>1. token[t] \in Opened /\ IsOpen(t) /\ token[t].stage = "waiting"
  BY OpenIsOpened, KeyTypesAre DEF KInv, RefuseRefresh, Waiting, IsOpen
<1> DEFINE n == [token[t] EXCEPT !.stage = "again", !.error = "cooldown"]
<1>2. /\ n \in Opened /\ n.stage = "again" /\ n.error = "cooldown"
      /\ n.key = token[t].key /\ n.excused = token[t].excused
  BY <1>1, OpenedUpdate
<1>3. token' = [token EXCEPT ![t] = n]
  BY DEF RefuseRefresh
<1>4. UNCHANGED <<published, address, url, set, refresh>>
  BY DEF RefuseRefresh, serving, keys
<1> HIDE DEF n
<1>5. Unsettled(n.key, published[address], url # address, set) => n.excused
  BY <1>1, <1>2 DEF KInv, Excuses, ExcusesAreNoted
<1>6. TokensFine' /\ OneRefresh' /\ Excuses'
  BY <1>1, <1>2, <1>3, <1>4, <1>5, OneToken
<1> QED
  BY <1>6, RestStays DEF RefuseRefresh, KInv, KeysTypeOK, keys

LEMMA LeaveKeeps ==
  ASSUME KInv, NEW t \in Tokens, Leave(t)
  PROVE  KInv'
<1>1. UNCHANGED <<published, address, url, set, refresh>>
  BY DEF Leave, serving
<1>2. token[t].stage # "refreshing"
  BY DEF Leave, Verdicts
<1>3. TokensFine' /\ OneRefresh' /\ Excuses'
  BY <1>1, <1>2, IdleIsClosed, OneToken DEF Leave
<1> QED
  BY <1>3, RestStays DEF Leave, WithoutRequest, KInv, KeysTypeOK

\* Whether the caller is there changes nothing that an excuse or a set depends on.
LEMMA DisconnectKeeps ==
  ASSUME KInv, NEW t \in Tokens, Disconnect(t)
  PROVE  KInv'
<1> DEFINE n == [token[t] EXCEPT !.left = TRUE]
<1>1. token[t] \in Opened /\ TokensFine
  BY OpenIsOpened, KeyTypesAre DEF KInv, Disconnect, IsOpen
<1>2. /\ n \in Opened /\ n.stage = token[t].stage /\ n.key = token[t].key
      /\ n.error = token[t].error /\ n.excused = token[t].excused
      /\ n # NoToken /\ token[t] # NoToken
  BY <1>1, IdleIsClosed DEF Opened
<1>3. token' = [token EXCEPT ![t] = n]
  BY DEF Disconnect
<1>4. UNCHANGED <<published, address, url, set, refresh>>
  BY DEF Disconnect, serving
<1> HIDE DEF n
<1>5. token'[t] = n /\ \A p \in Tokens \ {t} : token'[p] = token[p]
  BY <1>1, <1>3 DEF TokensFine
<1>6. \A p \in Tokens :
        /\ token'[p].stage = token[p].stage /\ token'[p].error = token[p].error
        /\ token'[p].key = token[p].key /\ token'[p].excused = token[p].excused
        /\ token'[p] # NoToken <=> token[p] # NoToken
  <2>1. ASSUME NEW p \in Tokens, p = t
        PROVE  /\ token'[p].stage = token[p].stage /\ token'[p].error = token[p].error
               /\ token'[p].key = token[p].key /\ token'[p].excused = token[p].excused
               /\ token'[p] # NoToken <=> token[p] # NoToken
    BY <1>2, <1>5, <2>1
  <2> QED
    BY <1>5, <2>1
<1>7. TokensFine'
  BY <1>1, <1>2, <1>3 DEF TokensFine
<1>8. OneRefresh'
  BY <1>4, <1>6 DEF KInv, OneRefresh
<1>9. ExcusesAreNoted' /\ SetServes' /\ GenuineIsNotCalledInvalid'
  BY <1>4, <1>6 DEF KInv, Excuses, ExcusesAreNoted, SetServes, GenuineIsNotCalledInvalid, IsOpen
<1>10. AnswerServes'
  BY <1>4, <1>6 DEF KInv, Excuses, AnswerServes, Refreshes
<1> QED
  BY <1>7, <1>8, <1>9, <1>10, RestStays
     DEF Disconnect, WithoutRequest, KInv, KeysTypeOK, Excuses

-----------------------------------------------------------------------------
(* The provider's steps.                                                   *)

\* The provider changes, and excuses are noted.
LEMMA ChangeExcuses ==
  ASSUME KInv, ServingFine',
         token' = Excusing(token, published'[address'], url # address', set),
         UNCHANGED <<url, set, refresh>>
  PROVE  TokensFine' /\ OneRefresh' /\ Excuses'
<1> DEFINE Doubt(t) == Unsettled(token[t].key, published'[address'], url # address', set)
<1>1. TokensFine
  BY KeyTypesAre DEF KInv
<1>2. TokensFine' /\ ExcusesNoted(token', published'[address'], url # address', set)
  BY <1>1, ExcusingNotes DEF TokensFine
<1>3. \A t \in Tokens :
        /\ token'[t] # NoToken <=> IsOpen(t)
        /\ token'[t].stage = token[t].stage
        /\ IsOpen(t) => /\ token'[t].key = token[t].key
                        /\ token'[t].error = token[t].error
                        /\ token'[t].excused <=> token[t].excused \/ Doubt(t)
  BY <1>2 DEF ExcusesNoted
<1> HIDE DEF Doubt
<1>4. \A t \in Tokens : Refreshes(t) \/ token[t].stage = "invalid" => IsOpen(t)
  BY IdleIsClosed DEF Refreshes, IsOpen
<1>5. OneRefresh'
  BY <1>3 DEF KInv, OneRefresh
<1>6. ExcusesAreNoted'
  BY <1>3 DEF ExcusesAreNoted, IsOpen, Doubt
<1>7. \A t \in Tokens :
        /\ Refreshes(t)' <=> Refreshes(t)
        /\ Refreshes(t) /\ ~token'[t].excused =>
             ~token[t].excused /\ token'[t].key = token[t].key
  <2> SUFFICES ASSUME NEW t \in Tokens
               PROVE  /\ Refreshes(t)' <=> Refreshes(t)
                      /\ Refreshes(t) /\ ~token'[t].excused =>
                           ~token[t].excused /\ token'[t].key = token[t].key
    OBVIOUS
  <2>1. token[t].stage \in {"refreshing", "again"} => IsOpen(t)
    BY IdleIsClosed DEF IsOpen
  <2>2. Refreshes(t)' <=> Refreshes(t)
    BY <1>3, <2>1 DEF Refreshes
  <2> QED
    BY <1>3, <1>4, <2>2
<1>8. AnswerServes'
  BY <1>7 DEF KInv, Excuses, AnswerServes
<1>10. SetServes'
  BY <1>3, <1>7 DEF KInv, Excuses, SetServes, Refreshes
<1>9. GenuineIsNotCalledInvalid'
  BY <1>3, <1>4 DEF KInv, Excuses, GenuineIsNotCalledInvalid
<1> QED
  BY <1>2, <1>5, <1>6, <1>8, <1>9, <1>10 DEF Excuses

LEMMA ServedFine ==
  ASSUME NEW docs \in [Addresses -> Documents], NEW k \in Keys
  PROVE  Served(docs, k) \in BOOLEAN
  BY DEF Served

LEMMA PublishKeeps ==
  ASSUME KInv, NEW document \in Documents, Publish(document)
  PROVE  KInv'
<1> DEFINE documents == [published EXCEPT ![address] = document]
<1>1. published \in [Addresses -> Documents] /\ address \in Addresses
  BY DEF KInv, KeysTypeOK
<1>2. /\ published' = documents /\ address' = address /\ published'[address'] = document
      /\ documents \in [Addresses -> Documents]
  BY <1>1 DEF Publish
<1>3. ServingFine'
  BY <1>2, KeysLimits DEF Publish, ServingFine, KInv, KeysTypeOK
<1>4. UNCHANGED <<url, set, owner, freshFor, discoveryFor, refresh, cooldown, quiet, arrivals>>
  BY DEF Publish, keys
<1>5. TokensFine' /\ OneRefresh' /\ Excuses'
  BY <1>2, <1>3, <1>4, ChangeExcuses DEF Publish
<1>6. gone \in [Keys -> 0 .. Forgotten]
  BY DEF KInv, KeysTypeOK
<1>7. gone' \in [Keys -> 0 .. Forgotten] /\ \A k \in Keys : gone'[k] <= gone[k]
  <2>1. gone' = [k \in Keys |-> IF Served(documents, k) THEN 0 ELSE gone[k]]
    BY DEF Publish
  <2> HIDE DEF documents
  <2> QED
    BY <1>6, <2>1, KeysLimits
<1>8. CountersFine'
  BY <1>4, <1>7 DEF CountersFine, KInv, KeysTypeOK
<1>9. CacheFine' /\ RefreshFine'
  BY <1>4, KeyTypesAre DEF KInv, CacheFine, RefreshFine
<1>10. KeysTypeOK'
  BY <1>3, <1>5, <1>8, <1>9, KeyTypesAre, PTL
<1>11. CooledDown' /\ LandedIsHeld'
  BY <1>4 DEF KInv, CooledDown, LandedIsHeld
<1>12. AnswerIsFresh'
  <2>1. SUFFICES ASSUME refresh.stage \in {"served", "landed"}, ~Hung, NEW k \in refresh.doc
                 PROVE  gone'[k] <= refresh.elapsed
    BY <1>4 DEF AnswerIsFresh, Hung, Ambiguous
  <2>2. refresh \in Ongoing
    BY <2>1, KeyTypesAre, HeldIsOngoing, FreeIsNone DEF KInv
  <2>3. k \in Keys /\ refresh.elapsed \in Nat /\ gone[k] <= refresh.elapsed
    BY <2>1, <2>2, KeysLimits DEF Ongoing, KInv, AnswerIsFresh
  <2> QED
    BY <1>6, <1>7, <2>3, KeysLimits
<1>13. SetIsFresh'
  <2>1. SUFFICES ASSUME freshFor > 0, NEW k \in set
                 PROVE  gone'[k] + freshFor <= Forgotten
    BY <1>4 DEF SetIsFresh
  <2>2. k \in Keys /\ freshFor \in Nat /\ gone[k] + freshFor <= Forgotten
    BY <2>1, KeysLimits DEF KInv, SetIsFresh, KeysTypeOK
  <2> QED
    BY <1>6, <1>7, <2>2, KeysLimits
<1>14. PublishedIsNotGone'
  BY <1>2, <1>6 DEF Publish, PublishedIsNotGone, Served
<1> QED
  BY <1>5, <1>10, <1>11, <1>12, <1>13, <1>14 DEF KInv

\* A step that leaves the set, the refresh and the clocks alone.
LEMMA ClocksStay ==
  ASSUME KInv, TokensFine', OneRefresh', Excuses', ServingFine',
         PublishedIsNotGone',
         UNCHANGED <<arrivals, keys, cooldown, refresh, gone, quiet>>
  PROVE  KInv'
<1>1. RefreshFine' /\ CacheFine' /\ CountersFine'
  BY KeyTypesAre DEF KInv, RefreshFine, CacheFine, CountersFine, keys
<1>2. CooledDown' /\ LandedIsHeld' /\ AnswerIsFresh' /\ SetIsFresh'
  BY DEF KInv, CooledDown, LandedIsHeld, AnswerIsFresh, SetIsFresh, keys, Hung, Ambiguous
<1>3. KeysTypeOK'
  BY <1>1, KeyTypesAre, PTL
<1> QED
  BY <1>2, <1>3 DEF KInv

LEMMA MoveKeeps ==
  ASSUME KInv, NEW a \in Addresses, Move(a)
  PROVE  KInv'
<1>1. ServingFine'
  BY KeysLimits DEF Move, ServingFine, KInv, KeysTypeOK
<1>2. TokensFine' /\ OneRefresh' /\ Excuses'
  BY <1>1, ChangeExcuses DEF Move, keys
<1> QED
  BY <1>1, <1>2, ClocksStay DEF Move, KInv, PublishedIsNotGone, Served

\* Neither tokens nor what may excuse them change.
LEMMA TokensStay ==
  ASSUME KInv, UNCHANGED <<token, published, address, url, set, refresh>>
  PROVE  TokensFine' /\ OneRefresh' /\ Excuses'
<1>1. TokensFine' /\ OneRefresh'
  BY KeyTypesAre DEF KInv, TokensFine, OneRefresh
<1>2. Excuses'
  BY DEF KInv, Excuses, ExcusesAreNoted, AnswerServes, SetServes, GenuineIsNotCalledInvalid,
     IsOpen, Refreshes
<1> QED
  BY <1>1, <1>2

LEMMA OutageKeeps ==
  ASSUME KInv, Fail \/ Recover
  PROVE  KInv'
<1>1. ServingFine
  BY KeyTypesAre DEF KInv
<1>2. ASSUME Fail PROVE ServingFine'
  <2>1. changes \in 0 .. MaxChanges /\ changes < MaxChanges /\ changes' = changes + 1
    BY <1>1, <1>2 DEF Fail, ServingFine
  <2>2. changes' \in 0 .. MaxChanges
    BY <2>1, KeysLimits
  <2> QED
    BY <1>1, <1>2, <2>2 DEF Fail, ServingFine
<1>3. ASSUME Recover PROVE ServingFine'
  BY <1>1, <1>3 DEF Recover, ServingFine
<1>4. ServingFine'
  BY <1>2, <1>3
<1>5. TokensFine' /\ OneRefresh' /\ Excuses'
  BY TokensStay DEF Fail, Recover, keys
<1> QED
  BY <1>4, <1>5, ClocksStay DEF Fail, Recover, KInv, PublishedIsNotGone, Served

-----------------------------------------------------------------------------
(* The refresh's steps.                                                    *)

\* What a refresh leaves alone.
LEMMA ServingStays ==
  ASSUME KInv, UNCHANGED <<serving, gone>>
  PROVE  ServingFine' /\ PublishedIsNotGone'
<1>1. ServingFine'
  BY KeyTypesAre DEF KInv, ServingFine, serving
<1>2. PublishedIsNotGone'
  BY DEF KInv, PublishedIsNotGone, Served, serving
<1> QED
  BY <1>1, <1>2

LEMMA CountersStay ==
  ASSUME KInv, UNCHANGED <<arrivals, cooldown, gone, quiet>>
  PROVE  CountersFine' /\ CooledDown'
  BY DEF KInv, KeysTypeOK, CountersFine, CooledDown

LEMMA BeginRefreshKeeps ==
  ASSUME KInv, NEW t \in Tokens, BeginRefresh(t)
  PROVE  KInv'
<1> DEFINE r == [token[t] EXCEPT !.stage = "refreshing"]
           n == [stage |-> IF discoveryFor = 0 THEN "discovering" ELSE "asking",
                 by |-> t, to |-> url, doc |-> {}, elapsed |-> 0]
<1>1. token[t] \in Opened /\ IsOpen(t) /\ token[t].stage = "waiting" /\ refresh = Free
  BY OpenIsOpened, KeyTypesAre DEF KInv, BeginRefresh, Waiting, IsOpen
<1>2. /\ r \in Opened /\ r.stage = "refreshing"
      /\ r.key = token[t].key /\ r.excused = token[t].excused
  BY <1>1 DEF Opened
<1>3. token' = [token EXCEPT ![t] = r] /\ refresh' = n
  BY DEF BeginRefresh, StartRefresh, Stage
<1>4. n \in Ongoing /\ n.by = t /\ n.stage \notin {"served", "landed"} /\ n # Free
  <2>1. n \in Ongoing
    BY KeysLimits DEF Ongoing, KInv, KeysTypeOK
  <2> QED
    BY <2>1, FreeIsNone
<1>5. UNCHANGED <<published, address, up, changes, arrivals, url, set, owner, freshFor, gone>>
  BY DEF BeginRefresh, StartRefresh, serving
<1> HIDE DEF r, n
<1>6. /\ token'[t] = r /\ \A p \in Tokens \ {t} : token'[p] = token[p]
      /\ TokensFine'
  BY <1>2, <1>3, KeyTypesAre DEF KInv, TokensFine
<1>7. RefreshFine' /\ CacheFine'
  <2>1. discoveryFor' \in 0 .. DiscoveryTTL
    BY KeysLimits DEF BeginRefresh, StartRefresh, KInv, KeysTypeOK
  <2> QED
    BY <1>3, <1>4, <1>5, <2>1, KeyTypesAre DEF KInv, RefreshFine, CacheFine
<1>8. CountersFine' /\ CooledDown'
  BY <1>5, KeysLimits DEF BeginRefresh, KInv, KeysTypeOK, CountersFine, CooledDown
<1>9. ServingFine' /\ PublishedIsNotGone'
  BY <1>5, ServingStays DEF serving
<1>10. KeysTypeOK'
  BY <1>6, <1>7, <1>8, <1>9, KeyTypesAre, PTL
<1>11. OneRefresh'
  BY <1>1, <1>2, <1>3, <1>4, <1>6 DEF KInv, OneRefresh
<1>12. LandedIsHeld' /\ AnswerIsFresh' /\ AnswerServes'
  BY <1>3, <1>4 DEF LandedIsHeld, AnswerIsFresh, AnswerServes
<1>13. SetIsFresh'
  BY <1>5 DEF KInv, SetIsFresh
<1>14. ExcusesAreNoted'
  BY <1>1, <1>2, <1>5, <1>6 DEF KInv, Excuses, ExcusesAreNoted, IsOpen
<1>15. SetServes' /\ GenuineIsNotCalledInvalid'
  BY <1>2, <1>5, <1>6 DEF KInv, Excuses, SetServes, GenuineIsNotCalledInvalid
<1> QED
  BY <1>8, <1>9, <1>10, <1>11, <1>12, <1>13, <1>14, <1>15 DEF KInv, Excuses

\* The refresh goes on, and nothing but it changes.
LEMMA RefreshGoesOn ==
  ASSUME KInv, refresh # Free, NEW n \in Ongoing, refresh' = n, n.by = refresh.by,
         UNCHANGED <<serving, arrivals, keys, cooldown, token, gone, quiet>>,
         LandedIsHeld', AnswerIsFresh', AnswerServes'
  PROVE  KInv'
<1>1. RefreshFine' /\ refresh' # Free
  BY FreeIsNone DEF RefreshFine
<1>2. TokensFine' /\ CacheFine'
  BY KeyTypesAre DEF KInv, TokensFine, CacheFine, keys
<1>3. ServingFine' /\ PublishedIsNotGone' /\ CountersFine' /\ CooledDown'
  BY ServingStays, CountersStay
<1>4. KeysTypeOK'
  BY <1>1, <1>2, <1>3, KeyTypesAre, PTL
<1>5. OneRefresh'
  BY <1>1 DEF KInv, OneRefresh
<1>6. SetIsFresh'
  BY DEF KInv, SetIsFresh, keys
<1>7. ExcusesAreNoted' /\ SetServes' /\ GenuineIsNotCalledInvalid'
  BY DEF KInv, Excuses, ExcusesAreNoted, SetServes, GenuineIsNotCalledInvalid, IsOpen,
     keys, serving
<1> QED
  BY <1>3, <1>4, <1>5, <1>6, <1>7 DEF KInv, Excuses

LEMMA ReadDiscoveryKeeps ==
  ASSUME KInv, ReadDiscovery
  PROVE  KInv'
<1> DEFINE n == [refresh EXCEPT !.stage = "asking", !.to = address, !.elapsed = 0]
<1>1. refresh \in Ongoing /\ refresh # Free
  BY KeyTypesAre, HeldIsOngoing, FreeIsNone DEF KInv, ReadDiscovery
<1>2. n \in Ongoing /\ n.by = refresh.by /\ n.stage = "asking"
  <2>1. address \in Addresses /\ 0 \in 0 .. Timeout
    BY KeysLimits DEF KInv, KeysTypeOK
  <2> QED
    BY <1>1, <2>1 DEF Ongoing
<1>3. refresh' = n
  BY DEF ReadDiscovery
<1> HIDE DEF n
<1>4. LandedIsHeld' /\ AnswerIsFresh' /\ AnswerServes'
  BY <1>2, <1>3 DEF LandedIsHeld, AnswerIsFresh, AnswerServes
<1> QED
  BY <1>1, <1>2, <1>3, <1>4, RefreshGoesOn DEF ReadDiscovery

\* The answer has what is published where it comes from: the key of every open
\* verification with no excuse, if that is where the set in hand is from.
LEMMA ServeKeysKeeps ==
  ASSUME KInv, ServeKeys
  PROVE  KInv'
<1> DEFINE n == [refresh EXCEPT !.stage = "served", !.doc = published[refresh.to]]
<1>1. refresh \in Ongoing /\ refresh # Free
  BY KeyTypesAre, HeldIsOngoing, FreeIsNone DEF KInv, ServeKeys
<1>2. published[refresh.to] \subseteq Keys /\ refresh.to \in Addresses
  BY <1>1, DocumentsAreSets DEF Ongoing, KInv, KeysTypeOK
<1>3. /\ n \in Ongoing /\ n.by = refresh.by /\ n.stage = "served"
      /\ n.to = refresh.to /\ n.doc = published[refresh.to] /\ n.elapsed = refresh.elapsed
  BY <1>1, <1>2 DEF Ongoing
<1>4. refresh' = n
  BY DEF ServeKeys
<1>5. UNCHANGED <<published, address, url, set, token, gone>>
  BY DEF ServeKeys, keys, serving
<1> HIDE DEF n
<1>6. LandedIsHeld'
  BY <1>3, <1>4 DEF LandedIsHeld
<1>7. AnswerIsFresh'
  <2>1. SUFFICES ASSUME NEW k \in published[refresh.to]
                 PROVE  gone[k] <= refresh.elapsed
    BY <1>3, <1>4, <1>5 DEF AnswerIsFresh
  <2>2. k \in Keys /\ Served(published, k)
    BY <1>2 DEF Served
  <2>3. gone[k] = 0
    BY <2>2 DEF KInv, PublishedIsNotGone
  <2> QED
    BY <1>1, <2>3, KeysLimits DEF Ongoing
<1>8. AnswerServes'
  <2>1. SUFFICES ASSUME refresh.to = url, NEW t \in Tokens,
                        Refreshes(t), ~token[t].excused
                 PROVE  token[t].key \in published[refresh.to]
    BY <1>3, <1>4, <1>5 DEF AnswerServes, Refreshes
  <2>2. IsOpen(t)
    BY <2>1, IdleIsClosed DEF Refreshes, IsOpen
  <2>3. ~Unsettled(token[t].key, published[address], url # address, set)
    BY <2>1, <2>2 DEF KInv, Excuses, ExcusesAreNoted
  <2> QED
    BY <2>1, <2>3 DEF Unsettled
<1> QED
  BY <1>1, <1>3, <1>4, <1>6, <1>7, <1>8, RefreshGoesOn DEF ServeKeys

\* The refresh ends, and the verification it was made for looks again.
LEMMA EndKeeps ==
  ASSUME KInv, refresh # Free, NEW tokens \in [Tokens -> {NoToken} \cup Opened],
         \A t \in Tokens : tokens[t].stage = token[t].stage,
         NEW e \in {"none", "failed"}, EndRefresh(e, tokens),
         \A t \in Tokens :
           /\ tokens[t] # NoToken
              /\ Unsettled(tokens[t].key, published'[address'], url' # address', set') =>
                tokens[t].excused
           /\ tokens[t].stage = "again" /\ tokens[t].error = "none"
              /\ ~tokens[t].excused => tokens[t].key \in set'
           /\ tokens[t].stage = "invalid" => tokens[t].excused,
         e = "none" /\ ~tokens[refresh.by].excused => tokens[refresh.by].key \in set'
  PROVE  /\ TokensFine' /\ RefreshFine' /\ OneRefresh' /\ LandedIsHeld' /\ AnswerIsFresh'
         /\ Excuses'
<1> DEFINE by == refresh.by
           r == [tokens[by] EXCEPT !.stage = "again", !.error = e]
<1>1. refresh \in Ongoing /\ by \in Tokens
  BY KeyTypesAre, HeldIsOngoing DEF KInv, Ongoing
<1>2. tokens[by].stage = "refreshing" /\ tokens[by] \in Opened
  <2>1. tokens[by].stage = "refreshing"
    BY <1>1 DEF KInv, OneRefresh
  <2> QED
    BY <1>1, <2>1, IdleIsClosed
<1>3. /\ r \in Opened /\ r.stage = "again" /\ r.error = e
      /\ r.key = tokens[by].key /\ r.excused = tokens[by].excused
  BY <1>2 DEF Opened
<1>4. token' = [tokens EXCEPT ![by] = r] /\ refresh' = Free
  BY DEF EndRefresh
<1> HIDE DEF r
<1>5. /\ token'[by] = r /\ \A p \in Tokens \ {by} : token'[p] = tokens[p]
      /\ TokensFine'
  BY <1>1, <1>3, <1>4 DEF TokensFine
<1>6. RefreshFine' /\ LandedIsHeld' /\ AnswerIsFresh' /\ AnswerServes'
  BY <1>4, FreeIsNone DEF RefreshFine, LandedIsHeld, AnswerIsFresh, AnswerServes
<1>7. OneRefresh'
  BY <1>3, <1>4, <1>5 DEF KInv, OneRefresh
<1>8. ExcusesAreNoted'
  BY <1>2, <1>3, <1>5, IdleIsClosed DEF ExcusesAreNoted, IsOpen
<1>9. SetServes'
  BY <1>3, <1>5 DEF SetServes
<1>10. GenuineIsNotCalledInvalid'
  BY <1>3, <1>5 DEF GenuineIsNotCalledInvalid
<1> QED
  BY <1>5, <1>6, <1>7, <1>8, <1>9, <1>10 DEF Excuses

\* The answer becomes the set in hand: what excuses it is noted.
LEMMA AnswerExcuses ==
  ASSUME KInv, refresh.stage = "served", NEW tokens, tokens = Excused(refresh.to),
         url' = refresh.to, set' = refresh.doc, UNCHANGED <<published, address>>
  PROVE  /\ tokens \in [Tokens -> {NoToken} \cup Opened]
         /\ \A t \in Tokens :
              /\ tokens[t] # NoToken <=> IsOpen(t)
              /\ tokens[t].stage = token[t].stage
              /\ IsOpen(t) => /\ tokens[t].key = token[t].key
                              /\ tokens[t].error = token[t].error
              /\ tokens[t] # NoToken
                 /\ Unsettled(tokens[t].key, published'[address'], url' # address', set') =>
                   tokens[t].excused
              /\ Refreshes(t) /\ ~tokens[t].excused => tokens[t].key \in set'
              /\ tokens[t].stage = "invalid" => tokens[t].excused
<1>1. refresh \in Ongoing
  BY KeyTypesAre, HeldIsOngoing, FreeIsNone DEF KInv
<1> DEFINE Doubt(t) == Unsettled(token[t].key, published[address],
                                 refresh.to # address, refresh.doc)
<1>2. /\ tokens \in [Tokens -> {NoToken} \cup Opened]
      /\ ExcusesNoted(tokens, published[address], refresh.to # address, refresh.doc)
  BY KeyTypesAre, ExcusingNotes DEF KInv, Excused
<1>3. ASSUME NEW t \in Tokens
      PROVE  /\ tokens[t] # NoToken <=> IsOpen(t)
             /\ tokens[t].stage = token[t].stage
             /\ IsOpen(t) => /\ tokens[t].key = token[t].key
                             /\ tokens[t].error = token[t].error
                             /\ tokens[t].excused <=> token[t].excused \/ Doubt(t)
  BY <1>2 DEF ExcusesNoted
<1>4. ASSUME NEW t \in Tokens, tokens[t] # NoToken,
             Unsettled(tokens[t].key, published'[address'], url' # address', set')
      PROVE  tokens[t].excused
  BY <1>3, <1>4
<1>5. ASSUME NEW t \in Tokens, Refreshes(t), ~tokens[t].excused
      PROVE  tokens[t].key \in set'
  <2>1. IsOpen(t)
    BY <1>5, IdleIsClosed DEF Refreshes, IsOpen
  <2>2. ~token[t].excused /\ ~Doubt(t) /\ tokens[t].key = token[t].key
    BY <1>3, <1>5, <2>1
  <2>3. url = address
    BY <2>1, <2>2 DEF KInv, Excuses, ExcusesAreNoted, Unsettled
  <2>4. refresh.to = url
    BY <2>2, <2>3 DEF Unsettled
  <2> QED
    BY <1>5, <2>2, <2>4 DEF KInv, Excuses, AnswerServes
<1>6. ASSUME NEW t \in Tokens, tokens[t].stage = "invalid"
      PROVE  tokens[t].excused
  <2>1. token[t].stage = "invalid" /\ IsOpen(t)
    BY <1>3, <1>6, IdleIsClosed DEF IsOpen
  <2> QED
    BY <1>3, <2>1 DEF KInv, Excuses, GenuineIsNotCalledInvalid
<1> QED
  BY <1>2, <1>3, <1>4, <1>5, <1>6

\* An answer under way is not older than it may be, so a set made of it is fresh.
LEMMA AnswerMakesFresh ==
  ASSUME KInv, refresh.stage \in {"served", "landed"}, ~Hung, set' = refresh.doc,
         freshFor' \in 0 .. MaxFresh, UNCHANGED gone
  PROVE  SetIsFresh'
<1>1. SUFFICES ASSUME NEW k \in refresh.doc
               PROVE  gone[k] + freshFor' <= Forgotten
  BY DEF SetIsFresh
<1>2. refresh \in Ongoing
  BY KeyTypesAre, HeldIsOngoing, FreeIsNone DEF KInv
<1>3. k \in Keys /\ refresh.elapsed \in 0 .. Timeout
  BY <1>2 DEF Ongoing
<1>4. gone[k] <= refresh.elapsed /\ gone[k] \in 0 .. Forgotten
  BY <1>3 DEF KInv, AnswerIsFresh, KeysTypeOK
<1> QED
  BY <1>3, <1>4, KeysLimits

LEMMA LifetimesAre == Lifetimes \subseteq 0 .. MaxFresh
  BY KeysLimits DEF Lifetimes

LEMMA SwapKeysKeeps ==
  ASSUME KInv, SwapKeys
  PROVE  KInv'
<1> DEFINE tokens == Excused(refresh.to)
<1>1. refresh \in Ongoing /\ refresh # Free
  BY KeyTypesAre, HeldIsOngoing, FreeIsNone DEF KInv, SwapKeys
<1>2. /\ refresh.stage = "served" /\ url' = refresh.to /\ set' = refresh.doc
      /\ freshFor' \in 0 .. MaxFresh /\ ~Hung
      /\ UNCHANGED <<serving, arrivals, cooldown, gone, quiet>>
  BY LifetimesAre DEF SwapKeys, Hung
<1>3. /\ tokens \in [Tokens -> {NoToken} \cup Opened]
      /\ \A t \in Tokens :
           /\ tokens[t] # NoToken <=> IsOpen(t)
           /\ tokens[t].stage = token[t].stage
           /\ IsOpen(t) => /\ tokens[t].key = token[t].key
                           /\ tokens[t].error = token[t].error
           /\ tokens[t] # NoToken
              /\ Unsettled(tokens[t].key, published'[address'], url' # address', set') =>
                tokens[t].excused
           /\ Refreshes(t) /\ ~tokens[t].excused => tokens[t].key \in set'
           /\ tokens[t].stage = "invalid" => tokens[t].excused
  BY <1>2, AnswerExcuses DEF serving
<1>4. \A t \in Tokens :
        tokens[t].stage = "again" /\ tokens[t].error = "none" /\ ~tokens[t].excused =>
          tokens[t].key \in set'
  BY <1>3, IdleIsClosed DEF Refreshes, IsOpen
<1> HIDE DEF tokens
<1>5. ASSUME refresh' = [refresh EXCEPT !.stage = "asking", !.doc = {}, !.elapsed = 0],
             token' = tokens
      PROVE  /\ TokensFine' /\ RefreshFine' /\ OneRefresh' /\ LandedIsHeld' /\ AnswerIsFresh'
             /\ Excuses'
  <2>1. /\ refresh' \in Ongoing /\ refresh'.stage = "asking" /\ refresh'.by = refresh.by
        /\ refresh' # Free
    <3>1. 0 \in 0 .. Timeout
      BY KeysLimits
    <3>2. /\ refresh' \in Ongoing /\ refresh'.stage = "asking"
          /\ refresh'.by = refresh.by
      BY <1>1, <1>5, <3>1 DEF Ongoing
    <3> QED
      BY <3>2, FreeIsNone
  <2>2. TokensFine' /\ RefreshFine'
    BY <1>3, <1>5, <2>1 DEF TokensFine, RefreshFine
  <2>3. OneRefresh'
    BY <1>1, <1>3, <1>5, <2>1 DEF KInv, OneRefresh
  <2>4. LandedIsHeld' /\ AnswerIsFresh' /\ AnswerServes'
    BY <2>1 DEF LandedIsHeld, AnswerIsFresh, AnswerServes
  <2>5. ExcusesAreNoted' /\ SetServes' /\ GenuineIsNotCalledInvalid'
    BY <1>3, <1>4, <1>5 DEF ExcusesAreNoted, SetServes, GenuineIsNotCalledInvalid, IsOpen
  <2> QED
    BY <2>2, <2>3, <2>4, <2>5 DEF Excuses
<1>6. ASSUME EndRefresh("failed", tokens)
      PROVE  /\ TokensFine' /\ RefreshFine' /\ OneRefresh' /\ LandedIsHeld' /\ AnswerIsFresh'
             /\ Excuses'
  BY <1>1, <1>3, <1>4, <1>6, EndKeeps
<1>7. /\ TokensFine' /\ RefreshFine' /\ OneRefresh' /\ LandedIsHeld' /\ AnswerIsFresh'
      /\ Excuses'
  BY <1>5, <1>6 DEF SwapKeys, tokens
<1>8. discoveryFor' \in 0 .. DiscoveryTTL
  BY KeysLimits DEF SwapKeys, KInv, KeysTypeOK
<1>9. CacheFine'
  <2>1. refresh.by \in Tokens /\ owner' \in {refresh.by, Nobody}
    BY <1>1 DEF SwapKeys, Ongoing
  <2> QED
    BY <1>1, <1>2, <1>8, <2>1 DEF CacheFine, Ongoing
<1>10. ServingFine' /\ PublishedIsNotGone' /\ CountersFine' /\ CooledDown'
  BY <1>2, ServingStays, CountersStay
<1>11. SetIsFresh'
  BY <1>2, AnswerMakesFresh
<1>12. KeysTypeOK'
  BY <1>7, <1>9, <1>10, KeyTypesAre, PTL
<1> QED
  BY <1>7, <1>10, <1>11, <1>12 DEF KInv

LEMMA LandKeysKeeps ==
  ASSUME KInv, LandKeys
  PROVE  KInv'
<1> DEFINE n == [refresh EXCEPT !.stage = "landed"]
<1>1. refresh \in Ongoing /\ refresh # Free
  BY KeyTypesAre, HeldIsOngoing, FreeIsNone DEF KInv, LandKeys
<1>2. /\ refresh.stage = "served" /\ refresh.to = url /\ set' = refresh.doc
      /\ UNCHANGED <<serving, arrivals, url, owner, freshFor, discoveryFor, cooldown, gone,
                     quiet>>
      /\ token' = Excused(refresh.to) /\ refresh' = n /\ ~Hung
  BY DEF LandKeys
<1>3. /\ n \in Ongoing /\ n # Free /\ n.stage = "landed" /\ n.by = refresh.by
      /\ n.to = refresh.to /\ n.doc = refresh.doc /\ n.elapsed = refresh.elapsed
  <2>1. n \in Ongoing
    BY <1>1 DEF Ongoing
  <2> QED
    BY <1>1, <2>1, FreeIsNone DEF Ongoing
<1> HIDE DEF n
<1>4. /\ token' \in [Tokens -> {NoToken} \cup Opened]
      /\ \A t \in Tokens :
           /\ token'[t] # NoToken <=> IsOpen(t)
           /\ token'[t].stage = token[t].stage
           /\ IsOpen(t) => /\ token'[t].key = token[t].key
                           /\ token'[t].error = token[t].error
           /\ token'[t] # NoToken
              /\ Unsettled(token'[t].key, published'[address'], url' # address', set') =>
                token'[t].excused
           /\ Refreshes(t) /\ ~token'[t].excused => token'[t].key \in set'
           /\ token'[t].stage = "invalid" => token'[t].excused
  BY <1>2, AnswerExcuses DEF serving
<1>5. \A t \in Tokens : Refreshes(t)' => Refreshes(t)
  BY <1>4, IdleIsClosed DEF Refreshes, IsOpen
<1>6. TokensFine' /\ RefreshFine'
  BY <1>2, <1>3, <1>4 DEF TokensFine, RefreshFine
<1>7. OneRefresh'
  BY <1>1, <1>2, <1>3, <1>4 DEF KInv, OneRefresh
<1>8. LandedIsHeld' /\ AnswerIsFresh'
  BY <1>2, <1>3 DEF LandedIsHeld, AnswerIsFresh, KInv
<1>9. AnswerServes' /\ SetServes'
  BY <1>2, <1>3, <1>4, <1>5 DEF AnswerServes, SetServes, Refreshes
<1>10. ExcusesAreNoted' /\ GenuineIsNotCalledInvalid'
  BY <1>4 DEF ExcusesAreNoted, GenuineIsNotCalledInvalid, IsOpen
<1>11. CacheFine'
  BY <1>1, <1>2 DEF CacheFine, Ongoing, KInv, KeysTypeOK
<1>12. ServingFine' /\ PublishedIsNotGone' /\ CountersFine' /\ CooledDown'
  BY <1>2, ServingStays, CountersStay
<1>13. SetIsFresh'
  <2>1. freshFor' \in 0 .. MaxFresh
    BY <1>2 DEF KInv, KeysTypeOK
  <2> QED
    BY <1>2, <2>1, AnswerMakesFresh
<1>14. KeysTypeOK'
  BY <1>6, <1>11, <1>12, KeyTypesAre, PTL
<1> QED
  BY <1>7, <1>8, <1>9, <1>10, <1>12, <1>13, <1>14, <1>6 DEF KInv, Excuses

\* What ending a refresh needs of the tokens as they are.
LEMMA TokensEndFine ==
  ASSUME KInv, refresh # Free, UNCHANGED <<published, address, url, set>>,
         NEW e \in {"none", "failed"}, EndRefresh(e, token),
         e = "none" => refresh.stage = "landed"
  PROVE  /\ TokensFine' /\ RefreshFine' /\ OneRefresh' /\ LandedIsHeld' /\ AnswerIsFresh'
         /\ Excuses'
<1>1. token \in [Tokens -> {NoToken} \cup Opened]
  BY KeyTypesAre DEF KInv, TokensFine
<1>2. \A t \in Tokens :
        /\ token[t] # NoToken
           /\ Unsettled(token[t].key, published'[address'], url' # address', set') =>
             token[t].excused
        /\ token[t].stage = "again" /\ token[t].error = "none"
           /\ ~token[t].excused => token[t].key \in set'
        /\ token[t].stage = "invalid" => token[t].excused
  BY DEF KInv, Excuses, ExcusesAreNoted, SetServes, GenuineIsNotCalledInvalid, IsOpen
<1>3. ASSUME e = "none", ~token[refresh.by].excused
      PROVE  token[refresh.by].key \in set'
  <2>1. refresh.by \in Tokens
    BY KeyTypesAre, HeldIsOngoing DEF KInv, Ongoing
  <2>2. Refreshes(refresh.by)
    BY <2>1 DEF KInv, OneRefresh, Refreshes
  <2>3. refresh.to = url /\ set = refresh.doc /\ refresh.stage = "landed"
    BY <1>3 DEF KInv, LandedIsHeld
  <2> QED
    BY <1>3, <2>1, <2>2, <2>3 DEF KInv, Excuses, AnswerServes
<1> QED
  BY <1>1, <1>2, <1>3, EndKeeps

LEMMA PinKeysKeeps ==
  ASSUME KInv, PinKeys
  PROVE  KInv'
<1>1. refresh # Free /\ refresh.stage = "landed" /\ set = refresh.doc
  BY FreeIsNone DEF KInv, PinKeys, LandedIsHeld
<1>2. UNCHANGED <<serving, arrivals, url, set, owner, discoveryFor, cooldown, gone, quiet>>
      /\ ~Hung
  BY DEF PinKeys
<1>3. /\ freshFor' \in 0 .. MaxFresh
      /\ EndRefresh("failed", token) \/ EndRefresh("none", token)
  BY LifetimesAre DEF PinKeys, KInv, KeysTypeOK
<1>4. /\ TokensFine' /\ RefreshFine' /\ OneRefresh' /\ LandedIsHeld' /\ AnswerIsFresh'
      /\ Excuses'
  BY <1>1, <1>2, <1>3, TokensEndFine DEF serving
<1>5. CacheFine'
  BY <1>2, <1>3 DEF CacheFine, KInv, KeysTypeOK
<1>6. ServingFine' /\ PublishedIsNotGone' /\ CountersFine' /\ CooledDown'
  BY <1>2, ServingStays, CountersStay
<1>7. SetIsFresh'
  BY <1>1, <1>2, <1>3, AnswerMakesFresh
<1>8. KeysTypeOK'
  BY <1>4, <1>5, <1>6, KeyTypesAre, PTL
<1> QED
  BY <1>4, <1>6, <1>7, <1>8 DEF KInv

LEMMA FailRefreshKeeps ==
  ASSUME KInv, FailRefresh
  PROVE  KInv'
<1>1. refresh # Free
  BY FreeIsNone DEF FailRefresh, Unanswered, Refused, Abandoned
<1>2. UNCHANGED <<serving, arrivals, url, set, owner, freshFor, cooldown, gone, quiet>>
  BY DEF FailRefresh
<1>3. discoveryFor' \in 0 .. DiscoveryTTL
  BY KeysLimits DEF FailRefresh, KInv, KeysTypeOK
<1>4. /\ TokensFine' /\ RefreshFine' /\ OneRefresh' /\ LandedIsHeld' /\ AnswerIsFresh'
      /\ Excuses'
  BY <1>1, <1>2, TokensEndFine DEF FailRefresh, serving
<1>5. CacheFine'
  BY <1>2, <1>3 DEF CacheFine, KInv, KeysTypeOK
<1>6. ServingFine' /\ PublishedIsNotGone' /\ CountersFine' /\ CooledDown'
  BY <1>2, ServingStays, CountersStay
<1>7. SetIsFresh'
  BY <1>2 DEF KInv, SetIsFresh
<1>8. KeysTypeOK'
  BY <1>4, <1>5, <1>6, KeyTypesAre, PTL
<1> QED
  BY <1>4, <1>6, <1>7, <1>8 DEF KInv

LEMMA DropRefreshKeeps ==
  ASSUME KInv, DropRefresh
  PROVE  KInv'
<1>1. refresh # Free
  BY FreeIsNone DEF DropRefresh, Hung
<1>2. UNCHANGED <<serving, arrivals, url, set, owner, freshFor, cooldown, gone, quiet>>
  BY DEF DropRefresh, keys
<1>3. discoveryFor' \in 0 .. DiscoveryTTL
  BY KeysLimits DEF DropRefresh, KInv, KeysTypeOK, keys
<1>4. /\ TokensFine' /\ RefreshFine' /\ OneRefresh' /\ LandedIsHeld' /\ AnswerIsFresh'
      /\ Excuses'
  BY <1>1, <1>2, TokensEndFine DEF DropRefresh, serving
<1>5. CacheFine'
  BY <1>2, <1>3 DEF CacheFine, KInv, KeysTypeOK
<1>6. ServingFine' /\ PublishedIsNotGone' /\ CountersFine' /\ CooledDown'
  BY <1>2, ServingStays, CountersStay
<1>7. SetIsFresh'
  BY <1>2 DEF KInv, SetIsFresh
<1>8. KeysTypeOK'
  BY <1>4, <1>5, <1>6, KeyTypesAre, PTL
<1> QED
  BY <1>4, <1>6, <1>7, <1>8 DEF KInv

-----------------------------------------------------------------------------
(* Time.                                                                   *)

LEMMA KeysTickKeeps ==
  ASSUME KInv, KeysTick
  PROVE  KInv'
<1>1. UNCHANGED <<published, address, up, changes, url, set, owner, token>>
  BY DEF KeysTick, serving
<1>2. /\ freshFor \in 0 .. MaxFresh /\ discoveryFor \in 0 .. DiscoveryTTL
      /\ cooldown \in 0 .. RefreshCooldown /\ quiet \in 0 .. RefreshCooldown
      /\ gone \in [Keys -> 0 .. Forgotten]
  BY DEF KInv, KeysTypeOK
<1>3. \/ refresh = Free /\ refresh' = Free
      \/ Hung /\ refresh # Free /\ refresh' = refresh /\ refresh \in Ongoing
      \/ /\ refresh \in Ongoing /\ refresh # Free /\ refresh'.elapsed = refresh.elapsed + 1
         /\ refresh' \in Ongoing /\ refresh' # Free
         /\ refresh'.stage = refresh.stage /\ refresh'.by = refresh.by
         /\ refresh'.to = refresh.to /\ refresh'.doc = refresh.doc
  <2>1. ASSUME refresh # Free, ~Hung
        PROVE  /\ refresh \in Ongoing /\ refresh'.elapsed = refresh.elapsed + 1
               /\ refresh' \in Ongoing
               /\ refresh'.stage = refresh.stage /\ refresh'.by = refresh.by
               /\ refresh'.to = refresh.to /\ refresh'.doc = refresh.doc
    <3>1. refresh \in Ongoing
      BY <2>1, KeyTypesAre, HeldIsOngoing DEF KInv
    <3>2. /\ refresh.elapsed \in 0 .. Timeout /\ refresh.elapsed < Timeout
          /\ refresh' = [refresh EXCEPT !.elapsed = refresh.elapsed + 1]
      BY <2>1, <3>1 DEF KeysTick, Ongoing
    <3>3. refresh.elapsed + 1 \in 0 .. Timeout
      BY <3>2, KeysLimits
    <3> QED
      BY <3>1, <3>2, <3>3 DEF Ongoing
  <2>2. ASSUME refresh = Free
        PROVE  refresh' = Free
    BY <2>2 DEF KeysTick
  <2>3. ASSUME Hung, refresh # Free
        PROVE  refresh' = refresh /\ refresh \in Ongoing
    BY <2>3, KeyTypesAre, HeldIsOngoing DEF KInv, KeysTick
  <2> QED
    BY <2>1, <2>2, <2>3, FreeIsNone
<1>4. RefreshFine'
  BY <1>3 DEF RefreshFine
<1>5. freshFor' \in 0 .. MaxFresh /\ (freshFor' > 0 => freshFor' + 1 = freshFor)
  BY <1>2, KeysLimits DEF KeysTick, Less
<1>6. discoveryFor' \in 0 .. DiscoveryTTL
  BY <1>2, KeysLimits DEF KeysTick, Less
<1>7. CacheFine'
  BY <1>1, <1>5, <1>6 DEF CacheFine, KInv, KeysTypeOK
<1>8. /\ cooldown' \in 0 .. RefreshCooldown /\ quiet' \in 0 .. RefreshCooldown
      /\ CooledDown'
  BY <1>2, KeysLimits DEF KeysTick, Less, More, KInv, CooledDown
<1>9. gone' \in [Keys -> 0 .. Forgotten] /\ \A k \in Keys : gone'[k] <= gone[k] + 1
  <2>1. gone' = [k \in Keys |-> IF Served(published, k) THEN 0 ELSE More(gone[k], Forgotten)]
    BY DEF KeysTick
  <2>2. \A k \in Keys :
          More(gone[k], Forgotten) \in 0 .. Forgotten /\ More(gone[k], Forgotten) <= gone[k] + 1
    BY <1>2, KeysLimits DEF More
  <2> QED
    BY <1>2, <2>1, <2>2, KeysLimits
<1>10. CountersFine'
  <2>1. arrivals' \in 0 .. MaxArrivals
    BY KeysLimits DEF KeysTick
  <2> QED
    BY <1>8, <1>9, <2>1 DEF CountersFine
<1>11. ServingFine' /\ TokensFine'
  BY <1>1, KeyTypesAre DEF KInv, ServingFine, TokensFine
<1>12. KeysTypeOK'
  BY <1>4, <1>7, <1>10, <1>11, KeyTypesAre, PTL
<1>13. OneRefresh'
  BY <1>1, <1>3 DEF KInv, OneRefresh
<1>14. LandedIsHeld' /\ AnswerServes'
  BY <1>1, <1>3, FreeIsNone DEF KInv, Excuses, LandedIsHeld, AnswerServes, Refreshes
<1>15. AnswerIsFresh'
  <2>1. SUFFICES ASSUME refresh'.stage \in {"served", "landed"}, ~Hung', NEW k \in refresh'.doc
                 PROVE  gone'[k] <= refresh'.elapsed
    BY DEF AnswerIsFresh
  <2>4. ~Hung
    BY <1>1, <1>3, <2>1, FreeIsNone DEF Hung, Ambiguous
  <2>2. /\ refresh \in Ongoing /\ refresh.stage \in {"served", "landed"}
        /\ k \in refresh.doc /\ refresh'.elapsed = refresh.elapsed + 1
    BY <1>3, <2>1, <2>4, FreeIsNone
  <2>3. k \in Keys /\ gone[k] <= refresh.elapsed /\ refresh.elapsed \in 0 .. Timeout
    BY <2>2, <2>4 DEF Ongoing, KInv, AnswerIsFresh
  <2> QED
    BY <1>2, <1>9, <2>2, <2>3, KeysLimits
<1>16. SetIsFresh'
  <2>1. SUFFICES ASSUME freshFor' > 0, NEW k \in set
                 PROVE  gone'[k] + freshFor' <= Forgotten
    BY <1>1 DEF SetIsFresh
  <2>2. k \in Keys
    BY DEF KInv, KeysTypeOK
  <2>3. freshFor' + 1 = freshFor /\ freshFor > 0
    <3>1. freshFor' + 1 = freshFor
      BY <1>5, <2>1
    <3>2. freshFor' \in Nat
      BY <1>5, KeysLimits
    <3> QED
      BY <2>1, <3>1, <3>2
  <2>4. gone[k] + freshFor <= Forgotten
    BY <2>3 DEF KInv, SetIsFresh
  <2>5. /\ gone[k] \in Nat /\ gone'[k] \in Nat /\ gone'[k] <= gone[k] + 1
        /\ freshFor \in Nat /\ freshFor' \in Nat
    BY <1>2, <1>5, <1>9, <2>2, KeysLimits
  <2>6. \A g, h, f, e, n \in Nat : g <= h + 1 /\ e + 1 = f /\ h + f <= n => g + e <= n
    OBVIOUS
  <2>7. Forgotten \in Nat
    BY KeysLimits
  <2> QED
    BY <2>3, <2>4, <2>5, <2>6, <2>7
<1>17. PublishedIsNotGone'
  BY <1>1 DEF KeysTick, PublishedIsNotGone, Served
<1>18. ExcusesAreNoted' /\ SetServes' /\ GenuineIsNotCalledInvalid'
  BY <1>1 DEF KInv, Excuses, ExcusesAreNoted, SetServes, GenuineIsNotCalledInvalid, IsOpen
<1> QED
  BY <1>8, <1>12, <1>13, <1>14, <1>15, <1>16, <1>17, <1>18 DEF KInv, Excuses

-----------------------------------------------------------------------------
(* The invariant and what it gives.                                        *)

LEMMA KeysInitially == KeysInit => KInv
<1> SUFFICES ASSUME KeysInit PROVE KInv
  OBVIOUS
<1>1. /\ published = AtFirst /\ AtFirst \in [Addresses -> Documents]
      /\ address = First /\ url = First /\ First \in Addresses /\ set = AtFirst[First]
      /\ refresh = Free /\ \A t \in Tokens : token[t] = NoToken
  BY KeysAssumption DEF KeysInit
<1>2. AtFirst[First] \subseteq Keys
  BY <1>1, DocumentsAreSets
<1>3. gone \in [Keys -> 0 .. Forgotten] /\ PublishedIsNotGone
  BY <1>1, KeysLimits DEF KeysInit, PublishedIsNotGone
<1>4. freshFor \in 0 .. MaxFresh
  BY KeysLimits DEF KeysInit
<1>5. ServingFine /\ CacheFine
  BY <1>1, <1>2, <1>4, KeysLimits DEF KeysInit, ServingFine, CacheFine
<1>6. CountersFine /\ CooledDown
  BY <1>3, KeysLimits DEF KeysInit, CountersFine, CooledDown
<1>7. TokensFine /\ RefreshFine
  BY DEF KeysInit, TokensFine, RefreshFine
<1>8. KeysTypeOK
  BY <1>5, <1>6, <1>7, KeyTypesAre
<1>9. OneRefresh /\ LandedIsHeld /\ AnswerIsFresh
  BY <1>1, IdleIsClosed, FreeIsNone DEF OneRefresh, LandedIsHeld, AnswerIsFresh
<1>10. SetIsFresh
  <2>1. \A k \in set : k \in Keys /\ Served(published, k)
    BY <1>1, <1>2 DEF Served
  <2> QED
    BY <1>3, <1>4, <2>1, KeysLimits DEF SetIsFresh, PublishedIsNotGone
<1>11. Excuses
  BY <1>1, IdleIsClosed, FreeIsNone
     DEF Excuses, ExcusesAreNoted, AnswerServes, SetServes, GenuineIsNotCalledInvalid, IsOpen
<1> QED
  BY <1>3, <1>6, <1>8, <1>9, <1>10, <1>11 DEF KInv

LEMMA KeysNextKeeps == KInv /\ [KeysNext]_keyVars => KInv'
<1> SUFFICES ASSUME KInv, [KeysNext]_keyVars PROVE KInv'
  OBVIOUS
<1>1. ASSUME NEW document \in Documents, Publish(document) PROVE KInv'
  BY <1>1, PublishKeeps
<1>2. ASSUME NEW a \in Addresses, Move(a) PROVE KInv'
  BY <1>2, MoveKeeps
<1>3. ASSUME Fail \/ Recover PROVE KInv'
  BY <1>3, OutageKeeps
<1>4. ASSUME NEW t \in Tokens, TokenSteps(t) PROVE KInv'
  BY <1>4, LookAgainKeeps, RefuseRefreshKeeps, BeginRefreshKeeps, LeaveKeeps,
     DisconnectKeeps DEF TokenSteps
<1>5. ASSUME NEW t \in Tokens, NEW key \in Keys, Verify(t, key) PROVE KInv'
  BY <1>5, VerifyKeeps
<1>6. ASSUME RefreshSteps PROVE KInv'
  BY <1>6, ReadDiscoveryKeeps, ServeKeysKeeps, SwapKeysKeeps, LandKeysKeeps, PinKeysKeeps,
     FailRefreshKeeps DEF RefreshSteps
<1>7. ASSUME DropRefresh PROVE KInv'
  BY <1>7, DropRefreshKeeps
<1>8. ASSUME UNCHANGED keyVars PROVE KInv'
  <2>1. UNCHANGED <<serving, keys, token, refresh, arrivals, cooldown, gone, quiet>>
    BY <1>8 DEF keyVars
  <2>2. UNCHANGED <<published, address, url, set, token, refresh>>
    BY <2>1 DEF serving, keys
  <2>3. arrivals' \in 0 .. MaxArrivals
    BY <2>1 DEF KInv, KeysTypeOK
  <2> QED
    BY <2>1, <2>2, <2>3, TokensStay, RestStays DEF keys
<1> QED
  BY <1>1, <1>2, <1>3, <1>4, <1>5, <1>6, <1>7, <1>8, KeysTickKeeps DEF KeysNext

\* Every state that the verifier and the provider reach has it.
THEOREM KeysInvariant == KeysSpec => []KInv
  BY KeysInitially, KeysNextKeeps, PTL DEF KeysSpec

\* Every variable keeps its type: no timer runs past its end, and a refresh never
\* outlasts the HTTP client's timeout.
THEOREM KeysTypeCorrect == KeysSpec => []KeysTypeOK
<1>1. KInv => KeysTypeOK
  BY DEF KInv
<1> QED
  BY <1>1, KeysInvariant, PTL

\* A token is called invalid only if its key was withdrawn, the JWKS had moved or the
\* set in hand named an id twice, or had a key of another use or algorithm under the
\* token's id, at some time while it was being verified: neither an outage, nor the
\* cooldown, nor another's refresh, nor a cache without workers makes it so
\* (cachedKeyFor, refreshedKeyFor, payloadAfterSignatureFailure).
THEOREM GenuineTokensAreNotInvalid == KeysSpec => []GenuineIsNotCalledInvalid
<1>1. KInv => GenuineIsNotCalledInvalid
  BY DEF KInv, Excuses
<1> QED
  BY <1>1, KeysInvariant, PTL

\* A stage other than "accepted" becomes it only by looking in a set still fresh.
LEMMA AcceptedIsHeld ==
  ASSUME KInv, [KeysNext]_keyVars, NEW t \in Tokens,
         token'[t].stage = "accepted", token[t].stage # "accepted"
  PROVE  freshFor > 0 /\ token'[t].key \in set
<1> USE DEF KInv
<1>1. TokensFine /\ freshFor \in Nat
  BY KeyTypesAre, KeysLimits DEF CacheFine
<1>2. ASSUME NEW p \in Tokens, NEW key \in Keys, Verify(p, key)
      PROVE  freshFor > 0 /\ token'[t].key \in set
  <2>1. p = t
    BY <1>1, <1>2 DEF Verify, TokensFine
  <2> DEFINE r == [stage |-> "arrived", key |-> key, why |-> "missing", error |-> "none",
                   excused |-> Unsettled(key, published[address], url # address, set),
                  left |-> FALSE]
  <2>2. token'[t] = IF freshFor = 0 THEN Wait(r, "missing")
                    ELSE IF Refuses(set, key) THEN [r EXCEPT !.stage = "invalid"]
                    ELSE IF UnderId(set, key) = {} THEN Wait(r, "missing")
                    ELSE IF key \in UnderId(set, key) THEN [r EXCEPT !.stage = "accepted"]
                    ELSE Wait(r, "signature")
    BY <1>1, <1>2, <2>1 DEF Verify, TokensFine
  <2>3. \A why : Wait(r, why).stage = "waiting"
    BY DEF Wait
  <2>4. /\ [r EXCEPT !.stage = "invalid"].stage = "invalid"
        /\ [r EXCEPT !.stage = "accepted"].key = key
    OBVIOUS
  <2> HIDE DEF r
  <2>5. freshFor # 0 /\ key \in UnderId(set, key) /\ token'[t].key = key
    BY <2>2, <2>3, <2>4
  <2> QED
    BY <1>1, <2>5 DEF UnderId
<1>3. ASSUME NEW p \in Tokens, LookAgain(p)
      PROVE  freshFor > 0 /\ token'[t].key \in set
  <2> DEFINE r == token[t]
             found == UnderId(set, r.key)
  <2>1. p = t
    BY <1>1, <1>3 DEF LookAgain, TokensFine
  <2>2. r \in Opened
    BY <1>1, <1>3, <2>1, OpenIsOpened, IdleIsClosed DEF LookAgain, IsOpen
  <2>3. token'[t] =
          IF freshFor = 0 THEN [r EXCEPT !.stage = "unavailable"]
          ELSE IF Refuses(set, r.key) THEN [r EXCEPT !.stage = "invalid"]
          ELSE IF found = {} THEN [r EXCEPT !.stage = AfterRefresh(r, "invalid")]
          ELSE IF r.why = "missing"
          THEN IF r.key \in found THEN [r EXCEPT !.stage = "accepted"]
               ELSE Wait(r, "signature")
          ELSE IF r.error = "failed" THEN [r EXCEPT !.stage = "unavailable"]
          ELSE IF r.key \in found THEN [r EXCEPT !.stage = "accepted"]
          ELSE [r EXCEPT !.stage = AfterRefresh(r, "invalid")]
    BY <1>1, <1>3, <2>1 DEF LookAgain, TokensFine
  <2>4. AfterRefresh(r, "invalid") \in {"invalid", "unavailable"}
    BY DEF AfterRefresh
  <2>5. /\ \A s \in {"invalid", "unavailable"} : [r EXCEPT !.stage = s].stage = s
        /\ [r EXCEPT !.stage = "accepted"].key = r.key
        /\ Wait(r, "signature").stage = "waiting"
    BY <2>2 DEF Opened, Wait
  <2> HIDE DEF r
  <2>6. freshFor # 0 /\ r.key \in found /\ token'[t].key = r.key
    BY <2>3, <2>4, <2>5
  <2> QED
    BY <1>1, <2>6 DEF UnderId
<1>4. ASSUME NEW p \in Tokens,
             RefuseRefresh(p) \/ BeginRefresh(p) \/ Leave(p) \/ Disconnect(p)
      PROVE  FALSE
  <2>1. token[p] \in Opened
    BY <1>1, <1>4, OpenIsOpened
       DEF RefuseRefresh, BeginRefresh, Leave, Disconnect, Waiting, IsOpen
  <2>2. PICK r : token' = [token EXCEPT ![p] = r] /\ r.stage # "accepted"
    <3>1. ASSUME RefuseRefresh(p)
          PROVE  \E r : token' = [token EXCEPT ![p] = r] /\ r.stage # "accepted"
      <4> DEFINE r == [token[p] EXCEPT !.stage = "again", !.error = "cooldown"]
      <4>1. token' = [token EXCEPT ![p] = r] /\ r.stage # "accepted"
        BY <2>1, <3>1 DEF RefuseRefresh, Opened
      <4> QED
        BY <4>1
    <3>2. ASSUME BeginRefresh(p)
          PROVE  \E r : token' = [token EXCEPT ![p] = r] /\ r.stage # "accepted"
      <4> DEFINE r == [token[p] EXCEPT !.stage = "refreshing"]
      <4>1. token' = [token EXCEPT ![p] = r] /\ r.stage # "accepted"
        BY <2>1, <3>2 DEF BeginRefresh, StartRefresh, Stage, Opened
      <4> QED
        BY <4>1
    <3>3. ASSUME Leave(p)
          PROVE  \E r : token' = [token EXCEPT ![p] = r] /\ r.stage # "accepted"
      BY <3>3, IdleIsClosed DEF Leave
    <3>4. ASSUME Disconnect(p)
          PROVE  \E r : token' = [token EXCEPT ![p] = r] /\ r.stage # "accepted"
      <4> DEFINE r == [token[p] EXCEPT !.left = TRUE]
      <4>1. token' = [token EXCEPT ![p] = r] /\ r.stage # "accepted"
        BY <2>1, <3>4 DEF Disconnect, Opened, Verdicts
      <4> QED
        BY <4>1
    <3> QED
      BY <1>4, <3>1, <3>2, <3>3, <3>4
  <2> QED
    BY <1>1, <2>2 DEF TokensFine
<1>5. ASSUME NEW offered, NEW moved \in BOOLEAN, NEW held,
             token' = Excusing(token, offered, moved, held)
      PROVE  FALSE
  BY <1>1, <1>5, ExcusingNotes DEF ExcusesNoted
<1>6. ASSUME NEW e \in {"none", "failed"}, NEW tokens \in [Tokens -> {NoToken} \cup Opened],
             \A p \in Tokens : tokens[p].stage = token[p].stage,
             refresh # Free, EndRefresh(e, tokens)
      PROVE  FALSE
  <2>1. refresh.by \in Tokens
    BY <1>6, KeyTypesAre, HeldIsOngoing DEF Ongoing
  <2>2. tokens[refresh.by] \in Opened
    BY <1>6, <2>1, IdleIsClosed DEF OneRefresh
  <2> DEFINE r == [tokens[refresh.by] EXCEPT !.stage = "again", !.error = e]
  <2>3. token' = [tokens EXCEPT ![refresh.by] = r] /\ r.stage = "again"
    BY <1>6, <2>2 DEF EndRefresh, Opened
  <2> HIDE DEF r
  <2> QED
    BY <1>6, <2>1, <2>3
<1>7. ASSUME RefreshSteps \/ DropRefresh PROVE FALSE
  <2>1. refresh # Free
    BY <1>7, FreeIsNone
       DEF RefreshSteps, ReadDiscovery, ServeKeys, SwapKeys, LandKeys, PinKeys, FailRefresh,
           Unanswered, Refused, Abandoned, DropRefresh, Hung
  <2>2. CASE ReadDiscovery \/ ServeKeys
    BY <2>2 DEF ReadDiscovery, ServeKeys
  <2>3. CASE SwapKeys
    <3> DEFINE tokens == Excused(refresh.to)
    <3>1. /\ tokens \in [Tokens -> {NoToken} \cup Opened]
          /\ \A p \in Tokens : tokens[p].stage = token[p].stage
      <4>1. tokens = Excusing(token, published[address], refresh.to # address, refresh.doc)
        BY DEF Excused
      <4> HIDE DEF tokens
      <4>2. /\ tokens \in [Tokens -> {NoToken} \cup Opened]
            /\ ExcusesNoted(tokens, published[address], refresh.to # address, refresh.doc)
        BY <1>1, <4>1, ExcusingNotes
      <4> QED
        BY <4>2 DEF ExcusesNoted
    <3>2. token' = tokens \/ EndRefresh("failed", tokens)
      BY <2>3 DEF SwapKeys
    <3> HIDE DEF tokens
    <3> QED
      BY <1>6, <2>1, <3>1, <3>2
  <2>4. CASE LandKeys
    BY <1>5, <2>4 DEF LandKeys, Excused
  <2>5. CASE PinKeys \/ FailRefresh \/ DropRefresh
    BY <1>1, <1>6, <2>1, <2>5 DEF PinKeys, FailRefresh, DropRefresh, TokensFine
  <2> QED
    BY <1>7, <2>2, <2>3, <2>4, <2>5 DEF RefreshSteps
<1>8. ASSUME NEW document \in Documents, Publish(document) PROVE FALSE
  BY <1>5, <1>8 DEF Publish
<1>9. ASSUME NEW a \in Addresses, Move(a) PROVE FALSE
  BY <1>5, <1>9 DEF Move
<1>10. ASSUME UNCHANGED token PROVE FALSE
  BY <1>10
<1> QED
  BY <1>2, <1>3, <1>4, <1>7, <1>8, <1>9, <1>10
     DEF KeysNext, TokenSteps, Fail, Recover, KeysTick, keyVars

\* A key that nobody publishes any more is accepted for less than MaxFresh + Timeout:
\* pinJWKS starts a set's life anew only with an answer the provider gave no longer
\* than a timeout ago.
THEOREM WithdrawnKeysEnd == KeysSpec => WithdrawnKeysAreForgotten
<1>1. KInv /\ [KeysNext]_keyVars =>
        [\A t \in Tokens :
           token'[t].stage = "accepted" /\ token[t].stage # "accepted" =>
             gone[token'[t].key] < MaxFresh + Timeout]_keyVars
  <2> SUFFICES ASSUME KInv, [KeysNext]_keyVars, NEW t \in Tokens,
                      token'[t].stage = "accepted", token[t].stage # "accepted"
               PROVE  gone[token'[t].key] < MaxFresh + Timeout
    OBVIOUS
  <2>1. freshFor > 0 /\ token'[t].key \in set
    BY AcceptedIsHeld
  <2>2. /\ token'[t].key \in Keys /\ freshFor \in 0 .. MaxFresh
        /\ gone \in [Keys -> 0 .. Forgotten]
    BY <2>1 DEF KInv, KeysTypeOK
  <2>3. gone[token'[t].key] + freshFor <= Forgotten
    BY <2>1 DEF KInv, SetIsFresh
  <2> QED
    BY <2>1, <2>2, <2>3, KeysLimits
<1> QED
  BY <1>1, KeysInvariant, PTL DEF KeysSpec, WithdrawnKeysAreForgotten

\* From the start of one refresh to that of the next a RefreshCooldown passes,
\* whatever tokens arrive and however the first one ends (refreshKeys).
THEOREM ProviderIsLeftAlone == KeysSpec => ProviderIsNotHammered
<1>1. KInv /\ [KeysNext]_keyVars =>
        [refresh = Free /\ refresh' # Free => quiet = RefreshCooldown]_keyVars
  <2> SUFFICES ASSUME KInv, [KeysNext]_keyVars, refresh = Free, refresh' # Free
               PROVE  quiet = RefreshCooldown
    OBVIOUS
  <2>1. ~RefreshSteps /\ ~DropRefresh
    BY FreeIsNone DEF RefreshSteps, ReadDiscovery, ServeKeys, SwapKeys, LandKeys, PinKeys,
       FailRefresh, Unanswered, Refused, Abandoned, DropRefresh, Hung
  <2>2. ~KeysTick
    BY DEF KeysTick
  <2>3. PICK t \in Tokens : BeginRefresh(t)
    BY <2>1, <2>2 DEF KeysNext, TokenSteps, Publish, Move, Fail, Recover, LookAgain,
       RefuseRefresh, Leave, Disconnect, Verify, keyVars
  <2>4. cooldown = 0
    BY <2>3 DEF BeginRefresh
  <2> QED
    BY <2>4 DEF KInv, CooledDown, KeysTypeOK
<1> QED
  BY <1>1, KeysInvariant, PTL DEF KeysSpec, ProviderIsNotHammered
=============================================================================
