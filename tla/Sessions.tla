------------------------------ MODULE Sessions ------------------------------
(***************************************************************************)
(* Browser sessions: how one comes to be (handleAuthLogin,                 *)
(* completeSignIn, establishSession), how a request is admitted on one     *)
(* (RequireAuthentication), and how it ends (handleAuthLogout, the         *)
(* provider's back-channel notice, the idle and absolute bounds, the       *)
(* reaper).                                                                *)
(*                                                                         *)
(* Every statement on the sessions table is one step and so is every       *)
(* reading of the clock; between two steps of a handler anything may       *)
(* happen.  The identity provider is modelled from its side of the         *)
(* protocol: it ends single sign-on sessions, tells about them late,       *)
(* repeatedly or never, and its tokens carry a session id or do not.       *)
(***************************************************************************)
EXTENDS Integers, FiniteSets

CONSTANTS
  Sessions,     \* session ids, each minted once
  IdPSessions,  \* the provider's single sign-on sessions
  SubjectOf,    \* whose they are
  NoSid,        \* a token's sid claim, left out
  Requests, Handlers,  \* what may be under way at a time
  CookieOf,     \* the session a request names
  Providers,    \* what a provider's tokens may carry
  LoginMaxAge, LogoutMaxAge, IdleTTL, AbsoluteTTL, TouchInterval,
  LastSignIn,   \* bound: no sign-in is begun or completed after this time
  MaxEnded,     \* bound: how many of its sessions the provider ends
  Horizon       \* bound: the last time there is

Times    == 0 .. Horizon
Subjects == {SubjectOf[g] : g \in IdPSessions}

ASSUME SessionsAssumption ==
  /\ NoSid \notin IdPSessions
  /\ CookieOf \in [Requests -> Sessions]
  /\ Providers \subseteq [idToken : BOOLEAN, logoutToken : {"sid", "sub", "both"}]
  /\ {LoginMaxAge, LogoutMaxAge, LastSignIn, MaxEnded, Horizon} \subseteq Nat
  /\ {IdleTTL, AbsoluteTTL, TouchInterval} \subseteq Nat \ {0}
  /\ LastSignIn + AbsoluteTTL < Horizon

VARIABLES
  now,
  provider,   \* which of its tokens carry what; fixed
  ended,      \* for how long the logout token of an ended one stays fresh
  answered,   \* those whose end some notice was answered 200 for
  users,      \* the projected subjects
  signIn,     \* the sign-in that may mint a session
  row,        \* the sessions table
  left,       \* sessions whose browser has signed out
  request, handler,  \* what each is doing
  lastUsed,   \* history: the latest reading a session was judged live at
  told,       \* history: the latest end a request on it was told, see /v1/me
  missed,     \* history: sessions a touch of which failed
  overtaken,  \* history: sessions a touch moved back
  overlapped  \* history: sessions being minted while a notice for them ran

idp     == <<provider, ended, answered>>
tables  == <<users, row>>
history == <<lastUsed, told, missed, overtaken, overlapped>>
vars    == <<now, idp, tables, signIn, left, request, handler, history>>

Never == -1
NoRow == [state |-> "absent"]
Idle  == [stage |-> "idle"]

NoSignIn == [stage |-> "none", origin |-> NoSid, at |-> 0]

Rows == [state : {"standing", "revoked"}, subject : Subjects,
         sid : IdPSessions \cup {NoSid},
         created : Times, lastSeen : Times, absolute : Times]

TypeOK ==
  /\ now \in Times
  /\ provider \in Providers
  /\ ended \in [IdPSessions -> 0 .. LogoutMaxAge + 1 \cup {Never}]
  /\ answered \subseteq IdPSessions
  /\ users \subseteq Subjects
  /\ signIn \in [Sessions ->
       [stage : {"none", "begun", "redeemed", "projected", "minted", "over"},
        origin : IdPSessions \cup {NoSid}, at : Times]]
  /\ row \in [Sessions -> Rows \cup {NoRow}]
  /\ left \subseteq Sessions
  /\ request \in [Requests -> {Idle} \cup
       [stage : {"read", "touching"}, seen : Rows, at : Times]]
  /\ handler \in [Handlers -> {Idle} \cup [stage : {"fallback"}, ends : IdPSessions]]
  /\ lastUsed \in [Sessions -> Times]
  /\ told \in [Sessions -> 0 .. Horizon + IdleTTL]
  /\ missed \subseteq Sessions /\ overtaken \subseteq Sessions
  /\ overlapped \subseteq Sessions

Init ==
  /\ now = 0
  /\ provider \in Providers
  /\ ended = [g \in IdPSessions |-> Never]
  /\ answered = {} /\ users = {} /\ left = {}
  /\ signIn = [s \in Sessions |-> NoSignIn]
  /\ row = [s \in Sessions |-> NoRow]
  /\ request = [q \in Requests |-> Idle]
  /\ handler = [h \in Handlers |-> Idle]
  /\ lastUsed = [s \in Sessions |-> 0]
  /\ told = [s \in Sessions |-> 0]
  /\ missed = {} /\ overtaken = {} /\ overlapped = {}

-----------------------------------------------------------------------------
(* A session's bounds.                                                     *)

Earlier(t, u) == IF t < u THEN t ELSE u
Later(t, u)   == IF t < u THEN u ELSE t

ExpiresAt(session) == Earlier(session.absolute, session.lastSeen + IdleTTL)

IsLive(session, time) == session.state = "standing" /\ time < ExpiresAt(session)

-----------------------------------------------------------------------------
(* Signing in.                                                             *)

\* handleAuthLogin: the transaction is sealed into a cookie with its time.
BeginLogin(s) ==
  /\ signIn[s].stage = "none" /\ now <= LastSignIn
  /\ signIn' = [signIn EXCEPT ![s].stage = "begun", ![s].at = now]
  /\ UNCHANGED <<now, idp, tables, left, request, handler, history>>

OpensTransaction(sealed) == now - sealed.at <= LoginMaxAge

\* The provider gives out tokens of a session it has.
Exchange(g) == ended[g] = Never

\* completeSignIn up to the verified ID token: the sealed transaction is young
\* enough, the code is redeemed for a token of a session the provider has.
\* Anything wrong ends the sign-in.
RedeemCode(s) ==
  /\ signIn[s].stage = "begun"
  /\ OpensTransaction(signIn[s])
  /\ \E g \in IdPSessions :
       /\ Exchange(g)
       /\ signIn' = [signIn EXCEPT ![s] = [stage |-> "redeemed", origin |-> g, at |-> 0]]
  /\ UNCHANGED <<now, idp, tables, left, request, handler, history>>

\* A sign-in that fails leaves nothing but a projected user.
FailSignIn(s) ==
  /\ signIn[s].stage \in {"begun", "redeemed", "projected", "minted"}
  /\ signIn' = [signIn EXCEPT ![s] = [NoSignIn EXCEPT !.stage = "over"]]
  /\ UNCHANGED <<now, idp, tables, left, request, handler, history>>

\* RecordSignIn and UpsertUser: project the user, before there is a session.
RecordSignIn(s) ==
  /\ signIn[s].stage = "redeemed"
  /\ signIn' = [signIn EXCEPT ![s].stage = "projected"]
  /\ users' = users \cup {SubjectOf[signIn[s].origin]}
  /\ UNCHANGED <<now, idp, row, left, request, handler, history>>

\* A fresh id, and the clock the session's bounds are counted from.
MintSession(s) ==
  /\ signIn[s].stage = "projected"
  /\ now <= LastSignIn
  /\ signIn' = [signIn EXCEPT ![s].stage = "minted", ![s].at = now]
  /\ UNCHANGED <<now, idp, tables, left, request, handler, history>>

CreateSession(s) ==
  LET from == signIn[s]
  IN /\ from.stage = "minted"
     /\ row' = [row EXCEPT ![s] =
          [state |-> "standing", subject |-> SubjectOf[from.origin],
           sid |-> IF provider.idToken THEN from.origin ELSE NoSid,
           created |-> from.at, lastSeen |-> from.at,
           absolute |-> from.at + AbsoluteTTL]]
     /\ signIn' = [signIn EXCEPT ![s].stage = "over", ![s].at = 0]
     /\ lastUsed' = [lastUsed EXCEPT ![s] = from.at]
     /\ UNCHANGED <<now, idp, users, left, request, handler,
                    told, missed, overtaken, overlapped>>

-----------------------------------------------------------------------------
(* A request on a session: authenticate.                                   *)

\* SessionByHash.  No row, or no answer, and the request is refused.
ReadSession(q) ==
  /\ request[q] = Idle /\ row[CookieOf[q]] # NoRow
  /\ request' = [request EXCEPT ![q] =
       [stage |-> "read", seen |-> row[CookieOf[q]], at |-> 0]]
  /\ UNCHANGED <<now, idp, tables, signIn, left, handler, history>>

\* Mutant: the touch is due one interval later.
TouchIsDue_Late(session, time) == time - session.lastSeen > TouchInterval

TouchIsDue(session, time) == time - session.lastSeen >= TouchInterval

\* The request is admitted, and told when the session it has in hand ends.
Admit(q, session) ==
  /\ request' = [request EXCEPT ![q] = Idle]
  /\ told' = [told EXCEPT ![CookieOf[q]] = Later(@, ExpiresAt(session))]

\* IsLive at the clock's reading, on the row as it was read.
JudgeSession(q) ==
  LET seen == request[q].seen
  IN /\ request[q].stage = "read"
     /\ IF ~IsLive(seen, now)
        THEN request' = [request EXCEPT ![q] = Idle] /\ UNCHANGED <<lastUsed, told>>
        ELSE /\ lastUsed' = [lastUsed EXCEPT ![CookieOf[q]] = Later(@, now)]
             /\ IF TouchIsDue(seen, now)
                THEN /\ request' = [request EXCEPT ![q].stage = "touching", ![q].at = now]
                     /\ UNCHANGED told
                ELSE Admit(q, seen)
     /\ UNCHANGED <<now, idp, tables, signIn, left, handler,
                    missed, overtaken, overlapped>>

\* What a touch makes of a row: only a standing one is touched, and one that
\* is gone or revoked is no error.
\* Mutant: the absolute bound slides as well.
AfterTouch_SlidesBoth(r, at) ==
  IF r # NoRow /\ r.state = "standing"
  THEN [r EXCEPT !.lastSeen = at, !.absolute = Earlier(at + AbsoluteTTL, Horizon)]
  ELSE r

AfterTouch(r, at) ==
  IF r # NoRow /\ r.state = "standing" THEN [r EXCEPT !.lastSeen = at] ELSE r

TouchSession(q) ==
  LET s  == CookieOf[q]
      at == request[q].at
  IN /\ request[q].stage = "touching"
     /\ Admit(q, [request[q].seen EXCEPT !.lastSeen = at])
     /\ row' = [row EXCEPT ![s] = AfterTouch(@, at)]
     /\ overtaken' = IF row[s] # NoRow /\ at < row[s].lastSeen
                     THEN overtaken \cup {s} ELSE overtaken
     /\ UNCHANGED <<now, idp, users, signIn, left, handler, lastUsed,
                    missed, overlapped>>

\* Mutant: the caller is told of the bound the touch would have written.
FailTouch_ToldAnyway(q) ==
  /\ request[q].stage = "touching"
  /\ Admit(q, [request[q].seen EXCEPT !.lastSeen = request[q].at])
  /\ missed' = missed \cup {CookieOf[q]}
  /\ UNCHANGED <<now, idp, tables, signIn, left, handler, lastUsed,
                 overtaken, overlapped>>

\* A touch that fails is logged, and the request goes on with what it read.
FailTouch(q) ==
  /\ request[q].stage = "touching"
  /\ Admit(q, request[q].seen)
  /\ missed' = missed \cup {CookieOf[q]}
  /\ UNCHANGED <<now, idp, tables, signIn, left, handler, lastUsed,
                 overtaken, overlapped>>

-----------------------------------------------------------------------------
(* How a session ends.                                                     *)

Revoking(dead) ==
  [s \in Sessions |->
    IF row[s] # NoRow /\ s \in dead THEN [row[s] EXCEPT !.state = "revoked"] ELSE row[s]]

Standing == {s \in Sessions : row[s] # NoRow /\ row[s].state = "standing"}

\* handleAuthLogout: the browser drops its cookie whether or not the row was
\* revoked.
Logout(s) ==
  /\ row[s] # NoRow /\ s \notin left
  /\ left' = left \cup {s}
  /\ row' \in {row, Revoking({s})}
  /\ UNCHANGED <<now, idp, users, signIn, request, handler, history>>

\* The provider ends one of its sessions.
EndIdPSession(g) ==
  /\ ended[g] = Never
  /\ Cardinality({o \in IdPSessions : ended[o] # Never}) < MaxEnded
  /\ ended' = [ended EXCEPT ![g] = LogoutMaxAge + 1]
  /\ UNCHANGED <<now, provider, answered, tables, signIn, left, request,
                 handler, history>>

\* Sign-ins on the ended session that hold its token but have no row yet.
BeingMinted(g) ==
  {s \in Sessions : /\ signIn[s].origin = g
                    /\ signIn[s].stage \in {"redeemed", "projected", "minted"}}

\* VerifyLogoutToken: a token is good while it is fresh, any number of times.
Verified(g) == ended[g] > 0

\* The rows a statement revokes, and what becomes of the notice: answered 200,
\* or a second statement.
Revoke(h, g, dead, again) ==
  /\ row' = Revoking(dead)
  /\ handler' = [handler EXCEPT ![h] =
       IF again THEN [stage |-> "fallback", ends |-> g] ELSE Idle]
  /\ answered' = IF again THEN answered ELSE answered \cup {g}
  /\ overlapped' = overlapped \cup BeingMinted(g)
  /\ UNCHANGED <<now, provider, ended, users, signIn, left, request,
                 lastUsed, told, missed, overtaken>>

WithSid(g) == {s \in Standing : row[s].sid = g}

\* Mutant: a sid that matches no row is taken for the answer.
RevokeSessionsByIDPSessionID_NoFallback(h, g) ==
  /\ handler[h] = Idle /\ Verified(g) /\ provider.logoutToken # "sub"
  /\ Revoke(h, g, WithSid(g), FALSE)

\* handleBackchannelLogout for a token with a sid.  A sid that matches no row
\* leads to a second statement.
RevokeSessionsByIDPSessionID(h, g) ==
  /\ handler[h] = Idle /\ Verified(g) /\ provider.logoutToken # "sub"
  /\ Revoke(h, g, WithSid(g), WithSid(g) = {})

OfSubject(g) == {s \in Standing : row[s].subject = SubjectOf[g]}

\* Mutant: the fallback takes all of the subject's sessions.
WithoutSid_All(g) == OfSubject(g)

WithoutSid(g) == {s \in OfSubject(g) : row[s].sid = NoSid}

\* The fallback, which takes nothing when the token has no subject.
RevokeSessionsBySubjectWithoutIDPSession(h) ==
  /\ handler[h] # Idle
  /\ LET g == handler[h].ends
     IN Revoke(h, g, IF provider.logoutToken = "sid" THEN {} ELSE WithoutSid(g), FALSE)

\* For a token without a sid the subject is the only key there is.
RevokeSessionsBySubject(h, g) ==
  /\ handler[h] = Idle /\ Verified(g) /\ provider.logoutToken = "sub"
  /\ Revoke(h, g, OfSubject(g), FALSE)

\* The fallback fails: 500, and the provider need not try again.  A first
\* statement that fails is a notice that never came.
FailFallback(h) ==
  /\ handler[h] # Idle
  /\ handler' = [handler EXCEPT ![h] = Idle]
  /\ UNCHANGED <<now, idp, tables, signIn, left, request, history>>

\* Mutant: rows are swept an idle time ahead of their bound.
IsSwept_Early(r) == r.absolute < now + IdleTTL

IsSwept(r) == r.absolute < now

\* ReapSessions.  What its clock reading and its statement are apart only
\* delays a sweep: no row is made that the reading would have taken.
DeleteSessionsExpiredBefore ==
  LET swept == {s \in Sessions : row[s] # NoRow /\ IsSwept(row[s])}
  IN /\ swept # {}
     /\ row' = [s \in Sessions |-> IF s \in swept THEN NoRow ELSE row[s]]
     /\ lastUsed' = [s \in Sessions |-> IF s \in swept THEN 0 ELSE lastUsed[s]]
     /\ told' = [s \in Sessions |-> IF s \in swept THEN 0 ELSE told[s]]
     /\ missed' = missed \ swept /\ overtaken' = overtaken \ swept
     /\ overlapped' = overlapped \ swept /\ left' = left \ swept
     /\ UNCHANGED <<now, idp, users, signIn, request, handler>>

Tick ==
  /\ now < Horizon
  /\ now' = now + 1
  /\ ended' = [g \in IdPSessions |-> IF ended[g] > 0 THEN ended[g] - 1 ELSE ended[g]]
  /\ UNCHANGED <<provider, answered, tables, signIn, left, request, handler, history>>

-----------------------------------------------------------------------------
SignInSteps(s) ==
  \/ BeginLogin(s) \/ RedeemCode(s) \/ FailSignIn(s)
  \/ RecordSignIn(s) \/ MintSession(s) \/ CreateSession(s)

RequestSteps(q) ==
  \/ ReadSession(q) \/ JudgeSession(q) \/ TouchSession(q) \/ FailTouch(q)

NoticeSteps(h) ==
  \/ \E g \in IdPSessions :
       RevokeSessionsByIDPSessionID(h, g) \/ RevokeSessionsBySubject(h, g)
  \/ RevokeSessionsBySubjectWithoutIDPSession(h)
  \/ FailFallback(h)

Next ==
  \/ \E s \in Sessions : SignInSteps(s) \/ Logout(s)
  \/ \E q \in Requests : RequestSteps(q)
  \/ \E g \in IdPSessions : EndIdPSession(g)
  \/ \E h \in Handlers : NoticeSteps(h)
  \/ DeleteSessionsExpiredBefore
  \/ Tick

Spec == Init /\ [][Next]_vars

-----------------------------------------------------------------------------
(* Properties.                                                             *)

\* The idle bound follows the use of the session: never ahead of it, and less
\* than SessionTouchInterval behind, unless a touch is on its way, failed, or
\* was overtaken by an older one (TouchSession writes what its request read off
\* the clock, in whatever order the statements come).
IdleBoundTracksUse ==
  \A s \in Sessions : row[s] # NoRow /\ row[s].state = "standing" =>
    /\ row[s].lastSeen <= lastUsed[s]
    /\ \/ lastUsed[s] - row[s].lastSeen < TouchInterval
       \/ s \in missed \cup overtaken
       \/ \E q \in Requests :
            request[q] # Idle /\ request[q].stage = "touching" /\ CookieOf[q] = s

\* No request is admitted AbsoluteTTL or more after the sign-in, however busy
\* the session has been.
NobodyOutstaysTheWorkday ==
  \A s \in Sessions : row[s] # NoRow => lastUsed[s] < row[s].created + AbsoluteTTL

\* The end that /v1/me names is kept: until then the session ends only by being
\* revoked, or when an older touch overtook a newer one.
ToldEndIsKept ==
  \A s \in Sessions : row[s] # NoRow /\ row[s].state = "standing" =>
    told[s] <= ExpiresAt(row[s]) \/ s \in overtaken

\* A back-channel notice that was answered 200 ended every session signed in
\* through the provider's session, but for one whose sign-in held its ID token
\* while the notice ran and made its row afterwards.  Out of reach altogether
\* are sessions without a sid when the notice names nothing but one.
EndedMeansEnded ==
  \A s \in Sessions :
    /\ row[s] # NoRow
    /\ signIn[s].origin \in answered
    /\ provider.idToken \/ provider.logoutToken # "sid"
    => row[s].state = "revoked" \/ s \in overlapped

\* A session is revoked for a reason: its browser signed out, the provider
\* ended the session it came from, or (when one of the two tokens names no sid)
\* another one of the same subject.  A sid that no longer matches anything ends
\* nobody's other device.
LogoutIsNarrow ==
  \A s \in Sessions : row[s] # NoRow /\ row[s].state = "revoked" =>
    \/ s \in left
    \/ ended[signIn[s].origin] # Never
    \/ /\ row[s].sid = NoSid \/ provider.logoutToken = "sub"
       /\ \E g \in IdPSessions :
            ended[g] # Never /\ SubjectOf[g] = row[s].subject

\* The reaper takes a row only when nobody can be admitted on it any more: not
\* by the clock, nor by a request that read the row before.
ReaperTakesTheDead ==
  [][\A s \in Sessions : row[s] # NoRow /\ row'[s] = NoRow =>
       /\ ~IsLive(row[s], now)
       /\ \A q \in Requests :
            CookieOf[q] = s /\ request[q] # Idle /\ request[q].stage = "read" =>
              ~IsLive(request[q].seen, now)]_vars
=============================================================================
