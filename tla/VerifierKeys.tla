---------------------------- MODULE VerifierKeys ----------------------------
(***************************************************************************)
(* The provider's signing keys as the API process knows them               *)
(* (OIDCVerifier): a key set read from the provider's JWKS, trusted for a  *)
(* bounded time, read anew when a token asks for a key it does not hold,   *)
(* at an address that the discovery document names.                        *)
(*                                                                         *)
(* The set is kept by a cache with workers of its own (jwx), which run on  *)
(* the context the cache was made with: the process's for the first, and   *)
(* that of the request that found the JWKS moved for a later one.          *)
(*                                                                         *)
(* Tokens are verified side by side.  Looking a key up and judging the     *)
(* signature with it is one step; a refresh runs under refreshMu and takes *)
(* several.  Only the provider takes time: the process itself is never     *)
(* stopped between two of its steps.  Timers count down, so time needs no  *)
(* bound.                                                                  *)
(***************************************************************************)
EXTENDS Integers, FiniteSets

CONSTANTS
  Keys,      \* signing keys; one that is never published is a forger's
  Kid,       \* the id a key goes by; two keys may share one
  Admits,    \* the keys whose tokens a key's alg and use let through
  Documents, \* the key sets a provider may publish
  Addresses, \* where it may publish them
  First,     \* the address the verifier was built from
  AtFirst,   \* what was published at each address then
  Tokens,    \* those that may be under verification at a time
  MinFresh, MaxFresh,  \* JWKSMin- and JWKSMaxRefreshInterval
  DiscoveryTTL, RefreshCooldown,
  Timeout,     \* of the HTTP client
  MaxChanges,  \* bound: how often the provider changes or fails
  MaxArrivals, \* bound: how many tokens arrive at the same time
  Process, Nobody  \* whose context the cache has, if not a token's request's

ASSUME KeysAssumption ==
  /\ First \in Addresses /\ Admits \in [Keys -> SUBSET Keys]
  /\ Documents \subseteq SUBSET Keys /\ AtFirst \in [Addresses -> Documents]
  /\ {MinFresh, MaxFresh, DiscoveryTTL, RefreshCooldown, Timeout} \subseteq Nat \ {0}
  /\ MinFresh <= MaxFresh
  /\ {MaxChanges, MaxArrivals} \subseteq Nat
  /\ Process # Nobody /\ {Process, Nobody} \cap Tokens = {}

VARIABLES
  published,  \* what the provider serves at each address
  address,    \* the one its discovery document names
  up,         \* whether it answers, in time, a caller that waits for it
  changes, arrivals,     \* counted for their bounds
  url, set,   \* keyCache: where the set was read, and the set as it is now
  owner,      \* whose context the cache's workers run on
  freshFor,   \* freshUntil: how long the set may still be trusted
  discoveryFor,  \* how long until the discovery document is due again
  cooldown,   \* how long until a refresh may be forced again
  refresh,    \* the one refresh that holds refreshMu
  token,      \* the key each is signed with, how far it has come, and
              \* whether its caller has disconnected
  gone,       \* history: for how long a key has been published nowhere
  quiet       \* history: for how long no refresh went to the provider

serving  == <<published, address, up, changes>>
keys     == <<url, set, owner, freshFor, discoveryFor>>
keyVars  == <<serving, arrivals, keys, cooldown, refresh, token, gone, quiet>>

NoToken == [stage |-> "idle"]
Free    == [stage |-> "free"]

Forgotten == MaxFresh + Timeout  \* as far as gone counts
Verdicts  == {"accepted", "invalid", "unavailable"}

KeysTypeOK ==
  /\ published \in [Addresses -> Documents]
  /\ address \in Addresses /\ up \in BOOLEAN
  /\ changes \in 0 .. MaxChanges /\ arrivals \in 0 .. MaxArrivals
  /\ url \in Addresses /\ set \subseteq Keys /\ owner \in Tokens \cup {Process, Nobody}
  /\ freshFor \in 0 .. MaxFresh
  /\ discoveryFor \in 0 .. DiscoveryTTL
  /\ cooldown \in 0 .. RefreshCooldown
  /\ refresh \in {Free} \cup
       [stage : {"discovering", "asking", "served", "landed"}, by : Tokens,
        to : Addresses, doc : SUBSET Keys, elapsed : 0 .. Timeout]
  /\ token \in [Tokens -> {NoToken} \cup
       [stage : {"waiting", "refreshing", "again"} \cup Verdicts,
        key : Keys, why : {"missing", "signature"},
        error : {"none", "cooldown", "failed"}, excused : BOOLEAN, left : BOOLEAN]]
  /\ gone \in [Keys -> 0 .. Forgotten]
  /\ quiet \in 0 .. RefreshCooldown

Served(docs, k) == \E a \in Addresses : k \in docs[a]

KeysInit ==
  /\ published = AtFirst
  /\ address = First /\ up = TRUE /\ changes = 0 /\ arrivals = 0
  /\ url = First /\ set = AtFirst[First] /\ owner = Process
  /\ freshFor \in MinFresh .. MaxFresh /\ discoveryFor = DiscoveryTTL /\ cooldown = 0
  /\ refresh = Free
  /\ token = [t \in Tokens |-> NoToken]
  /\ gone = [k \in Keys |-> IF Served(AtFirst, k) THEN 0 ELSE Forgotten]
  /\ quiet = RefreshCooldown

-----------------------------------------------------------------------------
(* Key sets.                                                               *)

\* findKey: a set that names an id twice is refused, whatever id is asked for.
Ambiguous(S) == \E k, l \in S : k # l /\ Kid[k] = Kid[l]

UnderId(S, key) == {k \in S : Kid[k] = Kid[key]}

\* cachedKeyFor: what the set holds under the token's id is of another use, or
\* for another algorithm.
Mismatched(S, key) == \E k \in UnderId(S, key) : key \notin Admits[k]

\* cachedKeyFor: the set, or its key of that id, is refused as the token's fault.
Refuses(S, key) == Ambiguous(S) \/ Mismatched(S, key)

\* What excuses calling a genuine token invalid: its key is not published, the
\* JWKS has moved and the verifier does not know, or the set in hand refuses it.
Unsettled(key, offered, moved, held) == key \notin offered \/ moved \/ Refuses(held, key)

\* Every token under verification remembers whether there was an excuse.
Excusing(tokens, offered, moved, held) ==
  [t \in Tokens |->
    IF tokens[t] = NoToken THEN NoToken
    ELSE [tokens[t] EXCEPT !.excused = @ \/ Unsettled(tokens[t].key, offered, moved, held)]]

-----------------------------------------------------------------------------
(* The provider.                                                           *)

\* It publishes another document where its keys are: with a new key, without an
\* old one, or with a key in another's place.
Publish(document) ==
  LET documents == [published EXCEPT ![address] = document]
  IN /\ changes < MaxChanges /\ changes' = changes + 1
     /\ documents # published /\ published' = documents
     /\ gone' = [k \in Keys |-> IF Served(documents, k) THEN 0 ELSE gone[k]]
     /\ token' = Excusing(token, document, url # address, set)
     /\ UNCHANGED <<address, up, arrivals, keys, cooldown, refresh, quiet>>

\* The discovery document names another jwks_uri.
Move(a) ==
  /\ changes < MaxChanges /\ changes' = changes + 1
  /\ a # address /\ address' = a
  /\ token' = Excusing(token, published[a], url # a, set)
  /\ UNCHANGED <<published, up, arrivals, keys, cooldown, refresh, gone, quiet>>

\* It stops answering, and resumes.
Fail ==
  /\ changes < MaxChanges /\ changes' = changes + 1
  /\ up /\ up' = FALSE
  /\ UNCHANGED <<published, address, arrivals, keys, cooldown, refresh, token,
                 gone, quiet>>

Recover ==
  /\ ~up /\ up' = TRUE
  /\ UNCHANGED <<published, address, changes, arrivals, keys, cooldown, refresh,
                 token, gone, quiet>>

-----------------------------------------------------------------------------
(* Verifying a token.                                                      *)

\* Mutant: a refresh that was refused by the cooldown counts as one made.
AfterRefresh_CooldownIsEnough(r, verdict) ==
  IF r.error = "failed" THEN "unavailable" ELSE verdict

\* What to say of a token that the keys in hand do not bear out: only a refresh
\* that was made can tell that it is invalid.
AfterRefresh(r, verdict) == IF r.error = "none" THEN verdict ELSE "unavailable"

Stage(t, stage) == [token EXCEPT ![t].stage = stage]

Wait(r, why) == [r EXCEPT !.stage = "waiting", !.why = why, !.error = "none"]

\* Verify and VerifyLogoutToken up to keyFor's first cachedKeyFor.  A set that
\* has expired is as good as none; one that refuses the key ends it at once.
Verify(t, key) ==
  LET r == [stage |-> "arrived", key |-> key, why |-> "missing", error |-> "none",
            excused |-> Unsettled(key, published[address], url # address, set),
            left |-> FALSE]
      found == UnderId(set, key)
  IN /\ token[t] = NoToken /\ arrivals < MaxArrivals
     /\ arrivals' = arrivals + 1
     /\ token' = [token EXCEPT ![t] =
          IF freshFor = 0 THEN Wait(r, "missing")
          ELSE IF Refuses(set, key) THEN [r EXCEPT !.stage = "invalid"]
          ELSE IF found = {} THEN Wait(r, "missing")
          ELSE IF key \in found THEN [r EXCEPT !.stage = "accepted"]
          ELSE Wait(r, "signature")]
     /\ UNCHANGED <<serving, keys, cooldown, refresh, gone, quiet>>

\* refreshedKeyFor's second look, and what the two callers make of it: keyFor
\* for a key that was missing, payloadAfterSignatureFailure for a key that did
\* not match.  A missing key that is found and does not match goes round again.
LookAgain(t) ==
  LET r == token[t]
      found == UnderId(set, r.key)
  IN /\ r.stage = "again"
     /\ token' = [token EXCEPT ![t] =
          IF freshFor = 0 THEN [r EXCEPT !.stage = "unavailable"]
          ELSE IF Refuses(set, r.key) THEN [r EXCEPT !.stage = "invalid"]
          ELSE IF found = {} THEN [r EXCEPT !.stage = AfterRefresh(r, "invalid")]
          ELSE IF r.why = "missing"
          THEN IF r.key \in found THEN [r EXCEPT !.stage = "accepted"]
               ELSE Wait(r, "signature")
          ELSE IF r.error = "failed" THEN [r EXCEPT !.stage = "unavailable"]
          ELSE IF r.key \in found THEN [r EXCEPT !.stage = "accepted"]
          ELSE [r EXCEPT !.stage = AfterRefresh(r, "invalid")]]
     /\ UNCHANGED <<serving, arrivals, keys, cooldown, refresh, gone, quiet>>

\* The context of t's request is done, and with it the workers that run on it.
WithoutRequest(t) == owner' = IF owner = t THEN Nobody ELSE owner

\* The request is over.
Leave(t) ==
  /\ token[t] # NoToken /\ token[t].stage \in Verdicts
  /\ token' = [token EXCEPT ![t] = NoToken]
  /\ WithoutRequest(t)
  /\ UNCHANGED <<serving, arrivals, url, set, freshFor, discoveryFor, cooldown,
                 refresh, gone, quiet>>

\* The caller is gone before it has its verdict.
Disconnect(t) ==
  /\ token[t] # NoToken /\ token[t].stage \notin Verdicts /\ ~token[t].left
  /\ token' = [token EXCEPT ![t].left = TRUE]
  /\ WithoutRequest(t)
  /\ UNCHANGED <<serving, arrivals, url, set, freshFor, discoveryFor, cooldown,
                 refresh, gone, quiet>>

-----------------------------------------------------------------------------
(* refreshKeys, under refreshMu.                                           *)

Waiting(t) == token[t] # NoToken /\ token[t].stage = "waiting" /\ refresh = Free

\* A refresh too soon after another's start is not made.
RefuseRefresh(t) ==
  /\ Waiting(t) /\ cooldown > 0
  /\ token' = [token EXCEPT ![t].stage = "again", ![t].error = "cooldown"]
  /\ UNCHANGED <<serving, arrivals, keys, cooldown, refresh, gone, quiet>>

\* refreshDiscoveryIfDue: a due document is fetched first, and its age counts
\* from before the fetch.
StartRefresh(t) ==
  LET due == discoveryFor = 0
  IN /\ refresh' = [stage |-> IF due THEN "discovering" ELSE "asking",
                    by |-> t, to |-> url, doc |-> {}, elapsed |-> 0]
     /\ discoveryFor' = IF due THEN DiscoveryTTL ELSE discoveryFor
     /\ token' = Stage(t, "refreshing")
     /\ UNCHANGED <<serving, arrivals, url, set, owner, freshFor, gone>>

\* Mutant: the cooldown starts when a refresh has succeeded.
BeginRefresh_CooldownLater(t) ==
  /\ Waiting(t) /\ cooldown = 0
  /\ quiet' = 0 /\ UNCHANGED cooldown
  /\ StartRefresh(t)

\* refreshedAt is set before anything is fetched.
BeginRefresh(t) ==
  /\ Waiting(t) /\ cooldown = 0
  /\ quiet' = 0 /\ cooldown' = RefreshCooldown
  /\ StartRefresh(t)

\* The cache is asked, and its workers are gone: nobody answers.
Hung ==
  /\ refresh.stage \in {"asking", "served", "landed"} /\ refresh.to = url
  /\ refresh.stage = "landed" => ~Ambiguous(refresh.doc)
  /\ owner = Nobody

EndRefresh(error, tokens) ==
  /\ refresh' = Free
  /\ token' = [tokens EXCEPT ![refresh.by].stage = "again",
                            ![refresh.by].error = error]

\* The verifications with an excuse once the set is the one that was read.
Excused(from) == Excusing(token, published[address], from # address, refresh.doc)

\* Mutant: the document is read and the cache stays where it was.
ReadDiscovery_StaysPut ==
  /\ refresh.stage = "discovering" /\ up
  /\ refresh' = [refresh EXCEPT !.stage = "asking", !.elapsed = 0]
  /\ UNCHANGED <<serving, arrivals, keys, cooldown, token, gone, quiet>>

\* fetchDiscovery: the document names the address the set is from, or another,
\* of which a cache is then made.
ReadDiscovery ==
  /\ refresh.stage = "discovering" /\ up
  /\ refresh' = [refresh EXCEPT !.stage = "asking", !.to = address, !.elapsed = 0]
  /\ UNCHANGED <<serving, arrivals, keys, cooldown, token, gone, quiet>>

\* The provider answers with its JWKS; the answer is on its way.
ServeKeys ==
  /\ refresh.stage = "asking" /\ up /\ ~Hung
  /\ refresh' = [refresh EXCEPT !.stage = "served", !.doc = published[refresh.to]]
  /\ UNCHANGED <<serving, arrivals, keys, cooldown, token, gone, quiet>>

\* Mutant: a set may be trusted for as long as it says.
Lifetimes_Unclamped == MinFresh .. MaxFresh + Timeout

\* pinJWKS clamps whatever lifetime the answer gave.
Lifetimes == MinFresh .. MaxFresh

\* newKeyCache and swapKeys.  Shutting down the cache that was replaced may
\* fail, which leaves the discovery due.
SwapKeys ==
  /\ refresh.stage = "served" /\ refresh.to # url /\ ~Ambiguous(refresh.doc)
  /\ url' = refresh.to /\ set' = refresh.doc /\ freshFor' \in Lifetimes
  /\ owner' = IF token[refresh.by].left THEN Nobody ELSE refresh.by
  /\ \/ /\ UNCHANGED discoveryFor
        /\ refresh' = [refresh EXCEPT !.stage = "asking", !.doc = {}, !.elapsed = 0]
        /\ token' = Excused(refresh.to)
     \/ discoveryFor' = 0 /\ EndRefresh("failed", Excused(refresh.to))
  /\ UNCHANGED <<serving, arrivals, cooldown, gone, quiet>>

\* cache.Refresh: the set is a view of the cache, so it is the new one before
\* it is vetted.
LandKeys ==
  /\ refresh.stage = "served" /\ refresh.to = url /\ ~Hung
  /\ set' = refresh.doc
  /\ refresh' = [refresh EXCEPT !.stage = "landed"]
  /\ token' = Excused(url)
  /\ UNCHANGED <<serving, arrivals, url, owner, freshFor, discoveryFor, cooldown,
                 gone, quiet>>

PinKeys ==
  /\ refresh.stage = "landed" /\ ~Hung
  /\ IF Ambiguous(refresh.doc)
     THEN UNCHANGED freshFor /\ EndRefresh("failed", token)
     ELSE freshFor' \in Lifetimes /\ EndRefresh("none", token)
  /\ UNCHANGED <<serving, arrivals, url, set, owner, discoveryFor, cooldown, gone,
                 quiet>>

\* No answer in time; a set for a new cache that is refused; and a refresh on
\* the context of a caller that has gone.
Unanswered == refresh.stage \in {"discovering", "asking", "served"} /\ ~up /\ ~Hung
Refused    == refresh.stage = "served" /\ refresh.to # url /\ Ambiguous(refresh.doc)
Abandoned  == refresh # Free /\ token[refresh.by].left

FailRefresh ==
  /\ Unanswered \/ Refused \/ Abandoned
  /\ EndRefresh("failed", token)
  /\ discoveryFor' = IF refresh.stage = "discovering" \/ refresh.to # url
                     THEN 0 ELSE discoveryFor
  /\ UNCHANGED <<serving, arrivals, url, set, owner, freshFor, cooldown, gone, quiet>>

\* Workers that end may yet tell the refresh that is under way, or may not.
DropRefresh ==
  /\ Hung /\ EndRefresh("failed", token)
  /\ UNCHANGED <<serving, arrivals, keys, cooldown, gone, quiet>>

RefreshSteps ==
  ReadDiscovery \/ ServeKeys \/ SwapKeys \/ LandKeys \/ PinKeys \/ FailRefresh

-----------------------------------------------------------------------------
(* Time.                                                                   *)

Less(timer)     == IF timer > 0 THEN timer - 1 ELSE 0
More(time, end) == IF time < end THEN time + 1 ELSE end

\* Nobody is between two steps of its own, and verdicts have been given.  A
\* request that the cache runs on may go on after its verdict.
Settled ==
  /\ refresh.stage # "landed" \/ Hung
  /\ \A t \in Tokens :
       \/ token[t].stage \in {"idle", "refreshing"}
       \/ token[t].stage \in Verdicts /\ t = owner
       \/ token[t].stage = "waiting" /\ refresh # Free

KeysTick ==
  /\ Settled
  /\ refresh # Free /\ ~Hung => refresh.elapsed < Timeout
  /\ refresh' = IF refresh = Free \/ Hung THEN refresh
                ELSE [refresh EXCEPT !.elapsed = @ + 1]
  /\ freshFor' = Less(freshFor) /\ discoveryFor' = Less(discoveryFor)
  /\ cooldown' = Less(cooldown) /\ arrivals' = 0
  /\ gone' = [k \in Keys |-> IF Served(published, k) THEN 0 ELSE More(gone[k], Forgotten)]
  /\ quiet' = More(quiet, RefreshCooldown)
  /\ UNCHANGED <<serving, url, set, owner, token>>

TokenSteps(t) ==
  LookAgain(t) \/ RefuseRefresh(t) \/ BeginRefresh(t) \/ Leave(t) \/ Disconnect(t)

KeysNext ==
  \/ \E document \in Documents : Publish(document)
  \/ \E a \in Addresses : Move(a)
  \/ Fail
  \/ Recover
  \/ \E t \in Tokens :
       TokenSteps(t) \/ \E key \in Keys : Verify(t, key)
  \/ RefreshSteps
  \/ DropRefresh
  \/ KeysTick

\* Verifications and the refresh run on, a mutex lets everybody in, requests end,
\* time passes.  Nobody has to disconnect.
KeysSpec ==
  /\ KeysInit /\ [][KeysNext]_keyVars
  /\ WF_keyVars(KeysTick) /\ WF_keyVars(RefreshSteps)
  /\ \A t \in Tokens :
       /\ WF_keyVars(LookAgain(t) \/ Leave(t))
       /\ SF_keyVars(RefuseRefresh(t) \/ BeginRefresh(t))

-----------------------------------------------------------------------------
(* Properties.                                                             *)

\* A token signed with a key the provider publishes is not called invalid: in
\* doubt it is ErrVerifierUnavailable.  The excuses are a key withdrawn
\* meanwhile, a JWKS that moved before the discovery document was due again, a
\* set that names an id twice, and one that has, under the token's id, a key of
\* another use or algorithm.
GenuineIsNotCalledInvalid ==
  \A t \in Tokens :
    token[t].stage = "invalid" => token[t].excused

\* A key that is published nowhere any more is accepted for no longer than a set
\* may be trusted and an answer may be under way.
WithdrawnKeysAreForgotten ==
  [][\A t \in Tokens :
       token'[t].stage = "accepted" /\ token[t].stage # "accepted" =>
         gone[token'[t].key] < MaxFresh + Timeout]_keyVars

\* However many tokens name unknown keys, and whether or not the provider
\* answers, it is asked at most once in a RefreshCooldown.
ProviderIsNotHammered ==
  [][refresh = Free /\ refresh' # Free => quiet = RefreshCooldown]_keyVars

Steady(k) ==
  /\ up /\ k \in published[address] /\ ~Ambiguous(published[address])
  /\ k \in Admits[k]

\* The cache is the one made at startup, and no caller has disconnected.
Undisturbed == owner = Process /\ \A t \in Tokens : token[t] # NoToken => ~token[t].left

\* Once the provider is up and keeps publishing a key (it stops moving by itself,
\* after MaxChanges), the tokens signed with it are in the end always accepted: no
\* rotation, in place or not, outage or ambiguous set does lasting harm to the
\* cache made at startup, as long as callers stay for their verdicts.
SteadyKeysAreAccepted ==
  \A k \in Keys :
    <>[](Steady(k) /\ Undisturbed) =>
      <>[](\A t \in Tokens :
             token[t].stage \in Verdicts /\ token[t].key = k =>
               token[t].stage = "accepted")
=============================================================================
