----------------------------- MODULE MCSessions -----------------------------
(* Small instances of Sessions for TLC. *)
EXTENDS Sessions, TLC

CONSTANTS u, s1

OneSubject == [g \in IdPSessions |-> u]

OneBrowser == [q \in Requests |-> s1]

\* Both tokens name the sid; only the logout token does; only the ID token does.
ThreeProviders == {[idToken |-> TRUE,  logoutToken |-> "both"],
                   [idToken |-> FALSE, logoutToken |-> "both"],
                   [idToken |-> TRUE,  logoutToken |-> "sub"]}

Symmetry == Permutations(Requests) \cup Permutations(IdPSessions)
=============================================================================
