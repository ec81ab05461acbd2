CONSTANTS
  u = u
  Sessions = {s1, s2}
  IdPSessions = {g1, g2}
  SubjectOf <- OneSubject
  NoSid = NoSid
  s1 = s1
  Requests = {q1, q2}
  CookieOf <- OneBrowser
  Handlers = {h1}
  Providers <- ThreeProviders
  LoginMaxAge = 1
  LogoutMaxAge = 1
  IdleTTL = 3
  AbsoluteTTL = 4
  TouchInterval = 2
  MaxEnded = 1
  LastSignIn = 0
  Horizon = 5
SPECIFICATION Spec
SYMMETRY Symmetry
CHECK_DEADLOCK FALSE
INVARIANTS
  IdleBoundTracksUse
  NobodyOutstaysTheWorkday
  ToldEndIsKept
  EndedMeansEnded
  LogoutIsNarrow
PROPERTIES
  ReaperTakesTheDead
