CONSTANTS
  Registrations = {g1, g2}
  Refs = {main, tag}
  Commits = {c1}
  Valid = {c1}
  None = None
  TokenLife = 2
  ExpiryMargin = 1
  SyncTimeout = 1
  MaxAttempts = 2
  MaxFaults = 0
  MaxMoves = 0
SPECIFICATION Spec
INVARIANTS
  RefsCanShareACommit
