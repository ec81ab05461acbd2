CONSTANTS
  Registrations = {g1, g2}
  Refs = {main, tag}
  Commits = {c1, c2, c3}
  Valid = {c1, c2}
  None = None
  TokenLife = 2
  ExpiryMargin = 1
  SyncTimeout = 1
  MaxAttempts = 2
  MaxFaults = 1
  MaxMoves = 2
SPECIFICATION Spec
SYMMETRY Symmetry
INVARIANTS
  CompletedHasItsRevision
  EndedSyncIsSettled
  FailsOnlyForAReason
  TokenOutlivesTheClone
PROPERTIES
  CompletionTellsTheLatest
