CONSTANTS
  desired = desired
  job = job
  Keys = {desired, job}
  Controllers = {c1, c2}
  Mode <- MCMode
  FollowUp <- ThenAJob
  Lease = 6
  BatchSize = 2
  Workers = 1
  BaseBackoff = 1
  MaxBackoff = 2
  Retention = 1
  Slow = {}
  MaxIntents = 3
  MaxAttempts = 3
  MaxFaults = 1
SPECIFICATION Spec
SYMMETRY ControllerSymmetry
INVARIANTS
  OneDeliveryPerKey
  NewestWins
PROPERTIES
  KeepsItsPromise
