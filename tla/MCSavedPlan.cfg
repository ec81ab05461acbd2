CONSTANTS
  Runs = {r1, r2}
  Hosts = {h1, h2}
  Versions = {v1, v2}
  None = None
  SessionTTL = 1
  KeyTTL = 2
  MaxFaults = 1
SPECIFICATION Spec
SYMMETRY Symmetry
CHECK_DEADLOCK FALSE
INVARIANTS
  ReviewableRunsHaveTheirPlan
  SessionFindsWhatItNeeds
PROPERTIES
  AppliesWhatWasReviewed
