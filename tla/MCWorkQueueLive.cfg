CONSTANTS
  desired = desired
  job = job
  Keys = {desired}
  Controllers = {c1, c2}
  Mode <- ReconcileOnly
  FollowUp <- NoFollowUp
  Lease = 2
  BatchSize = 1
  Workers = 1
  BaseBackoff = 1
  MaxBackoff = 1
  Retention = 0
  Slow = {"waiting", "delivered", "superseded", "failed"}
  MaxIntents = 2
  MaxAttempts = 1
  MaxFaults = 1
SPECIFICATION FairSpec
PROPERTIES
  EveryRowIsProcessed
