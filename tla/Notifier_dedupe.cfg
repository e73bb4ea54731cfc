CONSTANTS
  Claims = {c1}
  Replicas = {n1}
  WorkflowEvents <- Persisting
  GroupIsNew = FALSE
  MaxAttempts = 1
  MaxEvents = 2
  MaxRepeats = 1
  MaxCrashes = 0
  MaxRebalances = 0
  MaxReplays = 0
SPECIFICATION FairSpec
PROPERTY ConsumersDedupe
CHECK_DEADLOCK FALSE
