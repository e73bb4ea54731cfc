CONSTANTS
  Claims = {c1}
  Replicas = {n1}
  WorkflowEvents <- Persisting
  GroupIsNew = TRUE
  MaxAttempts = 1
  MaxEvents = 2
  MaxRepeats = 0
  MaxCrashes = 0
  MaxRebalances = 0
  MaxReplays = 0
SPECIFICATION Spec
INVARIANT NoLostNotification
CHECK_DEADLOCK FALSE
