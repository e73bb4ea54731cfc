CONSTANTS
  Claims = {c1}
  Replicas = {n1, n2}
  WorkflowEvents <- Persisting
  GroupIsNew = FALSE
  MaxAttempts = 2
  MaxEvents = 3
  MaxRepeats = 1
  MaxCrashes = 0
  MaxRebalances = 1
  MaxReplays = 0
SPECIFICATION FairSpec
INVARIANT NoLostNotification
PROPERTY PersistedIsSettled
CHECK_DEADLOCK FALSE
