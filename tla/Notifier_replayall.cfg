CONSTANTS
  Claims = {c1, c2}
  Replicas = {n1}
  WorkflowEvents <- Persisting
  GroupIsNew = FALSE
  MaxAttempts = 1
  MaxEvents = 2
  MaxRepeats = 1
  MaxCrashes = 0
  MaxRebalances = 0
  MaxReplays = 1
SPECIFICATION FairSpec
PROPERTY ReplayAttemptsAll
CHECK_DEADLOCK FALSE
