CONSTANTS
  Claims = {c1}
  Replicas = {n1, n2}
  WorkflowEvents <- Outcomes
  GroupIsNew = TRUE
  MaxAttempts = 2
  MaxEvents = 3
  MaxRepeats = 1
  MaxCrashes = 1
  MaxRebalances = 1
  MaxReplays = 1
SYMMETRY SymmetricReplicas
SPECIFICATION Spec
INVARIANTS TypeOK NotifiedWasDelivered TellsFinalStatus
PROPERTY OutcomeStands
CHECK_DEADLOCK FALSE
