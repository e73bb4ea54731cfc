CONSTANTS
  Pipelines <- Shipped
  Rulings <- Escalation
  Reviewers = {r1, r2}
  MaxAttempts = 3
  MaxFailures = 2
  MaxLate = 0
  MaxRulings = 1
  EagerSignal = FALSE
SPECIFICATION FairSpec
INVARIANTS InputsPresent FailuresMasked GateSeesDecision
PROPERTIES DecisionSettled WorkflowEnds
CHECK_DEADLOCK FALSE
