CONSTANTS
  Pipelines <- Shipped
  Rulings <- Escalation
  Reviewers = {}
  MaxAttempts = 3
  MaxFailures = 1
  MaxLate = 0
  MaxRulings = 0
  EagerSignal = FALSE
SPECIFICATION Spec
INVARIANT RetriesAreSafe
CHECK_DEADLOCK FALSE
