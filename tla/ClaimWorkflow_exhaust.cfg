CONSTANTS
  Pipelines <- Shipped
  Rulings <- Escalation
  Reviewers = {}
  MaxAttempts = 2
  MaxFailures = 2
  MaxLate = 0
  MaxRulings = 0
  EagerSignal = FALSE
SPECIFICATION Spec
INVARIANT ExhaustionFailsClaim
CHECK_DEADLOCK FALSE
