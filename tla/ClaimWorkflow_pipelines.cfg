CONSTANTS
  Pipelines <- Acceptable
  Rulings <- Escalation
  Reviewers = {}
  MaxAttempts = 1
  MaxFailures = 0
  MaxLate = 0
  MaxRulings = 0
  EagerSignal = FALSE
SPECIFICATION Spec
INVARIANT AcceptedPipelinesRun
CHECK_DEADLOCK FALSE
