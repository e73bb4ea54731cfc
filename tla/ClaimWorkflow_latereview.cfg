CONSTANTS
  Pipelines <- Reviewed
  Rulings <- Escalation
  Reviewers = {r1}
  MaxAttempts = 2
  MaxFailures = 1
  MaxLate = 1
  MaxRulings = 0
  EagerSignal = FALSE
SPECIFICATION Spec
INVARIANT VerdictSticks
CHECK_DEADLOCK FALSE
