CONSTANTS
  Pipelines <- Reviewed
  Rulings <- Escalation
  Reviewers = {r1}
  MaxAttempts = 1
  MaxFailures = 0
  MaxLate = 0
  MaxRulings = 0
  EagerSignal = FALSE
SPECIFICATION Spec
INVARIANT AckedVerdictRecorded
CHECK_DEADLOCK FALSE
