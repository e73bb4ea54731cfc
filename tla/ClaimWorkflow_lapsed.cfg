CONSTANTS
  Pipelines <- Reviewed
  Rulings <- Changing
  Reviewers = {r1}
  MaxAttempts = 2
  MaxFailures = 1
  MaxLate = 1
  MaxRulings = 1
  EagerSignal = FALSE
SPECIFICATION Spec
INVARIANT LapsedReviewStaysPend
CHECK_DEADLOCK FALSE
