CONSTANTS
  Pipelines <- Reviewed
  Rulings <- AskOrDecide
  Reviewers = {r1}
  MaxAttempts = 3
  MaxFailures = 2
  MaxLate = 2
  MaxRulings = 0
  EagerSignal = FALSE
  TheClaim = c1
  Replicas = {n1}
  WebhookAttempts = 1
  GroupIsNew = FALSE
  MaxRepeats = 0
SPECIFICATION EndToEndSpec
INVARIANTS ToldDecisionStands
CHECK_DEADLOCK FALSE
