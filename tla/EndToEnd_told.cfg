CONSTANTS
  Pipelines <- ReviewOrArchive
  Rulings <- AskOrDecide
  Reviewers = {r1}
  MaxAttempts = 3
  MaxFailures = 1
  MaxLate = 1
  MaxRulings = 1
  EagerSignal = FALSE
  TheClaim = c1
  Replicas = {n1}
  WebhookAttempts = 1
  GroupIsNew = FALSE
  MaxRepeats = 0
SPECIFICATION FairEndToEnd
INVARIANTS ToldDecisionStands
PROPERTY ClaimIsAnswered
CHECK_DEADLOCK FALSE
