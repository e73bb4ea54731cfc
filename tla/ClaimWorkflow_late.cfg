CONSTANTS
  Pipelines <- RunnableOnly
  Rulings <- Changing
  Reviewers = {r1}
  MaxAttempts = 2
  MaxFailures = 2
  MaxLate = 1
  MaxRulings = 1
  EagerSignal = TRUE
SPECIFICATION Spec
INVARIANTS
  TypeOK EngineRespectsProjection LiveStatusNotAhead PersistedIsComplete CompletionAgrees
PROPERTY DecisionSettled
CHECK_DEADLOCK FALSE
