CONSTANTS
  None = None
  Unwired = Unwired
  Types = {"generic-document", "auto-fnol", "structured-claim", "unregistered"}
  Amounts = {24999, 25000, 100000, 100001}
  Scores = {59, 85}
  Threshold = 85
  HighValue = 25000
  MaxAttempts = 2
  MaxLate = 1
  MaxChanges = 1
SPECIFICATION Spec
INVARIANTS TypeOK HighValueNeedsHuman ApprovalHasConfidentRun ApprovalOnActivePolicy RaisingAmountNeverHelps
CHECK_DEADLOCK FALSE
