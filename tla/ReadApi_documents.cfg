CONSTANTS
  Claims = {c1}
  Events <- WholeLife
  NoKey = NoKey
  Callers = {"acme", "adjuster"}
  Customer <- SubmitterAndReviewer
  SubmittedBy <- AcmeSubmits
  MaxEvents = 7
SPECIFICATION Spec
INVARIANTS TypeOK DocumentShowsFinalEvidence
CHECK_DEADLOCK FALSE
