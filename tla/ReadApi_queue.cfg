CONSTANTS
  Claims = {c1}
  Events <- WholeLife
  NoKey = NoKey
  Callers = {"acme", "adjuster"}
  Customer <- SubmitterAndReviewer
  SubmittedBy <- AcmeSubmits
  MaxEvents = 7
SPECIFICATION Spec
INVARIANT QueueShowsPending
CHECK_DEADLOCK FALSE
