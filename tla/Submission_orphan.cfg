CONSTANTS
  Requests = {r1, r2}
  Keys = {k1}
  NoKey = NoKey
  EmptyKey = EmptyKey
  CustomerOf <- OneCustomer
  Types = {t1}
  StageLists = {full, short}
  NotFound = NotFound
  MaxFaults = 1
  MaxChanges = 0
SYMMETRY Clients
SPECIFICATION Spec
INVARIANT AckedClaimRuns
CHECK_DEADLOCK FALSE
