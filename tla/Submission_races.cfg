CONSTANTS
  Requests = {r1, r2, r3}
  Keys = {k1, EmptyKey}
  NoKey = NoKey
  EmptyKey = EmptyKey
  CustomerOf <- OneCustomer
  Types = {t1}
  StageLists = {full, short}
  NotFound = NotFound
  MaxFaults = 2
  MaxChanges = 2
SYMMETRY Clients
SPECIFICATION Spec
INVARIANTS TypeOK SameKeySameClaim FreshAckShowsPinned WorkflowHasClaim
CHECK_DEADLOCK FALSE
