CONSTANTS
  Requests = {r1, r2}
  Keys = {k1}
  NoKey = NoKey
  EmptyKey = EmptyKey
  CustomerOf <- OneCustomer
  Types = {t1}
  StageLists = {full, short}
  NotFound = NotFound
  MaxFaults = 0
  MaxChanges = 0
SYMMETRY Clients
SPECIFICATION Spec
INVARIANT DuplicatesAreAnswered
CHECK_DEADLOCK FALSE
