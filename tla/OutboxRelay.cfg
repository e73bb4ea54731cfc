CONSTANTS
  Claims = {c1, c2}
  Relays = {p1, p2}
  MaxId = 3
  BatchSize = 2
  MaxCrashes = 1
SPECIFICATION FairSpec
INVARIANTS TypeOK MarkedIsOnTopic
PROPERTIES ImplementsEventBus EventuallyOnTopic
CHECK_DEADLOCK FALSE
