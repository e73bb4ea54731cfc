CONSTANTS
  NoKey = NoKey
  EmptyKey = EmptyKey
  Claims = {c1, c2}
  Keys = {k1}
  Writers = {w1, w2}
  Events <- Lifecycle
  MaxId = 3
  BatchSize = 2
SPECIFICATION FairTwinSpec
INVARIANTS
  TypeOK OutboxFollowsHistory RowIsFold TwinsAgree
PROPERTIES ImplementsEventStore AppendEnds
CHECK_DEADLOCK FALSE
