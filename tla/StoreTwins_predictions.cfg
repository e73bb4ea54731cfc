CONSTANTS
  NoKey = NoKey
  EmptyKey = EmptyKey
  Claims = {c1}
  Keys = {}
  Writers = {w1}
  Events <- Predicting
  MaxId = 7
  BatchSize = 2
SPECIFICATION TwinSpec
INVARIANT PredictionsAgree
CHECK_DEADLOCK FALSE
