SPECIFICATION Spec
CONSTANTS
  e1 = e1
  e2 = e2
  w1 = w1
  w2 = w2
  Events = {e1}
  Conflicting = {}
  Workers = {w1, w2}
  BatchLimit = 2
  MaxAttempts = 5
  MaxCrashes = 0
INVARIANT
  CompletionDelivers
CHECK_DEADLOCK FALSE
