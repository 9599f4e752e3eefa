SPECIFICATION FairSpec
CONSTANTS
  e1 = e1
  e2 = e2
  w1 = w1
  w2 = w2
  Events = {e1, e2}
  Conflicting = {e2}
  Workers = {w1, w2}
  BatchLimit = 2
  MaxAttempts = 2
  MaxCrashes = 1
INVARIANTS
  AtMostOneEffect
  FailureIsVisible
  PendingIsRecoverable
  ResetLeavesNoEffect
PROPERTIES
  TerminalIsImmutable
  ImplementsEffectOnce
  EventuallySettled
CHECK_DEADLOCK FALSE
