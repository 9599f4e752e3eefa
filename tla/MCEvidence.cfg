SPECIFICATION Spec
CONSTANTS
  u1 = u1
  u2 = u2
  none = none
  p1 = p1
  a1 = a1
  Uses = {u1, u2}
  NoUse = none
  L = 2
  Readers = {p1}
  Auditors = {a1}
  MaxRun = 2
  MaxIssued = 1
  MaxRetries = 1
  MaxProbes = 1
  MaxErased = 5
SYMMETRY Symmetry
INVARIANTS
  PassIsTrue
PROPERTIES
  PassWasAudited
  FailHasCause
  CompleteRunPasses
CHECK_DEADLOCK FALSE
