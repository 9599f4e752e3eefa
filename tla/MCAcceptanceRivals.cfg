SPECIFICATION Spec
CONSTANTS
  r1 = r1
  r2 = r2
  r3 = r3
  k1 = k1
  o1 = o1
  o2 = o2
  o3 = o3
  i1 = i1
  i2 = i2
  c1 = c1
  c2 = c2
  c3 = c3
  Requests = {r1, r2, r3}
  Credentials = {k1}
  Operations = {o1, o2, o3}
  Intents = {i1, i2}
  Challenges = {c1, c2, c3}
  AskedFor <- ThreeOperations
  Sendable <- RivalPresentations
  L = 2
  Ttl = 1
  PolicyEnd = 1
  ApiSkew = 0
  MaxRun = 2
  MaxTime = 0
SYMMETRY Symmetry
INVARIANTS
  QuotaBound
  ChallengesMatchUses
  WinnerIsAlwaysFound
  RetryNamesItsUse
PROPERTY
  ImplementsBoundedUse
CHECK_DEADLOCK FALSE
