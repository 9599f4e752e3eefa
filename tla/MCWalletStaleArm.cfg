SPECIFICATION Spec
CONSTANTS
  f1 = f1
  f2 = f2
  o1 = o1
  o2 = o2
  o3 = o3
  NoOp = NoOp
  NoFlow = NoFlow
  Flows = {f1, f2}
  Page <- OwnPages
  Arming = {f1, f2}
  Resetting = {}
  Ops = {o1, o2}
  L = 2
  MaxRun = 1
  MaxIssued = 1
  MaxChallenges = 1
  MaxWire = 2
SYMMETRY Symmetry
PROPERTIES
  CredentialMovesForward
CHECK_DEADLOCK FALSE
