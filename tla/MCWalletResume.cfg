SPECIFICATION Spec
CONSTANTS
  f1 = f1
  f2 = f2
  o1 = o1
  o2 = o2
  o3 = o3
  NoOp = NoOp
  NoFlow = NoFlow
  Flows = {f1, f2}
  Page <- OnePage
  Arming = {}
  Resetting = {}
  Ops = {o1, o2}
  L = 2
  MaxRun = 1
  MaxIssued = 1
  MaxChallenges = 2
  MaxWire = 1
SYMMETRY Symmetry
INVARIANTS
  UnresolvedBlocksNewUse
CHECK_DEADLOCK FALSE
