SPECIFICATION Spec
CONSTANTS
  f1 = f1
  f2 = f2
  o1 = o1
  o2 = o2
  o3 = o3
  NoOp = NoOp
  NoFlow = NoFlow
  Flows = {f1, f2}
  Page <- OwnPages
  Arming = {f1}
  Resetting = {f1}
  Ops = {o1, o2}
  L = 2
  MaxRun = 2
  MaxIssued = 1
  MaxChallenges = 2
  MaxWire = 1
SYMMETRY SameFlows
INVARIANTS
  PassedSlotsAreSpent
  OneSlotIsOpen
  UsesAreRecorded
  ResultsAreTrue
CHECK_DEADLOCK FALSE
