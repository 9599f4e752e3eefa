SPECIFICATION FairSpec
CONSTANTS
  o1 = o1
  o2 = o2
  r1 = r1
  r2 = r2
  s1 = s1
  s2 = s2
  NoOp = NoOp
  Nobody = Nobody
  Ops = {o1, o2}
  Requests = {r1, r2}
  Resetters = {s1, s2}
  MaxRun = 2
  MaxArms = 2
INVARIANTS
  ErasedRunsAreFenced
  FaultIsOfActiveRun
  WaiterKeepsFault
  UnavailableHasCause
  FaultIsSpent
PROPERTIES
  RequestsAreAnswered
  ResetsSucceed
CHECK_DEADLOCK FALSE
