SPECIFICATION FairSpec
CONSTANTS
  Limit = 1
  MaxRun = 2
  MaxSeq = 3
  MaxRefresh = 1
  MaxFails = 1
INVARIANTS
  EventsAreOfShownRun
  InsightsAreOfShownRun
  OnlyOvertakenAreMissed
  RejectionIsMeasured
PROPERTY
  PageCatchesUp
CHECK_DEADLOCK FALSE
