SPECIFICATION FairSpec
CONSTANTS
  t1 = t1
  c1 = c1
  c2 = c2
  Never = Never
  Traces = {t1}
  Logged = {"PRESENTATION_REJECTED", "OVER_LIMIT_REJECTED"}
  Threshold <- Thresholds
  Clients = {c1, c2}
  Window = 1
  Cooldown = 1
  Hour = 3
  MaxCalls = 2
  MaxTime = 3
  MaxEvents = 2
  MaxRun = 2
INVARIANTS
  OneCall
  WithinBudget
  CountersAreDisjoint
PROPERTIES
  CommentaryIsOfFacts
  AsksAreAnswered
CHECK_DEADLOCK FALSE
