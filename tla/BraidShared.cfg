\* Two requests at a time, one grade; a budget of two calls.
CONSTANTS
  Proc = {p1, p2}
  NoRow = noRow
  DailyCallBudget = 2
  PressureTenths = 5
  SkipThreshold <- Skip
  WeightFloor <- Floor
  WeightCeiling <- Ceiling
  Started = {"case", "submission"}
  MaxDays = 1
  MaxRequests = 2
  MaxGrades = 1
  MaxAborts = 1
SPECIFICATION FairSpec
INVARIANTS CallsAreSerial WeightFollowsDecisions
PROPERTY RequestReturns
CHECK_DEADLOCK FALSE
