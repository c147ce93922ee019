\* The constants of the local guard; those of the others are in the module.
CONSTANTS
  p1 = p1
  p2 = p2
  c1 = c1
  c2 = c2
  Unused = Unused
  Process = {p1, p2}
  Client = {c1, c2, c3, c4}
  Call = {r1, r2}
  MaxConcurrency = 1
  GlobalRequests = 3
  ClientRequests = 1
  Window = 2
  LocalDaily = 4
  DailyWindow = 3
  DailyRequests = 3
  MaxTracked = 3
  MaxTime = 4
  MaxAdmitted = 5
  MaxDay = 1
SPECIFICATION MCSpec
SYMMETRY Symmetry
CHECK_DEADLOCK FALSE
INVARIANTS
  LocalLimitsHold
  DayBudgetHolds
  RateAtMostDoubles
  CallsTogetherAreLimited
