\* Three requests and jobs: a lost one, its retry and a new one.
CONSTANTS
  Plan = {plan1, plan2}
  MaxRequests = 2
  Unused = Unused
  Payload = {p1, p2}
  Request = {r1, r2, r3}
  Job = {j1, j2, j3}
  Refusals = {"401"}
  WaitLimit = 1
  MaxReloads = 1
  Nothing = Nothing
SPECIFICATION MCSpec
SYMMETRY Symmetry
CHECK_DEADLOCK FALSE
INVARIANTS
  HandedOutMeansApproved
PROPERTIES
  NothingIsPaidTwice
  ResubmittingIsFresh
  ServerKeepsItsWord
