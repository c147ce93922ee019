\* Safety: two jobs, two workers, two attempts each.
CONSTANTS
  Job = {1, 2}
  Request = {r1, r2}
  Worker = {w1, w2}
  NoRequest = NoRequest
  NoWorker = NoWorker
  MaxAttempts = 2
  MaxPending = 2
SPECIFICATION MCSpec
SYMMETRY Symmetry
INVARIANTS
  IndInv
  OutcomeMatchesPlans
  AuditTrailIsTrue
  AdmissionHolds
PROPERTIES
  StaleHeartbeatRenewsNothing
  ImplementsLifecycleSafety
