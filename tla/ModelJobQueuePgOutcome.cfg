\* The unlocked read of the exhausted jobs: a stored success turns to failed.
CONSTANTS
  Job = {1}
  Request = {r1}
  Worker = {w1, w2}
  NoRequest = NoRequest
  NoWorker = NoWorker
  Api = Api
  MaxAttempts = 1
  MaxPending = 1
SPECIFICATION PgSpec
INVARIANTS
  OutcomeMatchesPlans
