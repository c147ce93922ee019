\* Row locks and READ COMMITTED: one job with three attempts, or two with one.
CONSTANTS
  Job = {1, 2}
  ContestedJob = 1
  Request = {r1, r2}
  Worker = {w1, w2}
  NoRequest = NoRequest
  NoWorker = NoWorker
  Api = Api
  MaxAttempts = 3
  MaxPending = 2
SPECIFICATION MCPgSpec
SYMMETRY PgSymmetry
INVARIANTS
  WaitsEnd
  OneVersionPerJob
PROPERTIES
  OverwritesAreBounded
  StaleWorkerChangesNothing
