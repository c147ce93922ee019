\* Liveness: two jobs that compete for one worker process, which may crash.
CONSTANTS
  Job = {1, 2}
  Request = {r1, r2}
  Worker = {w1}
  NoRequest = NoRequest
  NoWorker = NoWorker
  MaxAttempts = 2
  MaxPending = 2
SPECIFICATION FairSpec
PROPERTIES
  ImplementsLifecycle
