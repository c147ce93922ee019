\* Concurrent transactions and dispatchers; no symmetry, for the sake of liveness.
CONSTANTS
  Event = {e1, e2}
  Writer = {w1, w2}
  Dispatcher = {d1, d2}
  Batch = 1
  NoEvent = NoEvent
  Nobody = Nobody
SPECIFICATION MCSpec
INVARIANTS
  ChainAndOutboxAgree
  PublishedWereAccepted
  PromptDelivererIsAlone
PROPERTIES
  LiveLocksAreRespected
  KeepsThePromise
