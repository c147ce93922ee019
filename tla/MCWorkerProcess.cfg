\* Calls longer than the lease, two chats, six rules.  By default a breaker opens
\* after more failures than a chat has attempts; here it may refuse the second.
CONSTANTS
  Worker = {v, w}
  Lease = 6
  BeatCap = 3
  LoopSleep = 1
  MaxCall = 8
  Staleness = 3
  DbFails = FALSE
  Nobody = Nobody
  Chat = {c1, c2}
  MaxRetries = 1
  Timeout = 2
  TotalTimeout = 3
  Delays = {0, 2}
  Threshold = 1
  Cooldown = 2
  MaxLag = 1
  MaxTime = 7
  Rule <- MCRule
  Order <- MCOrder
  SeverityOf <- MCSeverityOf
  Unused = Unused
SPECIFICATION MCSpec
CHECK_DEADLOCK FALSE
INVARIANTS
  LeaseIsKept
  NoFalseAlarms
  ChatsKeepTheirBudget
  LevelsCoverFindings
  FailuresHideNothing
PROPERTIES
  ChatsEnd
