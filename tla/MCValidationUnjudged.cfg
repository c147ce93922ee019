\* Requests of up to three mentions, plans of up to two clauses.
CONSTANTS
  pump1 = pump1
  pump2 = pump2
  valve1 = valve1
  point = point
  safe = safe
  Device = {pump1, pump2, valve1}
  Item = {point, safe}
  FeedbackItem = point
  SafeItem = safe
  WaterSystem = TRUE
  KindOf <- MCKindOf
  Needs <- MCNeeds
  Mention <- MCMention
  Clause <- MCClause
  MaxMentions = 3
  MaxClauses = 2
  Unnumbered = Unnumbered
  NoKind = NoKind
SPECIFICATION ReadingSpec
CHECK_DEADLOCK FALSE
INVARIANT
  DevicesAreJudged
