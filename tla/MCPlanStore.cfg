\* One plan, two decisions; those of the other instances are in the module.
CONSTANTS
  designer = designer
  reviewer = reviewer
  both = both
  Unused = Unused
  Legacy = {a, b, c}
  MaxLegacy = 2
  MaxSequence = 3
  User <- MCUser
  Roles <- MCRoles
  Skew <- OneClock
  Content = {c1}
  AuthEnabled = TRUE
  Nobody = Nobody
  MaxPlans = 1
  MaxReviews = 2
  MaxEvents = 5
SPECIFICATION MCSpec
SYMMETRY Symmetry
CHECK_DEADLOCK FALSE
INVARIANTS
  ExportsFollowApprovals
  FourEyes
  LineageIsReviewed
  ImportsAreWhole
  ImportedChainGoesOn
