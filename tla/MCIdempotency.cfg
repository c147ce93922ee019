\* Retries, key reuse, takeovers, late releases.
CONSTANTS
  Caller = {c1, c2, c3, c4}
  Key = {k1, k2}
  Hash = {h1, h2}
  Nothing = Nothing
SPECIFICATION MCSpec
SYMMETRY Symmetry
CHECK_DEADLOCK FALSE
INVARIANTS
  PromptCallersAreAlone
PROPERTIES
  RepliesAgree
