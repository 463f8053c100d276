\* Five clients at a table of four: churn, idle entries, unclaimed allowances.
CONSTANTS
  c1 = c1
  c2 = c2
  c3 = c3
  c4 = c4
  c5 = c5
  Clients = {c1, c2, c3, c4, c5}
  MaxTokens <- MCMaxTokens
  RefillRate = 2
  MaxMapSize = 4
  MaxIdle = 1
  MaxTime = 3
SPECIFICATION Spec
SYMMETRY MCSymmetry
INVARIANTS
  SizeBounded
  RateHolds
PROPERTIES
  AllowanceKept
  OldestGoesFirst
CHECK_DEADLOCK FALSE
