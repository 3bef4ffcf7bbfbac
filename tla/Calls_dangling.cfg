CONSTANTS
  c1 = c1
  w1 = w1
  w2 = w2
  s1 = s1
  Calls = {c1}
  Workers = {w1, w2}
  Sweepers = {s1}
  Estimate <- MCEstimate
  Costs = {2}
  Cap = 4
  MaxReconciles = 1
  MaxAttempts = 2
  CanLookup = FALSE
SPECIFICATION Spec
INVARIANT NoDanglingHold
