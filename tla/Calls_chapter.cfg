CONSTANTS
  c1 = c1
  c2 = c2
  w1 = w1
  w2 = w2
  s1 = s1
  Calls = {c1, c2}
  Workers = {w1, w2}
  Sweepers = {s1}
  Estimate <- MCEstimate
  Costs = {1, 3}
  Cap = 3
  MaxReconciles = 1
  MaxAttempts = 1
  CanLookup = TRUE
SPECIFICATION Spec
INVARIANTS CeilingHeld CommittedIsRecorded
