CONSTANTS
  c1 = c1
  w1 = w1
  w2 = w2
  s1 = s1
  Calls = {c1}
  Workers = {w1, w2}
  Sweepers = {s1}
  Estimate <- MCEstimate
  Costs = {1, 3}
  Cap = 5
  MaxReconciles = 2
  MaxAttempts = 2
  CanLookup = TRUE
SPECIFICATION FairSpec
INVARIANTS OneOpenAttempt TicketsDistinct BilledWhenPriced
PROPERTIES ImplementsLedger ReservedIsResolved UnknownIsReconciled
