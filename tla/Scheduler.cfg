SPECIFICATION SchedulerFairSpec
CONSTANTS
  e1 = e1
  e2 = e2
  e3 = e3
  cpu = cpu
  calls = calls
  Entries = {e1, e2, e3}
  Resources = {cpu, calls}
  Request <- AskedFor
  Outranks <- Ranks
  Limits = {1, 2}
CHECK_DEADLOCK FALSE
INVARIANTS HeldIsReserved HoldsTwiceOnlyResumed
PROPERTIES HoldsAllOrNone FittingIsScheduled
