SPECIFICATION FairSpec
CONSTANTS
  e1 = e1
  e2 = e2
  t1 = t1
  Workers = {w1, w2}
  Events = {e1, e2}
  Timers = {t1}
  TimerEvent <- TimerFiredOf
  NoWorker = NoWorker
  MaxAttempts = 2
  Concurrency = 1
  MaxFaults = 2
CHECK_DEADLOCK FALSE
INVARIANTS AttemptsCapped FiredIffEvent
PROPERTIES FailureIsOwn ImplementsQueue EventEnds TimerFires
