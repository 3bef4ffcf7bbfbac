SPECIFICATION FairSpec
CONSTANTS
  Works = {w1, w2}
  NoWork = NoWork
  Needs <- Independent
  Agents = {x1, x2}
  OperatorCommands = {"pause", "resume", "replan", "fail"}
  MaxAttempts = 2
  MaxRuns = 2
  MaxIncidents = 1
CHECK_DEADLOCK FALSE
INVARIANTS OneExecution AchievedIsComplete
PROPERTIES WorkEnds CompleteIsAchieved
