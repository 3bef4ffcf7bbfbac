SPECIFICATION BudgetFairSpec
CONSTANTS
  AgentRuns = {x1, x2}
  Turns = {t1, t2}
  MaxEpochs = 2
  Amounts = {1, 2}
  Costs = {1, 2}
  Limit = 2
  MaxCrashes = 1
  MaxDirect = 1
  NoTurn = NoTurn
CHECK_DEADLOCK FALSE
INVARIANTS OneLiveHold AccountIsHolds HardBudget
PROPERTIES HoldEnds
