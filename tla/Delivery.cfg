SPECIFICATION Spec
CONSTANTS
  Passes = {p1, p2}
  Tasks = {t1}
  Budgets <- MCBudgets
  Slots = 2
INVARIANTS
  AchievedIsAccepted
PROPERTIES
  AchievedStays
  Settles
  ApprovalIsActedOn
CHECK_DEADLOCK FALSE
