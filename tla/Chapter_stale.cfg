SPECIFICATION Spec
CONSTANTS
  Workers = {w1, w2}
  Decisions = {d1}
  Order <- ScriptOrder
  MaxClaims = 2
  MaxChanges = 2
CHECK_DEADLOCK FALSE
PROPERTIES
  StaleResultDiscarded
