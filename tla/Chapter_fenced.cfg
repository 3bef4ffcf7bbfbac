SPECIFICATION FenceSpec
CONSTANTS
  Workers = {w1, w2}
  Decisions = {d1}
  Order <- ScriptOrder
  MaxClaims = 3
  MaxChanges = 2
SYMMETRY Symmetry
CONSTRAINT Bounded
CHECK_DEADLOCK FALSE
INVARIANT OneHolder
PROPERTY DoneStaysDone
