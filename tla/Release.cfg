SPECIFICATION FairSpec
CONSTANTS
  o1 = o1
  o2 = o2
  p1 = p1
  p2 = p2
  Permits = {p1, p2}
  Agents = {x1, x2}
  Operations = {o1, o2}
  BaseOperation = o1
  BasePermit = p1
  NoPermit = NoPermit
  NoOperation = NoOperation
  MaxCrashes = 1
CHECK_DEADLOCK FALSE
INVARIANTS EffectUnderDispatch SuccessIsReal
PROPERTIES OnlySweepReopens OperationEnds
