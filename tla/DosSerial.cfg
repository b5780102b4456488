CONSTANTS
  AnyMatch = AnyMatch
  p1 = p1
  p2 = p2
  MaxRules = 40
  Procs <- TwoProcs
  Floods <- AllFloods
  Ops <- BothOps
  Serialised = TRUE
SPECIFICATION BoundedSpec
INVARIANTS TypeOK FloodDropGuarded WholeOrNothing
