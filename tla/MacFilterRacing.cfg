CONSTANTS
  AnyMatch = AnyMatch
  m1 = m1
  m2 = m2
  p1 = p1
  p2 = p2
  MaxCalls = 5
  Procs <- TwoProcs
  Macs <- TwoMacs
  ValidMacs <- TwoMacs
  Ops <- EditOps
  Serialised = FALSE
SPECIFICATION RacingSpec
SYMMETRY Symmetric
INVARIANTS ListedMacsCovered
