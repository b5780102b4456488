CONSTANTS
  AnyMatch = AnyMatch
  m1 = m1
  m2 = m2
  bad = bad
  p1 = p1
  p2 = p2
  Procs <- TwoProcs
  Macs <- MixedMacs
  ValidMacs <- GoodMacs
  Ops <- AllOps
  Serialised = TRUE
SPECIFICATION PoweredSpec
INVARIANT EnabledMeansHooked
