CONSTANTS
  AnyMatch = AnyMatch
  m1 = m1
  m2 = m2
  p1 = p1
  p2 = p2
  Procs <- TwoProcs
  Macs <- TwoMacs
  Extra <- AcceptAll
  MaxLen = 2
SPECIFICATION Spec
SYMMETRY Symmetric
INVARIANTS TypeOK LastUpdateDecides StaleRulesBounded PendingLinesStable DeletesExactlyThose
