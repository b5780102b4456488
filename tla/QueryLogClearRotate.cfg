CONSTANTS
  f1 = f1
  f2 = f2
  Flushers <- TwoFlushers
  RotationIvl = 1
  RotationCheckIvl = 1
  MaxEntries = 4
  MaxNow = 1
  StampLag = 0
  Scenarios <- OnlyRunning
SPECIFICATION Spec
SYMMETRY Symmetric
INVARIANT ClearRemovesAll
CHECK_DEADLOCK FALSE
