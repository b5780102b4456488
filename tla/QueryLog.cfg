CONSTANTS
  f1 = f1
  f2 = f2
  Flushers <- TwoFlushers
  RotationIvl = 1
  RotationCheckIvl = 1
  MaxEntries = 3
  MaxNow = 1
  StampLag = 1
  Scenarios <- MCScenarios
SPECIFICATION FairSpec
INVARIANTS TypeOK EntriesInOrder NothingVanishes SearchMissesOnlyRenamed FlushOnItsWay
PROPERTY FlushHappens
CHECK_DEADLOCK FALSE
