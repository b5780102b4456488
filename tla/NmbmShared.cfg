CONSTANTS
  BlockCount = 10
  MgmtStart = 2
  SpareBlocks = 2
  ForceCreate = TRUE
  Budgets <- SharedBudgets
  MaxWrites = 30
SPECIFICATION Spec
CHECK_DEADLOCK FALSE
INVARIANT MapsUnusedSpare
