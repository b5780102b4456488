CONSTANTS
  BlockCount = 10
  MgmtStart = 2
  SpareBlocks = 2
  ForceCreate = TRUE
  Budgets <- MCBudgets
  MaxWrites = 30
SPECIFICATION Spec
CHECK_DEADLOCK FALSE
INVARIANTS TypeOK TableSurvives DurableData UpdateSaves NoSharedBlocks WritesAvoidMapped
PROPERTIES TopNeverRises UpdateEnds
