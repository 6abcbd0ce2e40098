SPECIFICATION ExecutionSpec
CONSTANTS
  Scale = 4
  PPM = 4
  Limit = 12
  Amounts <- MCAmounts
  Prices = {0, 1, 3, 4, 6, 7}
  Depths <- MCDepths
  MaxLevels = 2
  Settings <- MCSettings
INVARIANTS
  BudgetIsExact
  ResidualBuysNothing
  NeverBetterThanBest
  FreshIsUndecayed
  MinOutSurvivesDecay
CHECK_DEADLOCK FALSE
