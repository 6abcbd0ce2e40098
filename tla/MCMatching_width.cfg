SPECIFICATION Spec
CONSTANTS
  Scale = 4
  PPM = 4
  Limit = 3
  Amounts <- MCAmounts
  Prices = {0, 1, 2, 3}
  Depths <- MCDepths
  MaxLevels = 2
INVARIANTS
  ResultIsUint256
CHECK_DEADLOCK FALSE
