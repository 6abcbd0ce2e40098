CONSTANTS
  Radix = 2
  PriceDecimals = 1
  MaxTick = 7
  MaxLevels = 2
  MaxLength = 4
  MaxNative = 255
  MaxUint32 = 31
  Pairs <- MCPairs
  Prices <- MCPrices
  Amounts <- MCAmounts
SPECIFICATION Spec
INVARIANTS
  SignedWhatWasAsked
  SignedBookIsSound
  ReadableIsSigned
CHECK_DEADLOCK FALSE
