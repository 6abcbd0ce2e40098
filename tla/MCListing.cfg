SPECIFICATION ListingSpec
CONSTANTS
  MaxChain = 2
  MaxPair = 2
  Arguments <- MCArguments
  Registries <- MCRegistries
  Faults <- MCFaults
  NoPair = NoPair
INVARIANTS
  ShownIsUsable
CHECK_DEADLOCK FALSE
