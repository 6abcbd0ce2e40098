SPECIFICATION BackoffSpec
CONSTANTS
  MaxDuration = 15
  Durations <- MCDurations
  DefaultInitial = 2
  DefaultMax = 12
  DefaultReset = 14
  MaxRounds = 6
INVARIANTS
  BackoffBounded
CHECK_DEADLOCK FALSE
