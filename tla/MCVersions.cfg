SPECIFICATION FairSpec
CONSTANTS
  Procs = {p1, p2}
  Modes = {"load", "stream", "onchain", "nosend"}
  MaxMinor = 2
  MaxCount = 2
  MaxMajor = 1
  MaxRuns = 2
  MaxCrashes = 2
  MaxNonce = 2
INVARIANTS
  VersionUsedOnce
PROPERTIES
  NoncesDistinct
  LockReleased
CHECK_DEADLOCK FALSE
