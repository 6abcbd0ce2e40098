SPECIFICATION FairSpec
CONSTANTS
  PPM = 10
  MaxDecimals = 255
  Blocks <- MCBlocks
  MaxBlocks = 2
  Keys <- MCKeys
  SwapKeys <- MCSwapKeys
  Wires = {w1}
  NoUpdate = NoUpdate
  NoWire = NoWire
  MaxCache = 1
  FrameBuffer = 1
  EventBuffer = 1
  MaxGeneration = 2
  MaxRevision = 2
INVARIANTS SwapOutlivesRead SettingsOfOneBlock
PROPERTIES CachedIsShown ExitCompletes
CHECK_DEADLOCK FALSE
