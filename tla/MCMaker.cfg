SPECIFICATION FairSpec
CONSTANTS
  IsMaker = TRUE
  MaxSessions = 2
  Keys = {}
  NoPair = NoPair
  Requests = {}
  Payloads <- MCFrames
  NoPayload = NoPayload
  Writers = {u1}
  Waiters = {w1}
  EventBufferSize = 1
  FrameBufferSize = 1
  ReconnectDisabled = TRUE
  Disturbances = {"cancel", "ping"}
  ReadErrors = {"transient", "authentication"}
  MaxCalls = 1
  MaxTicks = 1
  MaxInbox = 1
INVARIANTS
  OutcomeIsTruthful
  OneWriter
PROPERTIES
  CallsReturn
  StopCompletes
CHECK_DEADLOCK FALSE
