SPECIFICATION FairSpec
CONSTANTS
  IsMaker = FALSE
  MaxSessions = 2
  k1 = k1
  k2 = k2
  Keys = {k1, k2}
  NoPair = NoPair
  Requests <- MCOneRequest
  Payloads <- MCOneRequest
  NoPayload = NoPayload
  Writers = {u1}
  Waiters = {}
  EventBufferSize = 1
  FrameBufferSize = 1
  ReconnectDisabled = FALSE
  Disturbances = {"cancel", "fault"}
  ReadErrors = {"transient"}
  MaxCalls = 1
  MaxTicks = 0
  MaxInbox = 1
INVARIANTS
  FramesAreCurrent
PROPERTIES
  StopCompletes
  SubscribeReturns
CHECK_DEADLOCK FALSE
