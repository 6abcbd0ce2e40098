SPECIFICATION Spec
CONSTANTS
  IsMaker = FALSE
  MaxSessions = 2
  k1 = k1
  k2 = k2
  Keys = {k1, k2}
  NoPair = NoPair
  Requests <- MCRequests
  Payloads <- MCRequests
  NoPayload = NoPayload
  Writers = {u1, u2}
  Waiters = {}
  EventBufferSize = 1
  FrameBufferSize = 1
  ReconnectDisabled = FALSE
  Disturbances = {}
  ReadErrors = {"transient"}
  MaxCalls = 1
  MaxTicks = 1
  MaxInbox = 2
INVARIANTS
  TypeOK
  PendingIsInFlight
  AckAnswersRequest
  FramesAnswerRequest
  HonestServerNotAccused
  NotSilentlyUnsubscribed
PROPERTIES
  RefinesFeed
CHECK_DEADLOCK FALSE
