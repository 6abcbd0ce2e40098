SPECIFICATION Spec
CONSTANTS
  IsMaker = FALSE
  MaxSessions = 2
  k1 = k1
  k2 = k2
  Keys = {k1, k2}
  NoPair = NoPair
  Requests <- MCQuietRequest
  Payloads <- MCQuietRequest
  NoPayload = NoPayload
  Writers = {u1}
  Waiters = {w1}
  EventBufferSize = 1
  FrameBufferSize = 1
  ReconnectDisabled = FALSE
  Disturbances = {"close", "cancel", "error", "ping"}
  ReadErrors = {"transient", "protocol"}
  MaxCalls = 1
  MaxTicks = 0
  MaxInbox = 1
INVARIANTS
  NoLeak
  NoSessionAfterFatal
PROPERTIES
  StopIsFinal
  DroppedWithCause
  ChangesAreReported
CHECK_DEADLOCK FALSE
