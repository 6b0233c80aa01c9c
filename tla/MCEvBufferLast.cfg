SPECIFICATION Spec
CONSTANTS
  a = a
  b = b
  NoBuf = NoBuf
  Bufs = {a, b}
  Chains = {1, 2, 3, 4}
  Sizes = {2, 4}
  MaxAuto = 4
  ResizeShare = 2
  ReadVecs = 2
  Freezes <- MCFreezes
  Deferred = {b}
  K = 2
  MaxAdd = 2
  MaxLen = 3
  MaxCalls = 6
  Asks = {3}
  Repaired = {"evbuffer_invoke_callbacks_", "evbuffer_add_buffer_reference", "evbuffer_remove_buffer", "evbuffer_pullup", "evbuffer_commit_space"}
INVARIANT LastWithData
VIEW InOrder
CHECK_DEADLOCK FALSE
