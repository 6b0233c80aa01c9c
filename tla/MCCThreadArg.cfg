CONSTANTS
  NumThreads = 3
  Garbage = Garbage  Unread = Unread
  Repaired = {}
SPECIFICATION Spec
INVARIANTS PmsThread
CHECK_DEADLOCK FALSE
