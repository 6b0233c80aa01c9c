CONSTANTS
  NumWorkers = 2
  Garbage = Garbage  Unread = Unread
  StartRepaired = {"argc"}
  NumItems = 2  Fds = {3}  MaxAccepts = 3
  Repaired = {"thread_id"}
SPECIFICATION ServerSpec
INVARIANT ServerInv
CHECK_DEADLOCK FALSE
