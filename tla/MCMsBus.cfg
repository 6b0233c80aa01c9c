CONSTANTS
  NumItems = 2  NumWorkers = 2  Fds = {3, 4}  MaxAccepts = 4
  Repaired = {"thread_id", "notify_arg"}
SPECIFICATION FairSpec
INVARIANTS Inv NotifyMatches
PROPERTY Taken
CHECK_DEADLOCK FALSE
