CONSTANTS
  NumItems = 3  NumWorkers = 2  Fds = {3, 4}  MaxAccepts = 3
  Repaired = {}
SPECIFICATION Spec
INVARIANT NeverNil
CHECK_DEADLOCK FALSE
