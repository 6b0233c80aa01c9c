\* Three threads, two queues, two items: two queue users and a pool user at once.
CONSTANTS
  NumItems = 2
  Queues   = {q1, q2}
  Threads  = {t1, t2, t3}
  NoThread = NoThread
  Pool     = Pool
SPECIFICATION FairSpec
INVARIANT IInv
PROPERTY ImplementsFifo SectionsEnd
CHECK_DEADLOCK TRUE
