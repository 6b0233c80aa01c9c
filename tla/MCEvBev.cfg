CONSTANTS
  Bevs = {b1, b2}  None = None
  Programs <- McPrograms
  MaxLen = 2  Rate = 1  Burst <- McBurst  GroupBurst = 2  Marks <- McMarks
  Repaired = {"bufferevent_decref_and_unlock_", "bufferevent_socket_connect", "be_socket_setfd"}
SPECIFICATION FairSpec
INVARIANTS Inv Released ConnectedFirst
PROPERTIES MovesWithinLimits Resumes
CHECK_DEADLOCK FALSE
