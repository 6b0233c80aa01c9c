SPECIFICATION Spec
CONSTANTS
  io = io
  tick = tick
  defer = defer
  exit = exit
  th_notify = th_notify
  timeout_event = timeout_event
  None = None
  Users = {io, tick, defer, exit}
  Io = {io}
  Persist = {io}
  Deferred = {defer}
  Exits = {exit}
  CommonDurs = {1}
  Durs = {1, 2}
  ExitDurs = {0, 2}
  NumPri = 2
  MaxDeferreds = 0
  MaxTime = 3
  MaxCalls = 3
  Repaired = {"event_base_once"}
  Pri <- MCPri
INVARIANT AddedIsWatched
CHECK_DEADLOCK FALSE
