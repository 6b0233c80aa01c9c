SPECIFICATION Spec
CONSTANTS
  a = a
  b = b
  NoReq = NoReq
  Requests = {a, b}
  Jobs <- MCJobs
  NConns = 2
  MaxTroubles = 2
  Repaired = {"evhttp_connection_reset_", "evhttp_connection_done", "evhttp_connection_connect_", "evhttp_connection_cb_cleanup", "evhttp_connection_retry", "evhttp_send_reply_start", "evhttp_connection_fail_", "evhttp_read_cb"}

INVARIANTS Inv Answers
PROPERTY Answered
CHECK_DEADLOCK FALSE
