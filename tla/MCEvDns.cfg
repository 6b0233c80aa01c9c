SPECIFICATION Spec
CONSTANTS
  u1 = u1
  u2 = u2
  s1 = s1
  s2 = s2
  NoServer = NoServer
  Users = {u1, u2}
  Servers = {s1, s2}
  NIds = 4
  Starts = {0}
  Names <- MCNames
  MaxInflight = 1
  PerHead = 1
  MaxReissues = 1
  MaxTimeouts = 1
  MaxNet = 1
  MaxTroubles = 1
  Uses <- BothUses
  Repaired = {"nameserver_send_probe", "search_try_next", "evdns_base_clear_nameservers_and_suspend", "evdns_base_free", "evdns_request_timeout_callback", "evdns_request_transmit", "reply_parse"}
INVARIANTS Inv ToldOnce MovesOn
PROPERTY ServersJudged
CHECK_DEADLOCK FALSE
