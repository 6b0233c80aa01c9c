SPECIFICATION Spec
CONSTANTS
  u1 = u1
  u2 = u2
  s1 = s1
  s2 = s2
  NoServer = NoServer
  Users = {u1, u2}
  Servers = {s1, s2}
  NIds = 4
  Starts = {0}
  Names <- MCNames
  MaxInflight = 1
  PerHead = 1
  MaxReissues = 1
  MaxTimeouts = 1
  MaxNet = 1
  MaxTroubles = 1
  Uses <- PatientOnly
  Repaired = {}
PROPERTY BackWhenHeard
CHECK_DEADLOCK FALSE
