SPECIFICATION FairSpec
CONSTANTS
  NULL = NULL
  Macs = {m1, m2, m3}
  Ips = {i1, i2}
  Links = {l1, l2}
  MaxSta = 2
  EvDepth = 2
INVARIANTS
  TypeOK
  OneLinkEach
PROPERTIES
  AbandonedOnlyIfLate
  ReturningStationStartsOver
