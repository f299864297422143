SPECIFICATION FairSpec
CONSTANTS
  NULL = NULL
  Ports = {p1}
  MaxBytes = 5
  MaxBurst = 3
  RingSize = 4
  EvDepth = 2
  Chunk = 2
  BufSize = 3
INVARIANTS
  TypeOK
  InOrderOnce
  EventsCoverRing
  LockedOnlyInExchange
PROPERTIES
  ExchangeEnds
  RingDrains
