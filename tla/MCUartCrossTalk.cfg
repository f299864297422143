SPECIFICATION Spec
CONSTANTS
  NULL = NULL
  Ports = {p1, p2}
  MaxBytes = 1
  MaxBurst = 1
  RingSize = 1
  EvDepth = 1
  Chunk = 1
  BufSize = 1
INVARIANTS
  NoCrossTalk
