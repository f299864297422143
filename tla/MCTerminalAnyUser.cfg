SPECIFICATION Spec
CONSTANTS
  NULL = NULL
  Sockets = {s1, s2}
  Draws = {0}
  MaxChunks = 1
  Depth = 2
  MaxOrphans = 1
  Patient = FALSE
  Prompt = FALSE
  Drops = TRUE
  Evicts = TRUE
  Scripts = TRUE
SYMMETRY Symmetry
INVARIANTS
  TypeOK
  CallsCarryUsableSid
  RetryPending
