SPECIFICATION FairSpec
CONSTANTS
  NULL = NULL
  Sockets = {s1, s2}
  Draws = {0, 7}
  MaxChunks = 3
  Depth = 3
  MaxOrphans = 0
  Patient = TRUE
  Prompt = TRUE
  Drops = TRUE
  Evicts = TRUE
  Scripts = FALSE
INVARIANTS
  StatusTruthful
PROPERTIES
  ShowsThePort
  Registers
