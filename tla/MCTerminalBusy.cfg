SPECIFICATION FairSpec
CONSTANTS
  NULL = NULL
  Sockets = {s1, s2}
  Draws = {0}
  MaxChunks = 1
  Depth = 3
  MaxOrphans = 0
  Patient = TRUE
  Prompt = TRUE
  Drops = FALSE
  Evicts = TRUE
  Scripts = FALSE
PROPERTIES
  Subscribes
