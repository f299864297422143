SPECIFICATION Spec
CONSTANTS
  NULL = NULL
  f1 = f1
  f2 = f2
  q1 = q1
  q2 = q2
  Fds = {fd1, fd2}
  Sessions = {s1, s2}
  Calls = {c1, c2}
  Fids = {f1}
  Sids = {65537}
  Queues = {q1}
  Routes <- MCRoutes
  HandlerFids = {f1}
  BroadcastFids = {}
  SilentFids = {}
  Args = {"good"}
  PeriphDepth = 1
  WorkerDepth = 1
  AllocFails = TRUE
  SendFails = TRUE
  UniqueSids = FALSE
SYMMETRY Symmetry
INVARIANTS
  TypeOK
  NoDanglingSession
  NoStaleHandler
  CursorOnList
