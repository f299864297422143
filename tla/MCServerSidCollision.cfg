SPECIFICATION Spec
CONSTANTS
  NULL = NULL
  f1 = f1
  f2 = f2
  q1 = q1
  q2 = q2
  Fds = {fd1, fd2}
  Sessions = {s1, s2}
  Calls = {c1, c2}
  Fids = {f1, f2}
  Sids = {1}
  Queues = {q1, q2}
  Routes <- MCTwoPeripherals
  HandlerFids = {}
  BroadcastFids = {}
  SilentFids = {}
  Args = {"good"}
  PeriphDepth = 2
  WorkerDepth = 2
  AllocFails = FALSE
  SendFails = FALSE
  UniqueSids = FALSE
SYMMETRY Symmetry
INVARIANTS
  ReplyOnlyToClient
