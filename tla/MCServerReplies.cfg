SPECIFICATION Spec
CONSTANTS
  NULL = NULL
  f1 = f1
  f2 = f2
  q1 = q1
  q2 = q2
  Fds = {fd1, fd2}
  Sessions = {s1, s2}
  Calls = {c1, c2}
  Fids = {f1, f2}
  Sids = {1, 2}
  Queues = {q1}
  Routes <- MCRoutes
  HandlerFids = {}
  BroadcastFids = {f2}
  SilentFids = {}
  Args = {"good"}
  PeriphDepth = 1
  WorkerDepth = 4
  AllocFails = FALSE
  SendFails = TRUE
  UniqueSids = TRUE
SYMMETRY Symmetry
INVARIANTS
  ReplyOnlyToRequester
  OneAnswerUnderWay
  BroadcastUnderWay
  AnswerLeaksNoRequest
