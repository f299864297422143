SPECIFICATION FairSpec
CONSTANTS
  NULL = NULL
  f1 = f1
  f2 = f2
  q1 = q1
  q2 = q2
  Fds = {fd1}
  Sessions = {s1}
  Calls = {c1, c2}
  Fids = {f1, f2}
  Sids = {1, 2}
  Queues = {q1}
  Routes <- MCRoutes
  HandlerFids = {}
  BroadcastFids = {}
  SilentFids = {f2}
  Args = {"bad"}
  PeriphDepth = 1
  WorkerDepth = 3
  AllocFails = FALSE
  SendFails = FALSE
  UniqueSids = TRUE
PROPERTIES
  WorkerComesBack
  DeadCallsAreFreed
  AcceptedCallsMove
  WaitingCallsAreAnswered
