SPECIFICATION Spec
CONSTANTS
  NULL = NULL
  Fds = {fd1, fd2, fd3}
  Responses = {r1, r2, r3}
  MaxTargets = 3
  OutDepth = 4
SYMMETRY Symmetry
INVARIANTS
  TypeOK
  NoUseAfterFree
  FreedAtLast
