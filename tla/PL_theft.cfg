SPECIFICATION Spec
CONSTANTS
  Proc = {p1, p2, p3, p4}
  None = None
  Forcers = {}
  MaxLive = 3
  MaxClaims = 2
  MaxSuspensions = 0
  CrashPoints <- MidRelease
  StallPoints <- Never
  FailPoints <- Never
SYMMETRY Symmetric
INVARIANTS ExclusiveOwnership
