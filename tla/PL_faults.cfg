SPECIFICATION Spec
CONSTANTS
  Proc = {p1, p2, p3}
  None = None
  Forcers = {p1}
  MaxLive = 3
  MaxClaims = 2
  MaxSuspensions = 1
  CrashPoints <- Anywhere
  StallPoints <- Anywhere
  FailPoints <- Never
SYMMETRY Symmetric
INVARIANTS LockInv OwnerInPlace MutualExclusion
PROPERTIES BarrierHolds LeaseSpec
CONSTRAINT NoTheft
