SPECIFICATION FairSpec
CONSTANTS
  Proc = {p1, p2}
  None = None
  Forcers = {}
  MaxLive = 2
  MaxClaims = 2
  MaxSuspensions = 1
  CrashPoints <- HalfDone
  StallPoints <- Acting
  FailPoints <- Failing
INVARIANTS ReleasedIsGone
PROPERTIES AttemptEnds
