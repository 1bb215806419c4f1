SPECIFICATION Spec
CONSTANTS
  NPaths = 3
  Written = {1, 2}
  Deleted = {3}
  Deps = {2}
  MaxEdits = 2
  MaxFaults = 2
INVARIANTS BytesSurvive RecoveryReported AllOrNothing RollbackComplete
