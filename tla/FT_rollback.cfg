SPECIFICATION Spec
CONSTANTS
  NPaths = 1
  Written = {1}
  Deleted = {}
  Deps = {}
  MaxEdits = 0
  MaxFaults = 2
INVARIANTS RollbackHonest
