SPECIFICATION Spec
CONSTANTS
  Run = {r1, r2}
  Forcers = {}
  Version = {v1}
  None = None
  Partial = Partial
  MaxEdits = 0
  MaxFaults = 1
SYMMETRY Symmetry
INVARIANT NeverOpened
