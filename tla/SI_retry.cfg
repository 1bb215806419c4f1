SPECIFICATION Spec
CONSTANTS
  Run = {r1, r2}
  Forcers = {r1, r2}
  Version = {v1, v2}
  None = None
  Partial = Partial
  MaxEdits = 2
  MaxFaults = 1
SYMMETRY Symmetry
INVARIANTS TypeOK BarrierStands MarkerKept IncompleteRecorded Retryable
PROPERTY ClearedMeansInstalled
