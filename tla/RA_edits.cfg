SPECIFICATION Spec
CONSTANTS
  None = None
  User = {u}
  Config = {1, 2}
  Version = {1, 2}
  MaxFaults = 2
  MaxEdits = 2
  Path <- MCPath
  Gen <- MCGen
  Target <- MCTarget
  Life <- MCLife
  Added = {"extra"}
  Place <- MCPlace
  First <- MCFirst
INVARIANTS ApplyInv StateMatchesDisk PlanAttested InterruptionRecorded
PROPERTIES UserBytesKept
