SPECIFICATION Spec
CONSTANTS
  p1 = p1
  p2 = p2
  Cli <- Clis
  Nobody = Nobody
  MaxFaults <- FaultsOf
INVARIANTS TypeOK SignalHeeded FailureLeavesNothing Announced
PROPERTIES NothingUndone EveryRunEnds
