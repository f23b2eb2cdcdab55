SPECIFICATION FairSpec
CONSTANTS
  p1 = p1
  p2 = p2
  p3 = p3
  Procs <- MCProcs
  Nobody = Nobody
  MaxWrites = 5
  ScanReliable = TRUE
INVARIANTS NoLostUpdate
PROPERTIES RegisterSpec WaiterReturns
CHECK_DEADLOCK FALSE
