SPECIFICATION Spec
CONSTANTS
  d1 = d1
  d2 = d2
  Dispatchers <- MCDispatchers
  Nobody = Nobody
  TargetCodes <- MCOneCode
  MaxProvisions = 0
SYMMETRY Swap
INVARIANTS StopIsFinal OneCommand
PROPERTIES RunsSpec ResetSparesOthers
CHECK_DEADLOCK FALSE
