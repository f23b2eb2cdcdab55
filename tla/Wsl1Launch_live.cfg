SPECIFICATION FairSpec
CONSTANTS
  d1 = d1
  d2 = d2
  Dispatchers <- MCOneDispatcher
  Nobody = Nobody
  TargetCodes <- MCTargetCodes
  MaxProvisions = 2
PROPERTIES CancellationReturns ProxyExitReturns
CHECK_DEADLOCK FALSE
