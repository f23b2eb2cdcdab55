SPECIFICATION Spec
CONSTANTS
  None = None
  Operations <- MCInstall
  MaxTransactions = 1
  MaxMishaps = 2
INVARIANTS ActiveSurvives
CHECK_DEADLOCK FALSE
