SPECIFICATION Spec
CONSTANTS
  None = None
  Operations <- MCAll
  MaxTransactions = 3
  MaxMishaps = 4
INVARIANTS InstallAllOrNothing FailureRestores OneMishapKeepsActive RollbackAllOrNothing UninstallAllOrNothing
CHECK_DEADLOCK FALSE
