SPECIFICATION FairSpec
CONSTANTS
  child = child
  d1 = d1
  d2 = d2
  Child <- child
  Descendants <- MCOne
  PipeSize = 1
  Limit = 1
  InputSize = 1
  MaxWork = 2
  MaxFaults = 1
INVARIANTS OkIsComplete SupervisedDie
PROPERTIES CooperativeFinishes DeadlineEnds
CHECK_DEADLOCK FALSE
