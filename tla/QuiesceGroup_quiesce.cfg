SPECIFICATION ScanFairSpec
CONSTANTS
  p1 = p1
  p2 = p2
  p3 = p3
  p4 = p4
  Pids <- MCPids
  Rounds = 2
  MaxForks = 2
INVARIANTS QuietLeavesOnlyNewborn
PROPERTIES QuiesceEnds
CHECK_DEADLOCK FALSE
