CONSTANTS
  c1 = c1
  c2 = c2
  c3 = c3
  c4 = c4
  r1 = r1
  r2 = r2
  r3 = r3
  listener = listener
  cli = cli
  Callers <- FourCallers
  MaxAttempts <- ThreeAttempts
  Requests <- ThreeRequests
  Processes <- TwoProcesses
  ProcessOf <- CallsOf
  StartIndex = 0
  FirstIndex = 5
  NoOne = NoOne
SPECIFICATION BothFairSpec
INVARIANTS
  GivesUpOnlyAfterLosing
PROPERTIES
  CasImplementsChildIndex
  ImplementsChildIndex
  EveryCallSettles
CHECK_DEADLOCK FALSE
