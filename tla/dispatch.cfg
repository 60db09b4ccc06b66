CONSTANTS
  e1 = e1
  e2 = e2
  Events <- MCEvents
  None = None
  RetryCurve <- Curve
  InitialDelays = {1}
  BatchSize = 2
  Sorted = FALSE
  MaxLate = 0
  Reemitted = {e1}
  MaxCrashes = 1
  MaxStops = 1
  MaxErrors = 1
SPECIFICATION FairSpec
INVARIANTS
  RequestsAreBounded
  DeliveredWasAccepted
PROPERTIES
  BackoffIsRespected
  EveryEventSettles
