SPECIFICATION Spec
CONSTANTS
  d1 = d1
  d2 = d2
  r1 = r1
  r2 = r2
  Children <- TwoChildren
  Requests <- TwoRequests
  MaxAttempts = 1
  MaxFaults = 1
  MaxWaits = 1
SYMMETRY Handlers2Symmetry
INVARIANT
  ProcessAuthorizedIsSound
CHECK_DEADLOCK FALSE
