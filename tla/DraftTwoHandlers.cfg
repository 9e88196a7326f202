SPECIFICATION Spec
CONSTANTS
  r1 = r1
  r2 = r2
  Requests <- TwoRequests
  MaxClock = 4
  MaxVersions = 1
  StampLag = 1
SYMMETRY HandlersSymmetry
PROPERTIES
  SignsAsPromised
  GainsAreKept
  SignedXmlIsCurrent
CHECK_DEADLOCK FALSE
