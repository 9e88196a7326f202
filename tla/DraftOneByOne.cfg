SPECIFICATION Spec
CONSTANTS
  r1 = r1
  r2 = r2
  Requests <- OneRequest
  MaxClock = 7
  MaxVersions = 2
  StampLag = 1
INVARIANTS
  SignedXmlHasIssuanceKey
  RemovedIsUnsigned
CHECK_DEADLOCK FALSE
