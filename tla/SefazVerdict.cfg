SPECIFICATION FairSpec
CONSTANTS
  d1 = d1
  d2 = d2
  r1 = r1
  r2 = r2
  Children <- OneChild
  Requests <- TwoRequests
  MaxAttempts = 6
  MaxFaults = 1
  MaxWaits = 2
INVARIANTS
  TypeOK
  AtMostOnePost
  IntentBeforePost
  AuthorizedIsBacked
  FinalStatusAgrees
PROPERTIES
  KeepsPromise
  VerdictsStand
  VerdictIsLearnt
CHECK_DEADLOCK FALSE
