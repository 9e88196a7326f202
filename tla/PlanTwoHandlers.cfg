SPECIFICATION Spec
CONSTANTS
  r1 = r1
  r2 = r2
  Requests <- TwoRequests
  Duimps <- OneOrTwoExporters
  MaxSnapshots = 2
  MaxPlans = 2
  MaxDrafts = 3
SYMMETRY Symmetric
CHECK_DEADLOCK FALSE
INVARIANTS
  PlannedTogetherOverlapped
  TwinDraftsOverlapped
  DraftsFollowThePlan
  DraftsComeTogether
