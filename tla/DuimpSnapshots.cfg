SPECIFICATION Spec
CONSTANTS
  h1 = h1
  h2 = h2
  None = None
  Handlers <- TwoHandlers
  Duimps <- SomeDuimps
  PageSize = 2
  Fields <- OneField
  Values <- TwoValues
  MaxVersions = 2
  MaxSnapshots = 2
  MaxContexts = 2
SYMMETRY HandlerSymmetry
INVARIANTS
  SnapshotsAreComplete
  OverridesStand
  ProcessFollowsSnapshot
  TwinsAreRaces
