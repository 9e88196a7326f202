SPECIFICATION SequenceSpec
CONSTANTS
  r1 = r1
  r2 = r2
  Requests <- TwoRequests
  Ceiling = 3
  Inputs <- AroundTheCeiling
SYMMETRY HandlersSymmetry
INVARIANTS
  NumbersAreUnique
  NoHoles
  NumbersFit
PROPERTIES
  ProgressIsKept
CHECK_DEADLOCK FALSE
