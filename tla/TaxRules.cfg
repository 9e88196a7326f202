SPECIFICATION Spec
CONSTANTS
  a1 = a1
  a2 = a2
  o1 = o1
  u1 = u1
  u2 = u2
  dated = dated
  sale = sale
  Admins <- TwoAdmins
  Operators <- OneOperator
  Rules <- TwoRules
  Items <- OneItem
  Facts <- ItemFacts
  Targets <- OneTarget
  Scopes <- SomeScopes
  MaxEdits = 2
SYMMETRY AdminSymmetry
INVARIANTS
  ClassifiedIsCurrent
  TiesAreRaces
  TiesAreDiagnosed
CHECK_DEADLOCK FALSE
