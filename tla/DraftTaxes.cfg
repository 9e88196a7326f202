SPECIFICATION Spec
CONSTANTS
  h1 = h1
  h2 = h2
  Items <- TwoItems
  Handlers <- TwoHandlers
  Sources <- OneRule
  CostSets <- SomeCosts
  Configs <- SomeConfigs
  Amounts <- SomeAmounts
  Typed <- SomeTyped
  MaxEdits = 2
SYMMETRY HandlerSymmetry
INVARIANTS
  XmlIsBalanced
  SharesAreExact
  IcmsIsInside
PROPERTIES
  AdjustmentsStand
CHECK_DEADLOCK FALSE
