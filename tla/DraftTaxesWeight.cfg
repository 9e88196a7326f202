SPECIFICATION Spec
CONSTANTS
  h1 = h1
  h2 = h2
  Items <- TwoItems
  Handlers <- OneHandler
  Sources <- TwoRules
  CostSets <- SomeCosts
  Configs <- SomeConfigs
  Amounts <- SomeAmounts
  Typed <- SomeTyped
  MaxEdits = 2
INVARIANTS
  AfrmmFollowsWeight
CHECK_DEADLOCK FALSE
