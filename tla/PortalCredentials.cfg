SPECIFICATION Spec
CONSTANTS
  h1 = h1
  h2 = h2
  Handlers <- TwoHandlers
  MaxKeys = 2
  MaxRows = 2
  MaxTyped = 2
SYMMETRY HandlerSymmetry
INVARIANTS
  SecretsAreThere
  NoSecretIsForgotten
  ConnectedIsTested
