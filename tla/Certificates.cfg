SPECIFICATION Spec
CONSTANTS
  r1 = r1
  r2 = r2
  u1 = u1
  u2 = u2
  s1 = s1
  f1 = f1
  f2 = f2
  None = None
  Requests <- TwoRequests
  Uploads <- TwoUploads
  Listed <- OneListed
  Files <- TwoFiles
  MaxFaults = 1
SYMMETRY Symmetric
INVARIANTS
  OneRowPerCertificate
  RowsKeepTheirMaterial
  OrphansAreFaults
PROPERTIES
  ActivationAloneIsExclusive
