SPECIFICATION Spec
CONSTANTS
  r1 = r1
  r2 = r2
  r3 = r3
  j1 = j1
  j2 = j2
  j3 = j3
  x = x
  p = p
  q = q
  Unsigned = Unsigned
  Null = Null
  Rows <- TwoRows
  Jobs <- ThreeJobs
  Ipas <- OneIpa
  Accounts <- TwoAccounts
  Worlds <- Reconciled
PROPERTY PruneOnlyMissing
