SPECIFICATION Spec
CONSTANTS
  l1 = l1
  l2 = l2
  s1 = s1
  i1 = i1
  i2 = i2
  None = None
  Identities <- TwoIdentities
  Logins <- TwoLogins
  Sessions <- OneSession
  Lifetime = 2
  Margin = 1
  MaxNow = 3
SYMMETRY Symmetric
INVARIANTS TypeOK IdentityMatches SessionIsConsistent TokenIsUsable
