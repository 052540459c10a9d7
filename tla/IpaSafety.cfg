SPECIFICATION Spec
CONSTANTS
  d1 = d1
  d2 = d2
  u1 = u1
  u2 = u2
  u3 = u3
  k1 = k1
  team = team
  Unsigned = Unsigned
  Stored = Stored
  Partial = Partial
  None = None
  Devices <- TwoDevices
  Uploads <- ThreeUploads
  Refreshes <- OneRefresh
  Teams <- OneTeam
  Worlds <- SmallWorlds
  MaxCrashes = 1
SYMMETRY Symmetric
INVARIANT JobSignsItsOwn
PROPERTY RefreshIsNotOlder
