SPECIFICATION FairSpec
CONSTANTS
  j1 = j1
  j2 = j2
  None = None
  Jobs <- TwoJobs
  MaxLosses = 1
  MaxClicks = 3
INVARIANTS
  LoopsBounded
  DoneOnce
  ListIsAsNewAsTold
PROPERTIES
  EndIsShown
