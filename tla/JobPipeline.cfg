SPECIFICATION FairSpec
CONSTANTS
  j1 = j1
  j2 = j2
  j3 = j3
  a1 = a1
  a2 = a2
  NoJob = NoJob
  NoApp = NoApp
  Jobs <- ThreeJobs
  ClientJobs <- TwoJobs
  Apps <- TwoApps
  Capacity = 1
  Workers = 2
  FaultKinds <- AllFaults
  MaxFaults = 1
INVARIANTS
  TypeOK
  OnePlace
  StatusTruthful
  PoolConserved
PROPERTIES
  Lifecycle
  EveryJobEnds
