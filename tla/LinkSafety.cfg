SPECIFICATION FairSpec
CONSTANTS
  lan = lan
  local = local
  o1 = o1
  NoAddr = NoAddr
  Addrs <- TwoAddrs
  Class <- TwoClasses
  Ops <- OneOp
  Hosts <- AnyHost
  MaxMoves = 1
  MaxEvents = 2
INVARIANTS
  SteadyNeverFails
  HintIsNewest
PROPERTY OpEnds
