SPECIFICATION Spec
CONSTANTS
  s1 = s1
  s2 = s2
  c1 = c1
  c2 = c2
  c3 = c3
  NoSession = NoSession
  Sessions <- TwoSessions
  Calls <- ThreeCalls
  MaxRounds = 2
  Cancels = TRUE
  DbErrors = TRUE
SYMMETRY Symmetry
INVARIANTS
  TypeOK
  NoStaleAnswer
  SendNeverBlocks
  InFlightKept
PROPERTY Promise
