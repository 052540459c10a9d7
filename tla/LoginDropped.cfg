SPECIFICATION Spec
CONSTANTS
  s1 = s1
  s2 = s2
  c1 = c1
  c2 = c2
  c3 = c3
  NoSession = NoSession
  Sessions <- TwoSessions
  Calls <- TwoCalls
  MaxRounds = 1
  Cancels = FALSE
  DbErrors = FALSE
INVARIANT SuccessKept
