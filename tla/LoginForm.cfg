SPECIFICATION FairSpec
CONSTANTS
  s1 = s1
  s2 = s2
  f1 = f1
  NoSession = NoSession
  Sessions <- TwoSessions
  Calls <- OneForm
  Cancels = TRUE
  DbErrors = TRUE
  MaxRounds = 2
  MaxFailures = 1
INVARIANTS
  AnswersWhatItShows
  CompleteMeansSaved
  CancelledNeverSaved
  NeverSilent
PROPERTIES
  FormSettles
  ThreadEnds
  AcceptedIsStored
